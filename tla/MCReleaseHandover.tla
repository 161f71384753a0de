-------------------------- MODULE MCReleaseHandover --------------------------
(* Small instances of ReleaseHandover for TLC.                             *)
EXTENDS ReleaseHandover, TLC

CONSTANTS b1, b2, b3, g1, g2, r1, r2, c1, x1

Slot == [i \in Instances |-> IF i \in {b1, b2, b3} THEN "blue" ELSE "green"]
\* g1 is a candidate of the release r1, and g2 or b3 one of r2.
Config ==
    [i \in Instances |-> IF i \in {b1, b2} THEN "old" ELSE IF i = g1 THEN "new" ELSE "newer"]
ReleaseConfig == [r \in Releases |-> IF r = r1 THEN "new" ELSE "newer"]
ReleaseVersion == [r \in Releases |-> IF r = r1 THEN 1 ELSE 2]
\* The command c1 is about the source x1, the others about none.
CommandRefs == [c \in Commands |-> IF c = c1 THEN Refs ELSE {}]
Symmetric == Permutations(Tickets) \cup Permutations({b1, b2} \cap Instances)
=============================================================================
