------------------------ MODULE MCReleaseOrchestrator ------------------------
(* Small instances of ReleaseOrchestrator for TLC.                         *)
EXTENDS ReleaseOrchestrator, TLC

CONSTANTS b1, b2, g1, g2, r1, r2

Slot == [i \in Instances |-> IF i \in {b1, b2} THEN "blue" ELSE "green"]
\* g1 is the candidate of the release r1, and g2 or b2 that of r2.
Config == [i \in Instances |-> IF i = b1 THEN "old" ELSE IF i = g1 THEN "new" ELSE "newer"]
ReleaseConfig == [r \in Releases |-> IF r = r1 THEN "new" ELSE "newer"]
ReleaseVersion == [r \in Releases |-> IF r = r1 THEN 1 ELSE 2]
CommandRefs == [c \in Commands |-> {}]
=============================================================================
