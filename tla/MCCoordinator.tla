--------------------------- MODULE MCCoordinator ---------------------------
(* Small instances of Coordinator for TLC.                                 *)
EXTENDS Coordinator, TLC

CONSTANTS o1, o2, man1

\* Every process is configured alike.
OneManifest == [o \in Owners |-> man1]

\* Tickets and writes are interchangeable, and processes configured alike.
OwnersOpsAndWrites == Permutations(Owners) \cup Permutations(Ops) \cup Permutations(Muts)
=============================================================================
