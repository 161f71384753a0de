---------------------------- MODULE MCKeyedLocks ----------------------------
(* Small instances of KeyedLocks for TLC.                                  *)
EXTENDS KeyedLocks, TLC

CONSTANTS p1, p2, p3, t1, t2, t3

\* p3 is a process of the host that is given the pid of p1 before or after it.
Pid == [p \in Procs |-> IF p = p2 THEN 2 ELSE 1]
Process == [t \in Tasks |-> IF t = t3 THEN p2 ELSE p1]
\* t1 and t3 lock both keys, t2 the second one.
Lists == [t \in Tasks |-> [k \in Keys |-> IF t = t2 /\ k = 1 THEN 0 ELSE 1]]
\* t1 names the second key twice.
Twice == [t \in Tasks |-> [k \in Keys |-> IF t = t1 /\ k = 2 THEN 2 ELSE 1]]
=============================================================================
