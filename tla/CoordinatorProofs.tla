------------------------- MODULE CoordinatorProofs -------------------------
(***************************************************************************)
(* Theorems about Coordinator for every set of processes, tickets, tasks,  *)
(* resources, documents and writes.                                        *)
(***************************************************************************)
EXTENDS Coordinator, TLAPS

-----------------------------------------------------------------------------
(* Type correctness.                                                       *)

\* The tables and the processes start well typed.
LEMMA TypeInit == ASSUME CoordinatorAssumption, Init PROVE TypeOK
  BY DEF CoordinatorAssumption, Init, TypeOK

\* Whether the fence is written or the coordinator retired, types hold.
LEMMA MarkUncertainTypes ==
  ASSUME TypeOK, NEW x, MarkUncertain(x)
  PROVE  /\ fenced' \in BOOLEAN
         /\ status' \in [Owners -> {"new", "open", "broken", "dead"}]
<1>1. CASE Permitted(x) /\ fenced' = TRUE /\ UNCHANGED status
  BY <1>1 DEF TypeOK
<1>2. CASE /\ status' = [status EXCEPT ![opOwner[x]] =
                            IF @ = "open" THEN "broken" ELSE @]
           /\ UNCHANGED fenced
  BY <1>2 DEF TypeOK
<1> QED
  BY <1>1, <1>2 DEF MarkUncertain

\* Every transaction and every client step keeps the tables well typed, and a
\* lock row is present exactly while its depth is positive.
LEMMA TypeStep ==
  ASSUME CoordinatorAssumption, TypeOK, [Next]_vars
  PROVE  TypeOK'
<1> USE DEF CoordinatorAssumption, TypeOK
<1>1. ASSUME NEW o \in Owners, Initialize(o) PROVE TypeOK'
  BY <1>1 DEF Initialize, ManifestAccepted, FenceAfterCheck, tickets, locks, journal, storage
<1>2. ASSUME NEW o \in Owners, Quarantine(o) PROVE TypeOK'
  BY <1>2 DEF Quarantine, tickets, locks, journal, storage
<1>3. ASSUME NEW o \in Owners, WitnessLost(o) PROVE TypeOK'
  BY <1>3 DEF WitnessLost, tickets, locks, journal, storage
<1>4. ASSUME NEW o \in Owners, Crash(o) PROVE TypeOK'
  BY <1>4 DEF Crash, tickets, locks, journal, storage
<1>5. ASSUME NEW o \in Owners, DiscoverOrphan(o) PROVE TypeOK'
  BY <1>5 DEF DiscoverOrphan, tickets, locks, journal, storage
<1>6. ASSUME NEW o \in Owners, NEW x \in Ops, NEW e \in BOOLEAN, Admit(o, x, e)
      PROVE  TypeOK'
  BY <1>6 DEF Admit, tickets, locks, journal, storage
<1>7. ASSUME NEW x \in Ops, Finish(x) PROVE TypeOK'
  <2>1. fenced' \in BOOLEAN
    BY <1>7 DEF Finish, Permitted, Active
  <2>2. opState' \in [Ops -> {"unused", "active", "completed", "recovered"}]
    BY <1>7 DEF Finish
  <2>3. claim' \in [Docs -> Ops \cup {None}]
    BY <1>7 DEF Finish
  <2>4. open' \in [Ops -> BOOLEAN]
    BY <1>7 DEF Finish
  <2> QED
    BY <1>7, <2>1, <2>2, <2>3, <2>4 DEF Finish, tickets, locks, journal, storage
<1>8. ASSUME NEW x \in Ops, FailOperation(x) PROVE TypeOK'
  BY <1>8, MarkUncertainTypes DEF FailOperation, tickets, locks, journal, storage
<1>9. ASSUME NEW x \in Ops, NEW t \in Tasks, NEW K \in SUBSET Keys, AcquireLock(x, t, K)
      PROVE  TypeOK'
  BY <1>9 DEF AcquireLock, Deeper, tickets, locks, journal, storage
<1>10. ASSUME NEW x \in Ops, NEW t \in Tasks, NEW K \in SUBSET Keys, ReleaseLock(x, t, K)
       PROVE  TypeOK'
  <2>1. fenced' \in BOOLEAN
    BY <1>10 DEF ReleaseLock, Permitted, Active, locks
  <2>2. depth' \in [Ops -> [Tasks -> [Keys -> Nat]]]
    BY <1>10 DEF ReleaseLock, Leave
  <2>3. /\ lockOp' \in [Keys -> Ops \cup {None}]
        /\ lockTask' \in [Keys -> Tasks \cup {None}]
        /\ lockDepth' \in [Keys -> Nat]
        /\ \A k \in Keys : lockOp'[k] = None <=> lockDepth'[k] = 0
    <3>1. CASE Validated(x)
      <4> DEFINE mine == {k \in K : lockOp[k] = x /\ lockTask[k] = t}
                 last == {k \in mine : lockDepth[k] = 1}
      <4>1. /\ lockOp' = [k \in Keys |-> IF k \in last THEN None ELSE lockOp[k]]
            /\ lockTask' = [k \in Keys |-> IF k \in last THEN None ELSE lockTask[k]]
            /\ lockDepth' = [k \in Keys |->
                                IF k \in mine THEN lockDepth[k] - 1 ELSE lockDepth[k]]
        <5> HIDE DEF CoordinatorAssumption, TypeOK
        <5> QED BY <1>10, <3>1 DEF ReleaseLock, Emptied
      <4>2. \A k \in mine : lockDepth[k] \in Nat \ {0}
        OBVIOUS
      <4> HIDE DEF mine
      <4>3. lockDepth' \in [Keys -> Nat]
        BY <4>1, <4>2
      <4>4. ASSUME NEW k \in Keys PROVE lockOp'[k] = None <=> lockDepth'[k] = 0
        <5>1. CASE k \in last
          BY <4>1, <5>1
        <5>2. CASE k \in mine \ last
          BY <4>1, <4>2, <5>2
        <5>3. CASE k \notin mine
          BY <4>1, <5>3
        <5> QED
          BY <5>1, <5>2, <5>3
      <4> HIDE DEF mine, last
      <4> QED
        BY <4>1, <4>3, <4>4
    <3>2. CASE ~Validated(x)
      BY <1>10, <3>2 DEF ReleaseLock, locks
    <3> QED
      BY <3>1, <3>2
  <2> QED
    BY <1>10, <2>1, <2>2, <2>3 DEF ReleaseLock, tickets, journal, storage
<1>11. ASSUME NEW x \in Ops, NEW t \in Tasks, NEW K \in SUBSET Keys, FailLock(x, t, K)
       PROVE  TypeOK'
  BY <1>11, MarkUncertainTypes DEF FailLock, Leave, tickets, locks, journal, storage
<1>12. ASSUME NEW x \in Ops, NEW d \in Docs, TryClaimDocument(x, d) PROVE TypeOK'
  BY <1>12 DEF TryClaimDocument, tickets, locks, journal, storage
<1>13. ASSUME NEW x \in Ops, NEW d \in Docs, ReleaseClaim(x, d) PROVE TypeOK'
  BY <1>13 DEF ReleaseClaim, tickets, locks, journal, storage
<1>14. ASSUME NEW x \in Ops, NEW t \in Tasks, NEW k \in Keys \cup {None}, NEW m \in Muts,
              Publish(x, t, k, m)
       PROVE  TypeOK'
  BY <1>14 DEF Publish, tickets, locks, journal, storage
<1>15. ASSUME NEW m \in Muts, Send(m) PROVE TypeOK'
  BY <1>15 DEF Send, tickets, locks, journal, storage
<1>16. ASSUME NEW m \in Muts, Apply(m) PROVE TypeOK'
  BY <1>16 DEF Apply, tickets, locks, journal, storage
<1>17. ASSUME NEW m \in Muts, Lose(m) PROVE TypeOK'
  BY <1>17 DEF Lose, tickets, locks, journal, storage
<1>18. ASSUME NEW m \in Muts, Acknowledge(m) PROVE TypeOK'
  BY <1>18 DEF Acknowledge, Confirmed, tickets, locks, journal, storage
<1>19. ASSUME NEW m \in Muts, FailMutation(m) PROVE TypeOK'
  BY <1>19, MarkUncertainTypes DEF FailMutation, tickets, locks, journal, storage
<1>20. ASSUME Recover PROVE TypeOK'
  <2>0. generation \in Nat
    OBVIOUS
  <2>1. generation' = generation + 1 /\ fenced' = FALSE
    <3> HIDE DEF CoordinatorAssumption, TypeOK
    <3> QED BY <1>20 DEF Recover
  <2>2. opState' \in [Ops -> {"unused", "active", "completed", "recovered"}]
    BY <1>20 DEF Recover, Settle
  <2>3. mutState' \in [Muts -> {"unused", "pending", "ack", "recovered"}]
    BY <1>20 DEF Recover, Settle
  <2>4. /\ lockOp' \in [Keys -> Ops \cup {None}]
        /\ lockTask' \in [Keys -> Tasks \cup {None}]
        /\ lockDepth' \in [Keys -> Nat]
        /\ \A k \in Keys : lockOp'[k] = None <=> lockDepth'[k] = 0
        /\ claim' \in [Docs -> Ops \cup {None}]
    BY <1>20 DEF Recover, DropOwnership
  <2>6. generation' \in Nat
    <3> HIDE DEF CoordinatorAssumption, TypeOK
    <3> QED BY <2>0, <2>1
  <2>5. UNCHANGED <<manifest, opOwner, opGeneration, exclusive, mutOp, mutTask, mutKey,
                    witness, status, open, depth, mutPc, flight, applied>>
    <3> HIDE DEF CoordinatorAssumption, TypeOK
    <3> QED BY <1>20 DEF Recover, storage
  <2> QED
    BY <2>1, <2>2, <2>3, <2>4, <2>5, <2>6
<1>21. ASSUME UNCHANGED vars PROVE TypeOK'
  BY <1>21 DEF vars, tickets, locks, journal, storage
<1> HIDE DEF CoordinatorAssumption, TypeOK
<1>22. ASSUME NEW x \in Ops, NEW t \in Tasks, NEW K \in SUBSET Keys,
              AcquireLock(x, t, K) \/ ReleaseLock(x, t, K) \/ FailLock(x, t, K)
       PROVE  TypeOK'
  BY <1>9, <1>10, <1>11, <1>22
<1>23. ASSUME NEW m \in Muts, \/ Send(m) \/ Apply(m) \/ Lose(m) \/ Acknowledge(m)
                                \/ FailMutation(m)
       PROVE  TypeOK'
  BY <1>15, <1>16, <1>17, <1>18, <1>19, <1>23
<1> QED
  BY <1>1, <1>2, <1>3, <1>4, <1>5, <1>6, <1>7, <1>8, <1>12, <1>13, <1>14, <1>20, <1>21,
     <1>22, <1>23 DEF Next

\* Coordinator, all of it: the variables keep their types.
THEOREM TypeCorrect == ASSUME CoordinatorAssumption PROVE Spec => []TypeOK
<1>1. Init => TypeOK
  BY TypeInit
<1>2. TypeOK /\ [Next]_vars => TypeOK'
  BY TypeStep
<1> QED
  BY <1>1, <1>2, PTL DEF Spec
-----------------------------------------------------------------------------
(* Which steps touch which rows.                                           *)

\* Tickets and the generation change by admission, completion and recovery.
LEMMA TicketSteps ==
  ASSUME [Next]_vars
  PROVE  \/ UNCHANGED <<generation, tickets>>
         \/ \E o \in Owners, x \in Ops, e \in BOOLEAN : Admit(o, x, e)
         \/ \E x \in Ops : Finish(x)
         \/ Recover
<1>1. ASSUME NEW o \in Owners,
             \/ Initialize(o) \/ Quarantine(o) \/ WitnessLost(o) \/ Crash(o) \/ DiscoverOrphan(o)
      PROVE  UNCHANGED <<generation, tickets>>
  BY <1>1 DEF Initialize, Quarantine, WitnessLost, Crash, DiscoverOrphan
<1>2. ASSUME NEW x \in Ops, FailOperation(x) PROVE UNCHANGED <<generation, tickets>>
  BY <1>2 DEF FailOperation
<1>3. ASSUME NEW x \in Ops, NEW t \in Tasks, NEW K \in SUBSET Keys,
             AcquireLock(x, t, K) \/ ReleaseLock(x, t, K) \/ FailLock(x, t, K)
      PROVE  UNCHANGED <<generation, tickets>>
  BY <1>3 DEF AcquireLock, ReleaseLock, FailLock
<1>4. ASSUME NEW x \in Ops, NEW d \in Docs, TryClaimDocument(x, d) \/ ReleaseClaim(x, d)
      PROVE  UNCHANGED <<generation, tickets>>
  BY <1>4 DEF TryClaimDocument, ReleaseClaim
<1>5. ASSUME NEW x \in Ops, NEW t \in Tasks, NEW k \in Keys \cup {None}, NEW m \in Muts,
             Publish(x, t, k, m)
      PROVE  UNCHANGED <<generation, tickets>>
  BY <1>5 DEF Publish
<1>6. ASSUME NEW m \in Muts,
             Send(m) \/ Apply(m) \/ Lose(m) \/ Acknowledge(m) \/ FailMutation(m)
      PROVE  UNCHANGED <<generation, tickets>>
  BY <1>6 DEF Send, Apply, Lose, Acknowledge, FailMutation
<1>7. ASSUME UNCHANGED vars PROVE UNCHANGED <<generation, tickets>>
  BY <1>7 DEF vars
<1> QED
  BY <1>1, <1>2, <1>3, <1>4, <1>5, <1>6, <1>7 DEF Next

\* Lock rows and the contexts of tasks change in lock() and by recovery.
LEMMA LockSteps ==
  ASSUME [Next]_vars
  PROVE  \/ UNCHANGED <<locks, depth>>
         \/ \E x \in Ops, t \in Tasks, K \in SUBSET Keys :
               AcquireLock(x, t, K) \/ ReleaseLock(x, t, K) \/ FailLock(x, t, K)
         \/ Recover
<1>1. ASSUME NEW o \in Owners,
             \/ Initialize(o) \/ Quarantine(o) \/ WitnessLost(o) \/ Crash(o) \/ DiscoverOrphan(o)
      PROVE  UNCHANGED <<locks, depth>>
  BY <1>1 DEF Initialize, Quarantine, WitnessLost, Crash, DiscoverOrphan
<1>2. ASSUME NEW x \in Ops, Finish(x) \/ FailOperation(x) PROVE UNCHANGED <<locks, depth>>
  BY <1>2 DEF Finish, FailOperation
<1>3. ASSUME NEW o \in Owners, NEW x \in Ops, NEW e \in BOOLEAN, Admit(o, x, e)
      PROVE  UNCHANGED <<locks, depth>>
  BY <1>3 DEF Admit
<1>4. ASSUME NEW x \in Ops, NEW d \in Docs, TryClaimDocument(x, d) \/ ReleaseClaim(x, d)
      PROVE  UNCHANGED <<locks, depth>>
  BY <1>4 DEF TryClaimDocument, ReleaseClaim
<1>5. ASSUME NEW x \in Ops, NEW t \in Tasks, NEW k \in Keys \cup {None}, NEW m \in Muts,
             Publish(x, t, k, m)
      PROVE  UNCHANGED <<locks, depth>>
  BY <1>5 DEF Publish
<1>6. ASSUME NEW m \in Muts,
             Send(m) \/ Apply(m) \/ Lose(m) \/ Acknowledge(m) \/ FailMutation(m)
      PROVE  UNCHANGED <<locks, depth>>
  BY <1>6 DEF Send, Apply, Lose, Acknowledge, FailMutation
<1>7. ASSUME UNCHANGED vars PROVE UNCHANGED <<locks, depth>>
  BY <1>7 DEF vars
<1> QED
  BY <1>1, <1>2, <1>3, <1>4, <1>5, <1>6, <1>7 DEF Next

\* The journal, its bodies and the storage change in mutation(), by the crash of
\* a process and by recovery.
LEMMA WriteSteps ==
  ASSUME [Next]_vars
  PROVE  \/ UNCHANGED <<journal, mutPc, storage>>
         \/ \E o \in Owners : Crash(o)
         \/ \E x \in Ops, t \in Tasks, k \in Keys \cup {None}, m \in Muts : Publish(x, t, k, m)
         \/ \E m \in Muts : Send(m) \/ Apply(m) \/ Lose(m) \/ Acknowledge(m) \/ FailMutation(m)
         \/ Recover
<1>1. ASSUME NEW o \in Owners,
             Initialize(o) \/ Quarantine(o) \/ WitnessLost(o) \/ DiscoverOrphan(o)
      PROVE  UNCHANGED <<journal, mutPc, storage>>
  BY <1>1 DEF Initialize, Quarantine, WitnessLost, DiscoverOrphan
<1>2. ASSUME NEW x \in Ops, Finish(x) \/ FailOperation(x)
      PROVE  UNCHANGED <<journal, mutPc, storage>>
  BY <1>2 DEF Finish, FailOperation
<1>3. ASSUME NEW o \in Owners, NEW x \in Ops, NEW e \in BOOLEAN, Admit(o, x, e)
      PROVE  UNCHANGED <<journal, mutPc, storage>>
  BY <1>3 DEF Admit
<1>4. ASSUME NEW x \in Ops, NEW t \in Tasks, NEW K \in SUBSET Keys,
             AcquireLock(x, t, K) \/ ReleaseLock(x, t, K) \/ FailLock(x, t, K)
      PROVE  UNCHANGED <<journal, mutPc, storage>>
  BY <1>4 DEF AcquireLock, ReleaseLock, FailLock
<1>5. ASSUME NEW x \in Ops, NEW d \in Docs, TryClaimDocument(x, d) \/ ReleaseClaim(x, d)
      PROVE  UNCHANGED <<journal, mutPc, storage>>
  BY <1>5 DEF TryClaimDocument, ReleaseClaim
<1>6. ASSUME UNCHANGED vars PROVE UNCHANGED <<journal, mutPc, storage>>
  BY <1>6 DEF vars
<1> QED
  BY <1>1, <1>2, <1>3, <1>4, <1>5, <1>6 DEF Next

-----------------------------------------------------------------------------
(* Tickets.                                                                *)

\* The normal exit of a body changes at most its own ticket, and only from
\* active to completed when nothing of it is unsettled.
LEMMA FinishTickets ==
  ASSUME TypeOK, NEW x \in Ops, Finish(x)
  PROVE  /\ UNCHANGED <<generation, opOwner, opGeneration, exclusive>>
         /\ \/ UNCHANGED opState
            \/ /\ Active(x) /\ ~Pending(x) /\ ~Holding(x)
               /\ opState' = [opState EXCEPT ![x] = "completed"]
  BY DEF Finish, Validated, Permitted

\* Admission looks at every active ticket under the row lock, so an exclusive
\* one stays alone.
LEMMA ExclusiveStep ==
  ASSUME CoordinatorAssumption, TypeOK, ExclusiveAlone, [Next]_vars
  PROVE  ExclusiveAlone'
<1>1. CASE UNCHANGED <<generation, tickets>>
  BY <1>1 DEF ExclusiveAlone, Active, tickets
<1>2. ASSUME NEW o \in Owners, NEW x \in Ops, NEW e \in BOOLEAN, Admit(o, x, e)
      PROVE  ExclusiveAlone'
  BY <1>2 DEF Admit, Conflicts, ExclusiveAlone, Active, TypeOK
<1>3. ASSUME NEW x \in Ops, Finish(x) PROVE ExclusiveAlone'
  <2>1. \A y \in Ops : Active(y)' => Active(y)
    BY <1>3, FinishTickets DEF Active, TypeOK
  <2>2. exclusive' = exclusive
    BY <1>3, FinishTickets
  <2> QED
    BY <2>1, <2>2 DEF ExclusiveAlone
<1>4. CASE Recover
  BY <1>4 DEF Recover, Settle, ExclusiveAlone, Active, TypeOK
<1> QED
  BY <1>1, <1>2, <1>3, <1>4, TicketSteps

\* Recovery ends every active ticket in the step that raises the generation.
LEMMA CurrentStep ==
  ASSUME CoordinatorAssumption, TypeOK, ActiveIsCurrent, [Next]_vars
  PROVE  ActiveIsCurrent'
<1>1. CASE UNCHANGED <<generation, tickets>>
  BY <1>1 DEF ActiveIsCurrent, Active, tickets
<1>2. ASSUME NEW o \in Owners, NEW x \in Ops, NEW e \in BOOLEAN, Admit(o, x, e)
      PROVE  ActiveIsCurrent'
  BY <1>2 DEF Admit, ActiveIsCurrent, Active, TypeOK
<1>3. ASSUME NEW x \in Ops, Finish(x) PROVE ActiveIsCurrent'
  BY <1>3, FinishTickets DEF ActiveIsCurrent, Active, TypeOK
<1>4. CASE Recover
  BY <1>4 DEF Recover, Settle, ActiveIsCurrent, Active, TypeOK
<1> QED
  BY <1>1, <1>2, <1>3, <1>4, TicketSteps

-----------------------------------------------------------------------------
(* Rows exist before anything refers to them.                              *)

\* A ticket that was inserted stays inserted and keeps its owner.
LEMMA UsedStays ==
  ASSUME CoordinatorAssumption, TypeOK, [Next]_vars
  PROVE  \A x \in Ops : opState[x] # "unused" =>
                          opState'[x] # "unused" /\ opOwner'[x] = opOwner[x]
<1>1. CASE UNCHANGED <<generation, tickets>>
  BY <1>1 DEF tickets
<1>2. ASSUME NEW o \in Owners, NEW x \in Ops, NEW e \in BOOLEAN, Admit(o, x, e),
             NEW y \in Ops, opState[y] # "unused"
      PROVE  opState'[y] # "unused" /\ opOwner'[y] = opOwner[y]
  BY <1>2 DEF Admit, TypeOK
<1>3. ASSUME NEW x \in Ops, Finish(x), NEW y \in Ops, opState[y] # "unused"
      PROVE  opState'[y] # "unused" /\ opOwner'[y] = opOwner[y]
  BY <1>3, FinishTickets DEF TypeOK
<1>4. ASSUME Recover, NEW y \in Ops, opState[y] # "unused"
      PROVE  opState'[y] # "unused" /\ opOwner'[y] = opOwner[y]
  BY <1>4 DEF Recover, Settle, TypeOK
<1> QED
  BY <1>1, <1>2, <1>3, <1>4, TicketSteps

\* The life of a coordinator object goes one way.
Forward(o) ==
  /\ status[o] # "new" => status'[o] # "new"
  /\ status[o] \in {"broken", "dead"} => status'[o] # "open"
  /\ status'[o] = "dead" => status[o] = "dead" \/ Crash(o)

LEMMA StatusForward ==
  ASSUME CoordinatorAssumption, TypeOK, [Next]_vars
  PROVE  \A o \in Owners : Forward(o)
<1> USE DEF TypeOK, Forward
<1>1. ASSUME NEW x, MarkUncertain(x) PROVE \A o \in Owners : Forward(o)
  BY <1>1 DEF MarkUncertain
<1>2. ASSUME NEW o \in Owners, Initialize(o) PROVE \A p \in Owners : Forward(p)
  BY <1>2 DEF Initialize
<1>3. ASSUME NEW o \in Owners, Quarantine(o) \/ WitnessLost(o) \/ Crash(o) \/ DiscoverOrphan(o)
      PROVE \A p \in Owners : Forward(p)
  <2>1. CASE Crash(o)
    <3>1. status' = [status EXCEPT ![o] = "dead"] /\ status[o] # "new"
      BY <2>1 DEF Crash
    <3> QED
      BY <2>1, <3>1
  <2> QED
    BY <1>3, <2>1 DEF Quarantine, WitnessLost, DiscoverOrphan
<1>4. ASSUME NEW o \in Owners, NEW x \in Ops, NEW e \in BOOLEAN, Admit(o, x, e)
      PROVE  UNCHANGED status
  BY <1>4 DEF Admit
<1>5. ASSUME NEW x \in Ops, FailOperation(x) PROVE MarkUncertain(x)
  BY <1>5 DEF FailOperation
<1>6. ASSUME NEW x \in Ops, Finish(x) PROVE UNCHANGED status
  BY <1>6 DEF Finish
<1>7. ASSUME NEW x \in Ops, NEW t \in Tasks, NEW K \in SUBSET Keys,
             AcquireLock(x, t, K) \/ ReleaseLock(x, t, K)
      PROVE  UNCHANGED status
  BY <1>7 DEF AcquireLock, ReleaseLock
<1>8. ASSUME NEW x \in Ops, NEW t \in Tasks, NEW K \in SUBSET Keys, FailLock(x, t, K)
      PROVE  MarkUncertain(x)
  BY <1>8 DEF FailLock
<1>9. ASSUME NEW x \in Ops, NEW d \in Docs, TryClaimDocument(x, d) \/ ReleaseClaim(x, d)
      PROVE  UNCHANGED status
  BY <1>9 DEF TryClaimDocument, ReleaseClaim
<1>10. ASSUME NEW x \in Ops, NEW t \in Tasks, NEW k \in Keys \cup {None}, NEW m \in Muts,
              Publish(x, t, k, m)
       PROVE  UNCHANGED status
  BY <1>10 DEF Publish
<1>11. ASSUME NEW m \in Muts, Send(m) \/ Apply(m) \/ Lose(m) \/ Acknowledge(m)
       PROVE  UNCHANGED status
  BY <1>11 DEF Send, Apply, Lose, Acknowledge
<1>12. ASSUME NEW m \in Muts, FailMutation(m) PROVE MarkUncertain(mutOp[m])
  BY <1>12 DEF FailMutation
<1>13. ASSUME Recover \/ UNCHANGED vars PROVE UNCHANGED status
  BY <1>13 DEF Recover, vars
<1> HIDE DEF TypeOK, Forward
<1>14. ASSUME UNCHANGED status PROVE \A o \in Owners : Forward(o)
  BY <1>14 DEF Forward
<1> QED
  BY <1>1, <1>2, <1>3, <1>4, <1>5, <1>6, <1>7, <1>8, <1>9, <1>10, <1>11, <1>12, <1>13, <1>14 DEF Next

\* A body runs only for a ticket that was inserted.
LEMMA OpenSteps ==
  ASSUME CoordinatorAssumption, TypeOK, [Next]_vars
  PROVE  \A x \in Ops : open'[x] => open[x] \/ opState'[x] # "unused"
<1> USE DEF TypeOK
<1>1. ASSUME NEW o \in Owners,
             \/ Initialize(o) \/ Quarantine(o) \/ WitnessLost(o) \/ DiscoverOrphan(o)
      PROVE  UNCHANGED open
  BY <1>1 DEF Initialize, Quarantine, WitnessLost, DiscoverOrphan
<1>2. ASSUME NEW o \in Owners, Crash(o) PROVE \A x \in Ops : open'[x] => open[x]
  BY <1>2 DEF Crash
<1>3. ASSUME NEW o \in Owners, NEW x \in Ops, NEW e \in BOOLEAN, Admit(o, x, e)
      PROVE  \A y \in Ops : open'[y] => open[y] \/ opState'[y] # "unused"
  BY <1>3 DEF Admit
<1>4. ASSUME NEW x \in Ops, Finish(x) \/ FailOperation(x) PROVE \A y \in Ops : open'[y] => open[y]
  BY <1>4 DEF Finish, FailOperation
<1>5. ASSUME NEW x \in Ops, NEW t \in Tasks, NEW K \in SUBSET Keys,
             AcquireLock(x, t, K) \/ ReleaseLock(x, t, K) \/ FailLock(x, t, K)
      PROVE  UNCHANGED open
  BY <1>5 DEF AcquireLock, ReleaseLock, FailLock
<1>6. ASSUME NEW x \in Ops, NEW d \in Docs, TryClaimDocument(x, d) \/ ReleaseClaim(x, d)
      PROVE  UNCHANGED open
  BY <1>6 DEF TryClaimDocument, ReleaseClaim
<1>7. ASSUME NEW x \in Ops, NEW t \in Tasks, NEW k \in Keys \cup {None}, NEW m \in Muts,
             Publish(x, t, k, m)
      PROVE  UNCHANGED open
  BY <1>7 DEF Publish
<1>8. ASSUME NEW m \in Muts,
             Send(m) \/ Apply(m) \/ Lose(m) \/ Acknowledge(m) \/ FailMutation(m)
      PROVE  UNCHANGED open
  BY <1>8 DEF Send, Apply, Lose, Acknowledge, FailMutation
<1>9. ASSUME Recover \/ UNCHANGED vars PROVE UNCHANGED open
  BY <1>9 DEF Recover, vars
<1> HIDE DEF TypeOK
<1> QED
  BY <1>1, <1>2, <1>3, <1>4, <1>5, <1>6, <1>7, <1>8, <1>9 DEF Next

\* A task is inside a lock context only for a ticket that was inserted.
LEMMA DepthSteps ==
  ASSUME CoordinatorAssumption, TypeOK, RowsFirst, [Next]_vars
  PROVE  \A x \in Ops, t \in Tasks, k \in Keys :
            depth'[x][t][k] > 0 => depth[x][t][k] > 0 \/ opState[x] # "unused"
<1>1. CASE UNCHANGED <<locks, depth>>
  BY <1>1
<1>2. ASSUME NEW x \in Ops, NEW t \in Tasks, NEW K \in SUBSET Keys, AcquireLock(x, t, K),
             NEW y \in Ops, NEW u \in Tasks, NEW k \in Keys, depth'[y][u][k] > 0
      PROVE  depth[y][u][k] > 0 \/ opState[y] # "unused"
  BY <1>2 DEF AcquireLock, RowsFirst, TypeOK
<1>3. ASSUME NEW x \in Ops, NEW t \in Tasks, NEW K \in SUBSET Keys,
             ReleaseLock(x, t, K) \/ FailLock(x, t, K),
             NEW y \in Ops, NEW u \in Tasks, NEW k \in Keys, depth'[y][u][k] > 0
      PROVE  depth[y][u][k] > 0 \/ opState[y] # "unused"
  <2>1. Leave(x, t, K)
    BY <1>3 DEF ReleaseLock, FailLock
  <2> QED
    BY <2>1, <1>3 DEF Leave, RowsFirst, TypeOK
<1>4. CASE Recover
  BY <1>4 DEF Recover
<1> QED
  BY <1>1, <1>2, <1>3, <1>4, LockSteps

\* A mutation refers to a ticket, a task and a resource once it is inserted.
LEMMA JournalStep ==
  ASSUME CoordinatorAssumption, TypeOK, TypeOK', RowsFirst, [Next]_vars, NEW m \in Muts
  PROVE  Filed(m)'
<1>0. Filed(m)
  BY DEF RowsFirst
<1>u. \A x \in Ops : opState[x] # "unused" => opState'[x] # "unused"
  BY UsedStays
<1>1. CASE UNCHANGED <<journal, mutPc, storage>>
  BY <1>0, <1>1, <1>u DEF journal, Filed
<1>2. ASSUME NEW o \in Owners, Crash(o) PROVE Filed(m)'
  BY <1>0, <1>2, <1>u DEF Crash, journal, Filed, TypeOK
<1>3. ASSUME NEW x \in Ops, NEW t \in Tasks, NEW k \in Keys \cup {None}, NEW n \in Muts,
             Publish(x, t, k, n)
      PROVE  Filed(m)'
  <2>1. opState[x] # "unused"
    BY <1>3 DEF Publish, Validated, Permitted, Active
  <2>2. CASE n = m
    BY <1>3, <2>1, <2>2, <1>u DEF Publish, Filed, TypeOK
  <2>3. CASE n # m
    BY <1>0, <1>3, <2>3, <1>u DEF Publish, Filed, TypeOK
  <2> QED
    BY <2>2, <2>3
<1>4. ASSUME NEW n \in Muts, Send(n) PROVE Filed(m)'
  BY <1>0, <1>4, <1>u DEF Send, journal, Filed, TypeOK
<1>5. ASSUME NEW n \in Muts, Apply(n) \/ Lose(n) PROVE Filed(m)'
  BY <1>0, <1>5, <1>u DEF Apply, Lose, journal, Filed, TypeOK
<1>6. ASSUME NEW n \in Muts, Acknowledge(n) PROVE Filed(m)'
  BY <1>0, <1>6, <1>u DEF Acknowledge, Confirmed, Filed, TypeOK
<1>7. ASSUME NEW n \in Muts, FailMutation(n) PROVE Filed(m)'
  BY <1>0, <1>7, <1>u DEF FailMutation, journal, Filed, TypeOK
<1>8. CASE Recover
  BY <1>0, <1>8, <1>u DEF Recover, Settle, Filed, TypeOK
<1> QED
  BY <1>1, <1>2, <1>3, <1>4, <1>5, <1>6, <1>7, <1>8, WriteSteps

LEMMA RowsStep ==
  ASSUME CoordinatorAssumption, TypeOK, TypeOK', RowsFirst, [Next]_vars
  PROVE  RowsFirst'
<1>1. ASSUME NEW x \in Ops, opState'[x] # "unused"
      PROVE  opOwner'[x] \in Owners /\ status'[opOwner'[x]] # "new"
  <2>1. CASE opState[x] # "unused"
    BY <2>1, UsedStays, StatusForward DEF RowsFirst, Forward
  <2>2. CASE opState[x] = "unused"
    <3>1. PICK o \in Owners, e \in BOOLEAN : Admit(o, x, e)
      <4>1. CASE UNCHANGED <<generation, tickets>>
        BY <1>1, <2>2, <4>1 DEF tickets
      <4>2. ASSUME NEW o \in Owners, NEW y \in Ops, NEW e \in BOOLEAN, Admit(o, y, e)
            PROVE  y = x
        BY <1>1, <2>2, <4>2 DEF Admit, TypeOK
      <4>3. ASSUME NEW y \in Ops, Finish(y) PROVE FALSE
        <5>1. \/ opState' = opState
              \/ opState' = [opState EXCEPT ![y] = "completed"] /\ y # x
          BY <2>2, <4>3, FinishTickets DEF Active
        <5>2. opState \in [Ops -> {"unused", "active", "completed", "recovered"}]
          BY DEF TypeOK
        <5> QED
          BY <1>1, <2>2, <5>1, <5>2
      <4>4. CASE Recover
        BY <1>1, <2>2, <4>4 DEF Recover, Settle, Active, TypeOK
      <4> QED
        BY <4>1, <4>2, <4>3, <4>4, TicketSteps, <1>1, <2>2
    <3> QED
      BY <3>1 DEF Admit, TypeOK
  <2> QED
    BY <2>1, <2>2
<1>2. ASSUME NEW x \in Ops, open'[x] PROVE opState'[x] # "unused"
  BY <1>2, OpenSteps, UsedStays DEF RowsFirst
<1>3. ASSUME NEW x \in Ops, NEW t \in Tasks, NEW k \in Keys, depth'[x][t][k] > 0
      PROVE  opState'[x] # "unused"
  BY <1>3, DepthSteps, UsedStays DEF RowsFirst
<1> QED
  BY <1>1, <1>2, <1>3, JournalStep DEF RowsFirst

-----------------------------------------------------------------------------
(* Evidence: lock rows, claims and pending writes.                         *)

\* The rows of one ticket are all gone when it completes or is recovered, and
\* rows are inserted for validated tickets only.
LEMMA EvidenceStep ==
  ASSUME CoordinatorAssumption, TypeOK, TypeOK', RowsFirst, EvidenceHasOwner, [Next]_vars
  PROVE  EvidenceHasOwner'
<1> USE DEF EvidenceHasOwner, Active
<1>1. ASSUME UNCHANGED <<opState, lockOp, claim, mutState, mutOp>> PROVE EvidenceHasOwner'
  BY <1>1
<1>2. ASSUME NEW o \in Owners,
             Initialize(o) \/ Quarantine(o) \/ WitnessLost(o) \/ Crash(o) \/ DiscoverOrphan(o)
      PROVE  UNCHANGED <<opState, lockOp, claim, mutState, mutOp>>
  BY <1>2 DEF Initialize, Quarantine, WitnessLost, Crash, DiscoverOrphan, tickets, locks, journal
<1>3. ASSUME NEW o \in Owners, NEW x \in Ops, NEW e \in BOOLEAN, Admit(o, x, e)
      PROVE  EvidenceHasOwner'
  BY <1>3 DEF Admit, locks, journal, TypeOK
<1>4. ASSUME NEW x \in Ops, Finish(x) PROVE EvidenceHasOwner'
  <2>1. UNCHANGED <<lockOp, mutState, mutOp>>
    BY <1>4 DEF Finish, locks, journal
  <2>2. CASE UNCHANGED <<opState, claim>>
    BY <2>1, <2>2
  <2>3. CASE /\ ~Pending(x) /\ ~Holding(x)
             /\ opState' = [opState EXCEPT ![x] = "completed"]
             /\ claim' = [d \in Docs |-> IF claim[d] = x THEN None ELSE claim[d]]
    <3>1. \A y \in Ops : y # x => opState'[y] = opState[y]
      BY <2>3 DEF TypeOK
    <3>2. \A k \in Keys : lockOp[k] # None => lockOp[k] \in Ops /\ lockOp[k] # x
      BY <2>3 DEF Holding, TypeOK
    <3>3. \A d \in Docs : claim'[d] # None => claim'[d] = claim[d] /\ claim[d] \in Ops /\ claim[d] # x
      BY <2>3 DEF TypeOK
    <3>4. \A m \in Muts : mutState[m] = "pending" => mutOp[m] \in Ops /\ mutOp[m] # x
      BY <2>3 DEF Pending, RowsFirst, Filed
    <3> QED
      BY <2>1, <3>1, <3>2, <3>3, <3>4
  <2> QED
    BY <1>4, <2>2, <2>3 DEF Finish
<1>5. ASSUME NEW x \in Ops, FailOperation(x) PROVE UNCHANGED <<opState, lockOp, claim, mutState, mutOp>>
  BY <1>5 DEF FailOperation, tickets, locks, journal
<1>6. ASSUME NEW x \in Ops, NEW t \in Tasks, NEW K \in SUBSET Keys, AcquireLock(x, t, K)
      PROVE  EvidenceHasOwner'
  BY <1>6 DEF AcquireLock, Validated, Permitted, tickets, journal, TypeOK
<1>7. ASSUME NEW x \in Ops, NEW t \in Tasks, NEW K \in SUBSET Keys, ReleaseLock(x, t, K)
      PROVE  EvidenceHasOwner'
  <2>1. UNCHANGED <<opState, claim, mutState, mutOp>>
    BY <1>7 DEF ReleaseLock, tickets, journal
  <2>2. \A k \in Keys : lockOp'[k] # None => lockOp'[k] = lockOp[k]
    BY <1>7 DEF ReleaseLock, locks
  <2> QED
    BY <2>1, <2>2
<1>8. ASSUME NEW x \in Ops, NEW t \in Tasks, NEW K \in SUBSET Keys, FailLock(x, t, K)
      PROVE  UNCHANGED <<opState, lockOp, claim, mutState, mutOp>>
  BY <1>8 DEF FailLock, tickets, locks, journal
<1>9. ASSUME NEW x \in Ops, NEW d \in Docs, TryClaimDocument(x, d)
      PROVE  EvidenceHasOwner'
  BY <1>9 DEF TryClaimDocument, Validated, Permitted, tickets, locks, journal, TypeOK
<1>10. ASSUME NEW x \in Ops, NEW d \in Docs, ReleaseClaim(x, d)
       PROVE  EvidenceHasOwner'
  BY <1>10 DEF ReleaseClaim, tickets, locks, journal, TypeOK
<1>11. ASSUME NEW x \in Ops, NEW t \in Tasks, NEW k \in Keys \cup {None}, NEW m \in Muts,
              Publish(x, t, k, m)
       PROVE  EvidenceHasOwner'
  BY <1>11 DEF Publish, Validated, Permitted, tickets, locks, TypeOK
<1>12. ASSUME NEW m \in Muts, Send(m) \/ Apply(m) \/ Lose(m) \/ FailMutation(m)
       PROVE  UNCHANGED <<opState, lockOp, claim, mutState, mutOp>>
  BY <1>12 DEF Send, Apply, Lose, FailMutation, tickets, locks, journal
<1>13. ASSUME NEW m \in Muts, Acknowledge(m) PROVE EvidenceHasOwner'
  <2>1. UNCHANGED <<opState, lockOp, claim, mutOp>>
    BY <1>13 DEF Acknowledge, Confirmed, tickets, locks
  <2>2. \A n \in Muts : mutState'[n] = "pending" => mutState[n] = "pending"
    BY <1>13 DEF Acknowledge, Confirmed, TypeOK
  <2> QED
    BY <2>1, <2>2
<1>14. CASE Recover
  <2>1. Settle /\ DropOwnership /\ UNCHANGED mutOp
    BY <1>14 DEF Recover
  <2> QED
    BY <2>1 DEF Settle, DropOwnership
<1>15. ASSUME UNCHANGED vars PROVE UNCHANGED <<opState, lockOp, claim, mutState, mutOp>>
  BY <1>15 DEF vars, tickets, locks, journal
<1> HIDE DEF EvidenceHasOwner, Active
<1> QED
  BY <1>1, <1>2, <1>3, <1>4, <1>5, <1>6, <1>7, <1>8, <1>9, <1>10, <1>11, <1>12, <1>13,
     <1>14, <1>15 DEF Next

-----------------------------------------------------------------------------
(* Tickets are safe without any help from the operator.                    *)

\* operation(), recover(): in every reachable state an exclusive ticket is alone,
\* active tickets are of the current generation, and lock rows, claims and
\* pending writes belong to active tickets, whatever the operator confirms.
THEOREM TicketSafety ==
  ASSUME CoordinatorAssumption PROVE Spec => [](ExclusiveAlone /\ ActiveIsCurrent /\ EvidenceHasOwner)
<1> DEFINE Inv == TypeOK /\ RowsFirst /\ ExclusiveAlone /\ ActiveIsCurrent /\ EvidenceHasOwner
<1>1. ASSUME Init PROVE Inv
  <2>1. TypeOK
    BY <1>1, TypeInit
  <2>2. RowsFirst /\ ExclusiveAlone /\ ActiveIsCurrent /\ EvidenceHasOwner
    BY <1>1 DEF Init, RowsFirst, Filed, ExclusiveAlone, ActiveIsCurrent, EvidenceHasOwner, Active
  <2> QED
    BY <2>1, <2>2
<1>2. ASSUME Inv, [Next]_vars PROVE Inv'
  BY <1>2, TypeStep, RowsStep, ExclusiveStep, CurrentStep, EvidenceStep
<1>3. Inv => ExclusiveAlone /\ ActiveIsCurrent /\ EvidenceHasOwner
  OBVIOUS
<1> HIDE DEF Inv
<1> QED
  BY <1>1, <1>2, <1>3, PTL DEF Spec

-----------------------------------------------------------------------------
(* Locks.                                                                  *)

\* The context a task of an active ticket is inside is backed by its row.
Backed(x, t, k) ==
  Active(x) /\ depth[x][t][k] > 0 =>
     lockOp[k] = x /\ lockTask[k] = t /\ lockDepth[k] >= depth[x][t][k]

\* A task that leaves a context only lowers its own depths, from a positive value.
LEMMA LeaveDepth ==
  ASSUME TypeOK, NEW x \in Ops, NEW t \in Tasks, NEW K \in SUBSET Keys, Leave(x, t, K),
         NEW y \in Ops, NEW u \in Tasks, NEW k \in Keys
  PROVE  /\ (y = x /\ u = t /\ k \in K) =>
               depth[y][u][k] > 0 /\ depth'[y][u][k] = depth[y][u][k] - 1
         /\ ~(y = x /\ u = t /\ k \in K) => depth'[y][u][k] = depth[y][u][k]
  BY DEF Leave, TypeOK

\* Reentry raises row and context together, release lowers them together, and no
\* other task can take or give back the row meanwhile.
LEMMA ReentryStep ==
  ASSUME CoordinatorAssumption, TypeOK, TypeOK', RowsFirst, ReentryHolds, [Next]_vars
  PROVE  ReentryHolds'
<1> SUFFICES ASSUME NEW y \in Ops, NEW u \in Tasks, NEW k \in Keys PROVE Backed(y, u, k)'
  BY DEF ReentryHolds, Backed
<1>0. Backed(y, u, k) /\ depth[y][u][k] \in Nat /\ depth'[y][u][k] \in Nat /\ lockDepth[k] \in Nat
  BY DEF ReentryHolds, Backed, TypeOK
<1>1. CASE UNCHANGED <<locks, depth>>
  <2>1. CASE UNCHANGED <<generation, tickets>>
    BY <1>0, <1>1, <2>1 DEF Backed, Active, locks, tickets
  <2>2. ASSUME NEW o \in Owners, NEW x \in Ops, NEW e \in BOOLEAN, Admit(o, x, e)
        PROVE  Backed(y, u, k)'
    <3>1. CASE x = y
      BY <1>0, <1>1, <2>2, <3>1 DEF Backed, Admit, RowsFirst
    <3>2. CASE x # y
      BY <1>0, <1>1, <2>2, <3>2 DEF Backed, Admit, Active, locks, TypeOK
    <3> QED
      BY <3>1, <3>2
  <2>3. ASSUME NEW x \in Ops, Finish(x) PROVE Backed(y, u, k)'
    <3>1. Active(y)' => Active(y)
      BY <2>3, FinishTickets DEF Active, TypeOK
    <3> QED
      BY <1>0, <1>1, <3>1 DEF Backed, locks
  <2>4. CASE Recover
    BY <2>4 DEF Recover, Settle, Backed, Active, TypeOK
  <2> QED
    BY <2>1, <2>2, <2>3, <2>4, TicketSteps
<1>2. ASSUME NEW x \in Ops, NEW t \in Tasks, NEW K \in SUBSET Keys, AcquireLock(x, t, K)
      PROVE  Backed(y, u, k)'
  <2>1. /\ UNCHANGED opState
        /\ \A j \in K : Free(x, t, j)
        /\ lockOp'[k] = IF k \in K THEN x ELSE lockOp[k]
        /\ lockTask'[k] = IF k \in K THEN t ELSE lockTask[k]
        /\ lockDepth'[k] = IF k \in K THEN lockDepth[k] + 1 ELSE lockDepth[k]
    BY <1>2 DEF AcquireLock, Deeper, tickets
  <2>2. depth'[y][u][k] = IF y = x /\ u = t /\ k \in K THEN depth[y][u][k] + 1
                                                      ELSE depth[y][u][k]
    BY <1>2 DEF AcquireLock, TypeOK
  <2>3. CASE k \notin K
    BY <1>0, <2>1, <2>2, <2>3 DEF Backed, Active
  <2>4. CASE k \in K /\ y = x /\ u = t
    BY <1>0, <2>1, <2>2, <2>4 DEF Backed, Active
  <2>5. CASE k \in K /\ ~(y = x /\ u = t)
    <3>1. y # None
      BY DEF CoordinatorAssumption
    <3> QED
      BY <1>0, <2>1, <2>2, <2>5, <3>1 DEF Backed, Active, Free
  <2> QED
    BY <2>3, <2>4, <2>5
<1>3. ASSUME NEW x \in Ops, NEW t \in Tasks, NEW K \in SUBSET Keys, ReleaseLock(x, t, K)
      PROVE  Backed(y, u, k)'
  <2>1. Leave(x, t, K) /\ UNCHANGED opState
    BY <1>3 DEF ReleaseLock, tickets
  <2>2. CASE UNCHANGED locks
    BY <1>0, <2>1, <2>2, LeaveDepth DEF Backed, Active, locks
  <2>3. CASE Validated(x)
    <3> DEFINE mine == {j \in K : lockOp[j] = x /\ lockTask[j] = t}
    <3>1. /\ lockOp'[k] = IF k \in mine /\ lockDepth[k] = 1 THEN None ELSE lockOp[k]
          /\ lockTask'[k] = IF k \in mine /\ lockDepth[k] = 1 THEN None ELSE lockTask[k]
          /\ lockDepth'[k] = IF k \in mine THEN lockDepth[k] - 1 ELSE lockDepth[k]
      BY <1>3, <2>3 DEF ReleaseLock, Emptied
    <3>2. CASE y = x /\ u = t /\ k \in K
      BY <1>0, <2>1, <3>1, <3>2, LeaveDepth DEF Backed, Active
    <3>3. CASE ~(y = x /\ u = t /\ k \in K)
      BY <1>0, <2>1, <3>1, <3>3, LeaveDepth DEF Backed, Active
    <3> QED
      BY <3>2, <3>3
  <2> QED
    BY <1>3, <2>2, <2>3 DEF ReleaseLock
<1>4. ASSUME NEW x \in Ops, NEW t \in Tasks, NEW K \in SUBSET Keys, FailLock(x, t, K)
      PROVE  Backed(y, u, k)'
  <2>1. Leave(x, t, K) /\ UNCHANGED <<opState, lockOp, lockTask, lockDepth>>
    BY <1>4 DEF FailLock, tickets, locks
  <2> QED
    BY <1>0, <2>1, LeaveDepth DEF Backed, Active
<1>5. CASE Recover
  BY <1>5 DEF Recover, Settle, Backed, Active, TypeOK
<1> QED
  BY <1>1, <1>2, <1>3, <1>4, <1>5, LockSteps

-----------------------------------------------------------------------------
(* Fences.                                                                 *)

\* Whatever a step does, only recovery lowers a raised fence.
LEMMA FenceSteps ==
  ASSUME CoordinatorAssumption, TypeOK, [Next]_vars, fenced
  PROVE  fenced' \/ Recover
<1>1. ASSUME NEW x, MarkUncertain(x) PROVE fenced'
  BY <1>1 DEF MarkUncertain
<1>2. ASSUME NEW o \in Owners,
             Initialize(o) \/ Quarantine(o) \/ WitnessLost(o) \/ Crash(o) \/ DiscoverOrphan(o)
      PROVE  fenced'
  BY <1>2 DEF Initialize, FenceAfterCheck, Quarantine, WitnessLost, Crash, DiscoverOrphan
<1>3. ASSUME NEW o \in Owners, NEW x \in Ops, NEW e \in BOOLEAN, Admit(o, x, e) PROVE fenced'
  BY <1>3 DEF Admit
<1>4. ASSUME NEW x \in Ops, Finish(x) PROVE fenced'
  BY <1>4 DEF Finish
<1>5. ASSUME NEW x \in Ops, FailOperation(x) PROVE fenced'
  BY <1>1, <1>5 DEF FailOperation
<1>6. ASSUME NEW x \in Ops, NEW t \in Tasks, NEW K \in SUBSET Keys,
             AcquireLock(x, t, K) \/ ReleaseLock(x, t, K)
      PROVE  fenced'
  BY <1>6 DEF AcquireLock, ReleaseLock
<1>7. ASSUME NEW x \in Ops, NEW t \in Tasks, NEW K \in SUBSET Keys, FailLock(x, t, K)
      PROVE  fenced'
  BY <1>1, <1>7 DEF FailLock
<1>8. ASSUME NEW x \in Ops, NEW d \in Docs, TryClaimDocument(x, d) \/ ReleaseClaim(x, d)
      PROVE  fenced'
  BY <1>8 DEF TryClaimDocument, ReleaseClaim
<1>9. ASSUME NEW x \in Ops, NEW t \in Tasks, NEW k \in Keys \cup {None}, NEW m \in Muts,
             Publish(x, t, k, m)
      PROVE  fenced'
  BY <1>9 DEF Publish
<1>10. ASSUME NEW m \in Muts, Send(m) \/ Apply(m) \/ Lose(m) \/ Acknowledge(m) PROVE fenced'
  BY <1>10 DEF Send, Apply, Lose, Acknowledge
<1>11. ASSUME NEW m \in Muts, FailMutation(m) PROVE fenced'
  BY <1>1, <1>11 DEF FailMutation
<1>12. ASSUME UNCHANGED vars PROVE fenced'
  BY <1>12 DEF vars
<1> QED
  BY <1>2, <1>3, <1>4, <1>5, <1>6, <1>7, <1>8, <1>9, <1>10, <1>11, <1>12 DEF Next

\* _fence(), recover(): the fence outlives every exit, late ACK, crash and
\* restart, and the recovery that lowers it settles every ticket.
THEOREM FencePersists == ASSUME CoordinatorAssumption PROVE Spec => FenceHolds
<1>1. ASSUME TypeOK, [Next]_vars
      PROVE  [fenced /\ ~fenced' =>
                generation' > generation /\ \A x \in Ops : opState'[x] # "active"]_vars
  <2>1. ASSUME fenced, ~fenced'
        PROVE  generation' > generation /\ \A x \in Ops : opState'[x] # "active"
    <3>1. Recover
      BY <1>1, <2>1, FenceSteps
    <3>2. generation' = generation + 1 /\ generation \in Nat
      BY <1>1, <3>1 DEF Recover, TypeOK
    <3>3. \A x \in Ops : opState'[x] # "active"
      BY <3>1 DEF Recover, Settle, Active
    <3> QED
      BY <3>2, <3>3
  <2> QED
    BY <2>1
<1>2. ASSUME CoordinatorAssumption PROVE Spec => []TypeOK
  BY <1>2, TypeCorrect
<1> QED
  BY <1>1, <1>2, PTL DEF Spec, FenceHolds

-----------------------------------------------------------------------------
(* Writes.                                                                 *)

\* History stays history.
LEMMA RecoveredStays ==
  ASSUME CoordinatorAssumption, TypeOK, [Next]_vars
  PROVE  \A x \in Ops : opState[x] = "recovered" => opState'[x] = "recovered"
<1>1. CASE UNCHANGED <<generation, tickets>>
  BY <1>1 DEF tickets
<1>2. ASSUME NEW o \in Owners, NEW x \in Ops, NEW e \in BOOLEAN, Admit(o, x, e),
             NEW y \in Ops, opState[y] = "recovered"
      PROVE  opState'[y] = "recovered"
  BY <1>2 DEF Admit, TypeOK
<1>3. ASSUME NEW x \in Ops, Finish(x), NEW y \in Ops, opState[y] = "recovered"
      PROVE  opState'[y] = "recovered"
  BY <1>3, FinishTickets DEF Active, TypeOK
<1>4. ASSUME Recover, NEW y \in Ops, opState[y] = "recovered"
      PROVE  opState'[y] = "recovered"
  BY <1>4 DEF Recover, Settle, Active, TypeOK
<1> QED
  BY <1>1, <1>2, <1>3, <1>4, TicketSteps

\* A write is applied at most once and acknowledged only after that.
LEMMA ConsistentStep ==
  ASSUME CoordinatorAssumption, TypeOK, TypeOK', RowsFirst, RowsFirst', EvidenceHasOwner,
         WritesConsistent, [Next]_vars
  PROVE  WritesConsistent'
<1> SUFFICES ASSUME NEW m \in Muts PROVE Consistent(m)'
  BY DEF WritesConsistent
<1>0. Consistent(m) /\ Filed(m) /\ Filed(m)'
  BY DEF WritesConsistent, RowsFirst
<1>r. \A x \in Ops : opState[x] = "recovered" => opState'[x] = "recovered"
  BY RecoveredStays
<1>o. \A x \in Ops : opState[x] # "unused" => opOwner'[x] = opOwner[x] /\ opOwner[x] \in Owners
  BY UsedStays DEF RowsFirst
<1>d. \A o \in Owners : status'[o] = "dead" => status[o] = "dead" \/ Crash(o)
  BY StatusForward DEF Forward
<1>1. CASE UNCHANGED <<journal, mutPc, storage>>
  <2>1. \A o \in Owners : ~Crash(o) \/ \A n \in Muts :
           mutPc[n] \in {"published", "sent"} => opOwner[mutOp[n]] # o
    BY <1>1 DEF Crash, TypeOK
  <2> QED
    BY <1>0, <1>r, <1>o, <1>d, <1>1, <2>1 DEF Consistent, Filed, journal, storage
<1>2. ASSUME NEW o \in Owners, Crash(o) PROVE Consistent(m)'
  <2>1. /\ UNCHANGED <<mutState, mutOp, flight, applied, opState, opOwner>>
        /\ status' = [status EXCEPT ![o] = "dead"]
        /\ mutPc'[m] = IF mutPc[m] \in {"published", "sent"} /\ opOwner[mutOp[m]] = o
                       THEN "abandoned" ELSE mutPc[m]
    BY <1>2 DEF Crash, tickets, journal, storage
  <2>2. status \in [Owners -> {"new", "open", "broken", "dead"}]
    BY DEF TypeOK
  <2> QED
    BY <1>0, <1>o, <2>1, <2>2 DEF Consistent, Filed
<1>3. ASSUME NEW x \in Ops, NEW t \in Tasks, NEW k \in Keys \cup {None}, NEW n \in Muts,
             Publish(x, t, k, n)
      PROVE  Consistent(m)'
  <2>1. UNCHANGED <<opState, opOwner, status, flight, applied>> /\ status[opOwner[x]] = "open"
    BY <1>3 DEF Publish, Validated, Permitted, tickets, storage
  <2>2. CASE n = m
    BY <1>0, <1>3, <2>1, <2>2 DEF Publish, Consistent, Filed, TypeOK
  <2>3. CASE n # m
    <3>1. mutState'[m] = mutState[m] /\ mutOp'[m] = mutOp[m] /\ mutPc'[m] = mutPc[m]
      BY <1>3, <2>3 DEF Publish, TypeOK
    <3> QED
      BY <1>0, <2>1, <3>1 DEF Consistent, Filed
  <2> QED
    BY <2>2, <2>3
<1>4. ASSUME NEW n \in Muts, Send(n) PROVE Consistent(m)'
  BY <1>0, <1>4 DEF Send, Consistent, Filed, tickets, journal, TypeOK
<1>5. ASSUME NEW n \in Muts, Apply(n) \/ Lose(n) PROVE Consistent(m)'
  BY <1>0, <1>5 DEF Apply, Lose, Consistent, Filed, tickets, journal, TypeOK
<1>6. ASSUME NEW n \in Muts, Acknowledge(n) PROVE Consistent(m)'
  <2>1. UNCHANGED <<opState, opOwner, status, flight, applied, mutOp>>
    BY <1>6 DEF Acknowledge, Confirmed, tickets, storage
  <2>2. CASE n = m
    BY <1>0, <1>6, <2>1, <2>2 DEF Acknowledge, Confirmed, Consistent, Filed, TypeOK
  <2>3. CASE n # m
    <3>1. mutState'[m] = mutState[m] /\ mutPc'[m] = mutPc[m]
      BY <1>6, <2>3 DEF Acknowledge, Confirmed, TypeOK
    <3> QED
      BY <1>0, <2>1, <3>1 DEF Consistent
  <2> QED
    BY <2>2, <2>3
<1>7. ASSUME NEW n \in Muts, FailMutation(n) PROVE Consistent(m)'
  <2>1. UNCHANGED <<opState, opOwner, flight, applied, mutOp, mutState>>
    BY <1>7 DEF FailMutation, tickets, storage, journal
  <2>2. \A o \in Owners : ~Crash(o) \/ mutPc'[m] \notin {"published", "sent"}
                                    \/ opOwner[mutOp[m]] # o
    BY <1>7 DEF FailMutation, Crash, TypeOK
  <2>3. mutPc'[m] = IF n = m THEN "abandoned" ELSE mutPc[m]
    BY <1>7 DEF FailMutation, TypeOK
  <2>4. n = m => mutPc[m] \in {"published", "sent"}
    BY <1>7 DEF FailMutation
  <2> QED
    BY <1>0, <1>o, <1>d, <2>1, <2>2, <2>3, <2>4 DEF Consistent, Filed
<1>8. CASE Recover
  <2>1. /\ UNCHANGED <<opOwner, status, flight, applied, mutOp, mutPc>>
        /\ mutState'[m] = IF mutState[m] = "pending" THEN "recovered" ELSE mutState[m]
        /\ mutState[m] = "pending" => opState'[mutOp[m]] = "recovered"
    BY <1>0, <1>8 DEF Recover, Settle, storage, EvidenceHasOwner, Filed, TypeOK
  <2> QED
    BY <1>0, <1>r, <2>1 DEF Consistent, Filed
<1> QED
  BY <1>1, <1>2, <1>3, <1>4, <1>5, <1>6, <1>7, <1>8, WriteSteps

\* A ticket completes only over acknowledged writes, and its writes stay so.
LEMMA SuccessStep ==
  ASSUME CoordinatorAssumption, TypeOK, TypeOK', RowsFirst, EvidenceHasOwner,
         WritesConsistent, WritesConsistent', NoSilentSuccess, [Next]_vars
  PROVE  NoSilentSuccess'
<1> SUFFICES ASSUME NEW m \in Muts, mutOp'[m] # None, opState'[mutOp'[m]] = "completed"
             PROVE  mutState'[m] = "ack"
  BY DEF NoSilentSuccess, WritesConsistent, Consistent
<1>0. Consistent(m) /\ Filed(m)
  BY DEF WritesConsistent, RowsFirst
<1>i. (mutOp[m] # None /\ opState[mutOp[m]] = "completed") => mutState[m] = "ack"
  BY DEF NoSilentSuccess
<1>1. ASSUME UNCHANGED opState PROVE mutState'[m] = "ack"
  <2>1. CASE UNCHANGED <<journal, mutPc, storage>>
    BY <1>i, <1>1, <2>1 DEF journal
  <2>2. ASSUME NEW o \in Owners, Crash(o) PROVE mutState'[m] = "ack"
    BY <1>i, <1>1, <2>2 DEF Crash, journal
  <2>3. ASSUME NEW x \in Ops, NEW t \in Tasks, NEW k \in Keys \cup {None}, NEW n \in Muts,
               Publish(x, t, k, n)
        PROVE  mutState'[m] = "ack"
    BY <1>i, <1>1, <2>3 DEF Publish, Validated, Permitted, Active, TypeOK
  <2>4. ASSUME NEW n \in Muts, Send(n) \/ Apply(n) \/ Lose(n) \/ FailMutation(n)
        PROVE  mutState'[m] = "ack"
    BY <1>i, <1>1, <2>4 DEF Send, Apply, Lose, FailMutation, journal
  <2>5. ASSUME NEW n \in Muts, Acknowledge(n) PROVE mutState'[m] = "ack"
    BY <1>i, <1>1, <2>5 DEF Acknowledge, Confirmed, TypeOK
  <2>6. CASE Recover
    BY <1>i, <1>1, <2>6 DEF Recover, Settle, TypeOK
  <2> QED
    BY <2>1, <2>2, <2>3, <2>4, <2>5, <2>6, WriteSteps
<1>2. CASE UNCHANGED <<generation, tickets>>
  BY <1>1, <1>2 DEF tickets
<1>3. ASSUME NEW o \in Owners, NEW x \in Ops, NEW e \in BOOLEAN, Admit(o, x, e)
      PROVE  mutState'[m] = "ack"
  <2>1. UNCHANGED <<mutState, mutOp>> /\ opState' = [opState EXCEPT ![x] = "active"]
    BY <1>3 DEF Admit, journal
  <2> QED
    BY <1>i, <2>1 DEF TypeOK
<1>4. ASSUME NEW x \in Ops, Finish(x) PROVE mutState'[m] = "ack"
  <2>1. UNCHANGED <<mutState, mutOp>>
    BY <1>4 DEF Finish, journal
  <2>2. CASE UNCHANGED opState
    BY <1>1, <2>2
  <2>3. CASE /\ Active(x) /\ ~Pending(x)
             /\ opState' = [opState EXCEPT ![x] = "completed"]
    <3>1. CASE mutOp[m] = x
      BY <1>0, <2>1, <2>3, <3>1 DEF Pending, Active, Consistent, Filed, TypeOK, CoordinatorAssumption
    <3>2. CASE mutOp[m] # x
      BY <1>i, <2>1, <2>3, <3>2 DEF TypeOK
    <3> QED
      BY <3>1, <3>2
  <2> QED
    BY <1>4, <2>2, <2>3, FinishTickets
<1>5. CASE Recover
  <2>1. /\ UNCHANGED mutOp
        /\ mutState'[m] = IF mutState[m] = "pending" THEN "recovered" ELSE mutState[m]
    BY <1>5 DEF Recover, Settle
  <2>2. mutOp[m] \in Ops
    BY <2>1 DEF TypeOK
  <2>3. opState[mutOp[m]] = "completed"
    BY <1>5, <2>1, <2>2 DEF Recover, Settle
  <2> QED
    BY <1>i, <2>1, <2>2, <2>3
<1> QED
  BY <1>2, <1>3, <1>4, <1>5, TicketSteps

\* A write given up while pending was given up by an exit that fences or retires,
\* and neither is undone before recovery settles the write.
Visible(m) ==
  mutPc[m] = "abandoned" /\ mutState[m] = "pending" =>
     fenced \/ status[opOwner[mutOp[m]]] # "open"

LEMMA VisibleStep ==
  ASSUME CoordinatorAssumption, TypeOK, TypeOK', RowsFirst, ActiveIsCurrent, EvidenceHasOwner,
         AbandonedIsVisible, [Next]_vars
  PROVE  AbandonedIsVisible'
<1> SUFFICES ASSUME NEW m \in Muts PROVE Visible(m)'
  BY DEF AbandonedIsVisible, Visible
<1>0. Visible(m) /\ Filed(m)
  BY DEF AbandonedIsVisible, Visible, RowsFirst
<1>f. fenced => fenced' \/ Recover
  BY FenceSteps
<1>o. \A x \in Ops : opState[x] # "unused" =>
         /\ opOwner'[x] = opOwner[x] /\ opOwner[x] \in Owners
         /\ status[opOwner[x]] # "open" => status'[opOwner[x]] # "open"
  <2>1. status \in [Owners -> {"new", "open", "broken", "dead"}]
    BY DEF TypeOK
  <2> QED
    BY <2>1, UsedStays, StatusForward DEF RowsFirst, Forward
<1>k. ASSUME ~Recover, mutOp'[m] = mutOp[m], mutState'[m] = mutState[m], mutPc'[m] = mutPc[m]
      PROVE  Visible(m)'
  BY <1>0, <1>f, <1>o, <1>k DEF Visible, Filed
<1>8. CASE Recover
  <2>1. mutState'[m] # "pending"
    BY <1>8 DEF Recover, Settle
  <2> QED
    BY <2>1 DEF Visible
<1>1. CASE UNCHANGED <<journal, mutPc, storage>>
  BY <1>1, <1>k, <1>8 DEF journal
<1>2. ASSUME NEW o \in Owners, Crash(o) PROVE Visible(m)'
  <2>1. /\ UNCHANGED <<mutState, mutOp, opOwner, fenced>>
        /\ status' = [status EXCEPT ![o] = "dead"]
        /\ mutPc'[m] = IF mutPc[m] \in {"published", "sent"} /\ opOwner[mutOp[m]] = o
                       THEN "abandoned" ELSE mutPc[m]
    BY <1>2 DEF Crash, tickets, journal
  <2>2. status \in [Owners -> {"new", "open", "broken", "dead"}]
    BY DEF TypeOK
  <2> QED
    BY <1>0, <1>o, <2>1, <2>2 DEF Visible, Filed
<1>3. ASSUME NEW x \in Ops, NEW t \in Tasks, NEW k \in Keys \cup {None}, NEW n \in Muts,
             Publish(x, t, k, n)
      PROVE  Visible(m)'
  <2>1. CASE n = m
    BY <1>3, <2>1 DEF Publish, Visible, TypeOK
  <2>2. CASE n # m
    BY <1>0, <1>3, <2>2 DEF Publish, Visible, tickets, TypeOK
  <2> QED
    BY <2>1, <2>2
<1>4. ASSUME NEW n \in Muts, Send(n) PROVE Visible(m)'
  BY <1>0, <1>4 DEF Send, Visible, tickets, journal, TypeOK
<1>5. ASSUME NEW n \in Muts, Apply(n) \/ Lose(n) PROVE Visible(m)'
  BY <1>0, <1>5 DEF Apply, Lose, Visible, tickets, journal
<1>6. ASSUME NEW n \in Muts, Acknowledge(n) PROVE Visible(m)'
  <2>1. UNCHANGED <<opState, opOwner, status, fenced, mutOp>>
    BY <1>6 DEF Acknowledge, Confirmed, tickets
  <2>2. CASE n = m
    <3>1. CASE Permitted(mutOp[m])
      BY <1>6, <2>2, <3>1 DEF Acknowledge, Confirmed, Visible, TypeOK
    <3>2. CASE ~Permitted(mutOp[m])
      <4>1. mutState'[m] = mutState[m]
        BY <1>6, <2>2, <3>2 DEF Acknowledge, Confirmed
      <4>2. mutState[m] = "pending" => Active(mutOp[m]) /\ mutOp[m] \in Ops
        BY <1>0 DEF EvidenceHasOwner, Filed
      <4>3. mutState[m] = "pending" => opGeneration[mutOp[m]] = generation
        BY <4>2 DEF ActiveIsCurrent
      <4> QED
        BY <2>1, <3>2, <4>1, <4>2, <4>3 DEF Visible, Permitted
    <3> QED
      BY <3>1, <3>2
  <2>3. CASE n # m
    <3>1. mutState'[m] = mutState[m] /\ mutPc'[m] = mutPc[m]
      BY <1>6, <2>3 DEF Acknowledge, Confirmed, TypeOK
    <3> QED
      BY <1>0, <2>1, <3>1 DEF Visible
  <2> QED
    BY <2>2, <2>3
<1>7. ASSUME NEW n \in Muts, FailMutation(n) PROVE Visible(m)'
  <2>1. UNCHANGED <<opOwner, mutOp, mutState>> /\ MarkUncertain(mutOp[n])
        /\ mutPc'[m] = IF n = m THEN "abandoned" ELSE mutPc[m]
    BY <1>7 DEF FailMutation, tickets, journal, TypeOK
  <2>2. CASE n = m /\ mutState[m] = "pending"
    BY <1>0, <1>o, <2>1, <2>2 DEF MarkUncertain, Visible, Filed, TypeOK
  <2>3. CASE n # m /\ ~Recover
    BY <1>k, <2>1, <2>3
  <2>4. CASE mutState[m] # "pending"
    BY <2>1, <2>4 DEF Visible
  <2> QED
    BY <2>2, <2>3, <2>4, <1>8
<1> QED
  BY <1>1, <1>2, <1>3, <1>4, <1>5, <1>6, <1>7, <1>8, WriteSteps

\* A write under way keeps its row until its holder settles it: release waits for
\* the bodies it covers, an uncertain exit retains the row, and recovery comes
\* after the writers and their requests are gone.
Held(m) ==
  Writing(m) => /\ mutState[m] = "pending"
                /\ mutKey[m] # None => /\ lockOp[mutKey[m]] = mutOp[m]
                                      /\ lockTask[mutKey[m]] = mutTask[m]

LEMMA WritingStep ==
  ASSUME CoordinatorAssumption, OperatorVerifies, TypeOK, TypeOK', RowsFirst, ActiveIsCurrent,
         EvidenceHasOwner, ReentryHolds, WritesConsistent, AbandonedIsVisible, WritingHolds,
         [Next]_vars
  PROVE  WritingHolds'
<1> SUFFICES ASSUME NEW m \in Muts PROVE Held(m)'
  BY DEF WritingHolds, Held
<1>0. Held(m) /\ Filed(m) /\ Consistent(m)
  BY DEF WritingHolds, Held, RowsFirst, WritesConsistent
<1>n. None \notin Ops /\ None \notin Tasks
  BY DEF CoordinatorAssumption
<1>1. ASSUME UNCHANGED <<journal, mutPc, storage, locks>> PROVE Held(m)'
  BY <1>0, <1>1 DEF Held, Writing, journal, storage, locks
<1>2. ASSUME NEW x \in Ops, NEW t \in Tasks, NEW K \in SUBSET Keys, AcquireLock(x, t, K)
      PROVE  Held(m)'
  <2>1. /\ UNCHANGED <<mutPc, flight, mutState, mutOp, mutTask, mutKey>>
        /\ \A k \in K : Free(x, t, k)
        /\ \A k \in Keys : lockOp'[k] = IF k \in K THEN x ELSE lockOp[k]
        /\ \A k \in Keys : lockTask'[k] = IF k \in K THEN t ELSE lockTask[k]
    BY <1>2 DEF AcquireLock, journal, storage
  <2>2. CASE Writing(m)
    <3>1. mutKey[m] \in Keys \cup {None} /\ mutOp[m] \in Ops
      BY <1>0, <2>2 DEF Held, Filed, TypeOK
    <3> QED
      BY <1>0, <1>n, <2>1, <2>2, <3>1 DEF Held, Writing, Free
  <2>3. CASE ~Writing(m)
    BY <2>1, <2>3 DEF Held, Writing
  <2> QED
    BY <2>2, <2>3
<1>3. ASSUME NEW x \in Ops, NEW t \in Tasks, NEW K \in SUBSET Keys, ReleaseLock(x, t, K)
      PROVE  Held(m)'
  <2>1. UNCHANGED <<mutPc, flight, mutState, mutOp, mutTask, mutKey>> /\ ~InMutation(x, t)
    BY <1>3 DEF ReleaseLock, journal, storage
  <2>2. CASE UNCHANGED locks
    BY <1>0, <2>1, <2>2 DEF Held, Writing, locks
  <2>3. CASE Validated(x) /\ Writing(m)
    <3>1. mutKey[m] \in Keys \cup {None} /\ mutOp[m] \in Ops /\ mutState[m] = "pending"
      BY <1>0, <2>3 DEF Held, Filed, TypeOK
    <3>2. ~(mutOp[m] = x /\ mutTask[m] = t)
      <4>1. SUFFICES ASSUME mutOp[m] = x, mutTask[m] = t PROVE FALSE
        OBVIOUS
      <4>2. mutPc[m] \notin {"published", "sent"}
        BY <2>1, <4>1 DEF InMutation
      <4>3. mutPc[m] = "abandoned"
        BY <1>0, <2>3, <4>2 DEF Writing, Consistent
      <4>4. fenced \/ status[opOwner[x]] # "open"
        BY <3>1, <4>1, <4>3 DEF AbandonedIsVisible
      <4> QED
        BY <2>3, <4>4 DEF Validated, Permitted, ScopeOpen
    <3>3. mutKey[m] # None => lockOp[mutKey[m]] = mutOp[m] /\ lockTask[mutKey[m]] = mutTask[m]
      BY <1>0, <2>3 DEF Held
    <3>4. mutKey[m] # None => /\ lockOp'[mutKey[m]] = lockOp[mutKey[m]]
                              /\ lockTask'[mutKey[m]] = lockTask[mutKey[m]]
      BY <1>3, <2>3, <3>1, <3>2, <3>3 DEF ReleaseLock, Emptied
    <3> QED
      BY <2>1, <3>1, <3>3, <3>4 DEF Held
  <2>4. CASE ~Writing(m)
    BY <2>1, <2>4 DEF Held, Writing
  <2> QED
    BY <1>3, <2>2, <2>3, <2>4 DEF ReleaseLock
<1>4. ASSUME NEW x \in Ops, NEW t \in Tasks, NEW K \in SUBSET Keys, FailLock(x, t, K)
      PROVE  Held(m)'
  BY <1>1, <1>4 DEF FailLock
<1>5. CASE Recover
  <2>1. UNCHANGED <<mutPc, flight>> /\ WritersStopped /\ InflightFinished
    BY <1>5 DEF Recover, storage
  <2>2. ~Writing(m)
    <3>1. SUFFICES ASSUME Writing(m) PROVE FALSE
      OBVIOUS
    <3>2. mutState[m] = "pending" /\ m \notin flight
      BY <1>0, <2>1, <3>1 DEF Held, InflightFinished
    <3>3. Active(mutOp[m]) /\ mutOp[m] \in Ops
      BY <1>0, <3>2 DEF EvidenceHasOwner, Filed
    <3>4. status[opOwner[mutOp[m]]] = "dead"
      BY <2>1, <3>3 DEF WritersStopped
    <3> QED
      BY <1>0, <3>1, <3>2, <3>4 DEF Writing, Consistent
  <2> QED
    BY <2>1, <2>2 DEF Held, Writing
<1>6. CASE UNCHANGED <<locks, depth>>
  <2>1. CASE UNCHANGED <<journal, mutPc, storage>>
    BY <1>1, <1>6, <2>1
  <2>2. ASSUME NEW o \in Owners, Crash(o) PROVE Held(m)'
    BY <1>0, <1>6, <2>2 DEF Crash, Held, Writing, journal, storage, locks
  <2>3. ASSUME NEW x \in Ops, NEW t \in Tasks, NEW k \in Keys \cup {None}, NEW n \in Muts,
               Publish(x, t, k, n)
        PROVE  Held(m)'
    <3>1. k # None => lockOp[k] = x /\ lockTask[k] = t
      BY <2>3 DEF Publish, Validated, Permitted, ReentryHolds
    <3>2. CASE n = m
      BY <1>6, <2>3, <3>1, <3>2 DEF Publish, Held, locks, TypeOK
    <3>3. CASE n # m
      <4>1. /\ mutState'[m] = mutState[m] /\ mutOp'[m] = mutOp[m] /\ mutTask'[m] = mutTask[m]
            /\ mutKey'[m] = mutKey[m] /\ mutPc'[m] = mutPc[m] /\ flight' = flight
        BY <2>3, <3>3 DEF Publish, storage, TypeOK
      <4> QED
        BY <1>0, <1>6, <4>1 DEF Held, Writing, locks
    <3> QED
      BY <3>2, <3>3
  <2>4. ASSUME NEW n \in Muts, Send(n) PROVE Held(m)'
    BY <1>0, <1>6, <2>4 DEF Send, Held, Writing, journal, locks, TypeOK
  <2>5. ASSUME NEW n \in Muts, Apply(n) \/ Lose(n) PROVE Held(m)'
    BY <1>0, <1>6, <2>5 DEF Apply, Lose, Held, Writing, journal, locks
  <2>6. ASSUME NEW n \in Muts, Acknowledge(n) PROVE Held(m)'
    <3>1. UNCHANGED <<flight, mutOp, mutTask, mutKey>> /\ n \in applied /\ mutPc[n] = "sent"
      BY <2>6 DEF Acknowledge, Confirmed, storage
    <3>2. CASE n = m
      <4>1. ~Writing(m)'
        BY <1>0, <2>6, <3>1, <3>2 DEF Acknowledge, Confirmed, Writing, Consistent, TypeOK
      <4> QED
        BY <4>1 DEF Held
    <3>3. CASE n # m
      <4>1. mutState'[m] = mutState[m] /\ mutPc'[m] = mutPc[m]
        BY <2>6, <3>3 DEF Acknowledge, Confirmed, TypeOK
      <4> QED
        BY <1>0, <1>6, <3>1, <4>1 DEF Held, Writing, locks
    <3> QED
      BY <3>2, <3>3
  <2>7. ASSUME NEW n \in Muts, FailMutation(n) PROVE Held(m)'
    BY <1>0, <1>6, <2>7 DEF FailMutation, Held, Writing, journal, storage, locks, TypeOK
  <2> QED
    BY <2>1, <2>2, <2>3, <2>4, <2>5, <2>6, <2>7, <1>5, WriteSteps
<1> QED
  BY <1>2, <1>3, <1>4, <1>5, <1>6, LockSteps

-----------------------------------------------------------------------------
(* The inductive invariant and what follows from it.                       *)

LEMMA IInvInit == ASSUME CoordinatorAssumption, Init PROVE IInv
<1>1. TypeOK
  BY TypeInit
<1>2. RowsFirst /\ ExclusiveAlone /\ ActiveIsCurrent
  BY DEF Init, RowsFirst, Filed, ExclusiveAlone, ActiveIsCurrent, Active
<1>3. EvidenceHasOwner /\ ReentryHolds
  BY DEF Init, EvidenceHasOwner, ReentryHolds, Active
<1>4. WritesConsistent /\ NoSilentSuccess /\ AbandonedIsVisible /\ WritingHolds
  BY DEF Init, WritesConsistent, Consistent, NoSilentSuccess, AbandonedIsVisible, WritingHolds,
         Writing
<1> QED
  BY <1>1, <1>2, <1>3, <1>4 DEF IInv, TicketInv

LEMMA IInvStep == ASSUME CoordinatorAssumption, IInv, [Next]_vars PROVE IInv'
<1>1. TypeOK' /\ TypeOK
  BY TypeStep DEF IInv, TicketInv
<1>2. RowsFirst' /\ RowsFirst
  BY <1>1, RowsStep DEF IInv, TicketInv
<1>3. ExclusiveAlone' /\ ActiveIsCurrent' /\ ActiveIsCurrent
  BY <1>1, ExclusiveStep, CurrentStep DEF IInv, TicketInv
<1>4. EvidenceHasOwner' /\ EvidenceHasOwner
  BY <1>1, <1>2, EvidenceStep DEF IInv, TicketInv
<1>5. ReentryHolds' /\ ReentryHolds
  BY <1>1, <1>2, ReentryStep DEF IInv, TicketInv
<1>6. WritesConsistent' /\ WritesConsistent
  BY <1>1, <1>2, <1>4, ConsistentStep DEF IInv, TicketInv
<1>7. NoSilentSuccess'
  BY <1>1, <1>2, <1>4, <1>6, SuccessStep DEF IInv, TicketInv
<1>8. AbandonedIsVisible' /\ AbandonedIsVisible
  BY <1>1, <1>2, <1>3, <1>4, VisibleStep DEF IInv, TicketInv
<1>9. OperatorVerifies => WritingHolds'
  BY <1>1, <1>2, <1>3, <1>4, <1>5, <1>6, <1>8, WritingStep DEF IInv
<1> QED
  BY <1>1, <1>2, <1>3, <1>4, <1>5, <1>6, <1>7, <1>8, <1>9 DEF IInv, TicketInv

\* Everything above holds together in every reachable state.
THEOREM Inductive == ASSUME CoordinatorAssumption PROVE Spec => []IInv
<1>1. Init => IInv
  BY IInvInit
<1>2. IInv /\ [Next]_vars => IInv'
  BY IInvStep
<1> QED
  BY <1>1, <1>2, PTL DEF Spec

\* operation(): a completed ticket vouches for writes that the storage applied.
THEOREM CompletedMeansApplied == ASSUME CoordinatorAssumption PROVE Spec => []NoSilentSuccess
<1>1. IInv => NoSilentSuccess
  BY DEF IInv, TicketInv
<1> QED
  BY <1>1, Inductive, PTL

\* mutation(), _mark_uncertain(): no write is given up without a durable fence or
\* an unusable coordinator.
THEOREM UncertaintyIsVisible == ASSUME CoordinatorAssumption PROVE Spec => []AbandonedIsVisible
<1>1. IInv => AbandonedIsVisible
  BY DEF IInv, TicketInv
<1> QED
  BY <1>1, Inductive, PTL

\* recover(), _check_scope(): a lock row, a claim or a pending write never outlives
\* the ticket it belongs to.
THEOREM EvidenceIsOwned == ASSUME CoordinatorAssumption PROVE Spec => []EvidenceHasOwner
<1>1. IInv => EvidenceHasOwner
  BY DEF IInv, TicketInv
<1> QED
  BY <1>1, Inductive, PTL

\* lock(): a row is held by one task, and counts at least the contexts that task is inside.
THEOREM ReentryIsCovered == ASSUME CoordinatorAssumption PROVE Spec => []ReentryHolds
<1>1. IInv => ReentryHolds
  BY DEF IInv, TicketInv
<1> QED
  BY <1>1, Inductive, PTL

\* lock() with mutation(): writes of one resource under way belong to one task of
\* one ticket, through crashes and recovery, if the operator verifies recovery.
THEOREM WritesExclude ==
  ASSUME CoordinatorAssumption, OperatorVerifies PROVE Spec => []WriteExclusion
<1>1. IInv => WriteExclusion
  BY DEF IInv, WritingHolds, WriteExclusion
<1> QED
  BY <1>1, Inductive, PTL

-----------------------------------------------------------------------------
(* Claims and manifests.                                                   *)

\* One step changes a claim that is held only when nothing is pending, or in a
\* recovery.
LEMMA ClaimStep ==
  ASSUME CoordinatorAssumption, TypeOK, [Next]_vars, NEW d \in Docs,
         claim[d] # None, claim'[d] # claim[d]
  PROVE  generation' > generation \/ ~Pending(claim[d])
<1>1. ASSUME NEW x \in Ops, Finish(x) PROVE ~Pending(claim[d])
  BY <1>1 DEF Finish, TypeOK
<1>2. ASSUME NEW x \in Ops, NEW c \in Docs, ReleaseClaim(x, c) PROVE ~Pending(claim[d])
  BY <1>2 DEF ReleaseClaim, TypeOK
<1>3. ASSUME NEW x \in Ops, NEW c \in Docs, TryClaimDocument(x, c) PROVE FALSE
  BY <1>3 DEF TryClaimDocument, TypeOK
<1>4. ASSUME Recover PROVE generation' > generation
  <2>1. generation \in Nat
    BY DEF TypeOK
  <2>2. generation' = generation + 1
    BY <1>4 DEF Recover
  <2> QED
    BY <2>1, <2>2
<1>5. CASE claim' = claim
  BY <1>5
<1>6. ASSUME NEW o \in Owners,
             \/ Initialize(o) \/ Quarantine(o) \/ WitnessLost(o) \/ Crash(o) \/ DiscoverOrphan(o)
      PROVE  claim' = claim
  BY <1>6 DEF Initialize, Quarantine, WitnessLost, Crash, DiscoverOrphan
<1>7. ASSUME NEW x \in Ops, FailOperation(x) PROVE claim' = claim
  BY <1>7 DEF FailOperation
<1>8. ASSUME NEW o \in Owners, NEW x \in Ops, NEW e \in BOOLEAN, Admit(o, x, e)
      PROVE  claim' = claim
  BY <1>8 DEF Admit
<1>9. ASSUME NEW x \in Ops, NEW t \in Tasks, NEW K \in SUBSET Keys,
             AcquireLock(x, t, K) \/ ReleaseLock(x, t, K) \/ FailLock(x, t, K)
      PROVE  claim' = claim
  BY <1>9 DEF AcquireLock, ReleaseLock, FailLock
<1>10. ASSUME NEW x \in Ops, NEW t \in Tasks, NEW k \in Keys \cup {None}, NEW m \in Muts,
              Publish(x, t, k, m)
       PROVE  claim' = claim
  BY <1>10 DEF Publish
<1>11. ASSUME NEW m \in Muts,
              Send(m) \/ Apply(m) \/ Lose(m) \/ Acknowledge(m) \/ FailMutation(m)
       PROVE  claim' = claim
  BY <1>11 DEF Send, Apply, Lose, Acknowledge, FailMutation
<1>12. ASSUME UNCHANGED vars PROVE claim' = claim
  BY <1>12 DEF vars
<1> QED
  BY <1>1, <1>2, <1>3, <1>4, <1>5, <1>6, <1>7, <1>8, <1>9, <1>10, <1>11, <1>12 DEF Next

\* release_claim(), operation(): a document is given away only when every write of
\* the ticket that held it is settled, or by the recovery of the scope.
THEOREM ClaimsSettle == ASSUME CoordinatorAssumption PROVE Spec => ClaimReleaseSettled
<1>1. TypeOK /\ [Next]_vars =>
        [\A d \in Docs :
           claim[d] # None /\ claim'[d] # claim[d] =>
             \/ generation' > generation
             \/ ~\E m \in Muts : mutOp[m] = claim[d] /\ mutState[m] = "pending"]_vars
  <2> SUFFICES ASSUME TypeOK, [Next]_vars, NEW d \in Docs,
                      claim[d] # None, claim'[d] # claim[d]
               PROVE  \/ generation' > generation
                      \/ ~\E m \in Muts : mutOp[m] = claim[d] /\ mutState[m] = "pending"
    OBVIOUS
  <2> QED
    BY ClaimStep DEF Pending
<1> QED
  BY <1>1, TypeCorrect, PTL DEF Spec, ClaimReleaseSettled

LEMMA RegisteredStep ==
  ASSUME CoordinatorAssumption, TypeOK, RegisteredAgrees, [Next]_vars
  PROVE  RegisteredAgrees'
<1>1. ASSUME NEW o \in Owners, Initialize(o) PROVE RegisteredAgrees'
  <2>1. ManifestOf[o] # None
    BY DEF CoordinatorAssumption
  <2>2. /\ opState' = opState /\ opOwner' = opOwner
        /\ manifest' = IF manifest = None THEN ManifestOf[o] ELSE manifest
        /\ \A p \in Owners \ {o} : status'[p] = status[p]
        /\ status'[o] = "open" => manifest' = ManifestOf[o]
    BY <1>1 DEF Initialize, ManifestAccepted, tickets, TypeOK
  <2>3. \A p \in Owners : ManifestOf[p] # None
    BY DEF CoordinatorAssumption
  <2> QED
    BY <2>2, <2>3 DEF RegisteredAgrees
<1>2. ASSUME NEW o \in Owners, NEW x \in Ops, NEW e \in BOOLEAN, Admit(o, x, e)
      PROVE  RegisteredAgrees'
  BY <1>2 DEF Admit, RegisteredAgrees, TypeOK
<1>3. ASSUME UNCHANGED <<manifest, opState, opOwner>>,
             \A o \in Owners : status'[o] = "open" => status[o] = "open"
      PROVE  RegisteredAgrees'
  BY <1>3 DEF RegisteredAgrees
<1>4. ASSUME NEW o \in Owners, Quarantine(o) \/ WitnessLost(o) \/ Crash(o) \/ DiscoverOrphan(o)
      PROVE  RegisteredAgrees'
  BY <1>3, <1>4 DEF Quarantine, WitnessLost, Crash, DiscoverOrphan, tickets, TypeOK
<1>5. ASSUME NEW x \in Ops, Finish(x) PROVE RegisteredAgrees'
  <2>1. \A y \in Ops : opState'[y] # "unused" => opState[y] # "unused"
    BY <1>5 DEF Finish, Validated, Permitted, Active, TypeOK
  <2> QED
    BY <1>5, <2>1 DEF Finish, RegisteredAgrees
<1>6. ASSUME NEW x \in Ops, MarkUncertain(x), UNCHANGED <<manifest, tickets>>
      PROVE  RegisteredAgrees'
  BY <1>3, <1>6 DEF MarkUncertain, tickets, TypeOK
<1>7. ASSUME NEW x \in Ops, FailOperation(x) PROVE RegisteredAgrees'
  BY <1>6, <1>7 DEF FailOperation
<1>8. ASSUME NEW x \in Ops, NEW t \in Tasks, NEW K \in SUBSET Keys,
             AcquireLock(x, t, K) \/ ReleaseLock(x, t, K) \/ FailLock(x, t, K)
      PROVE  RegisteredAgrees'
  BY <1>3, <1>6, <1>8 DEF AcquireLock, ReleaseLock, FailLock, tickets
<1>9. ASSUME NEW x \in Ops, NEW d \in Docs, TryClaimDocument(x, d) \/ ReleaseClaim(x, d)
      PROVE  RegisteredAgrees'
  BY <1>3, <1>9 DEF TryClaimDocument, ReleaseClaim, tickets
<1>10. ASSUME NEW x \in Ops, NEW t \in Tasks, NEW k \in Keys \cup {None}, NEW m \in Muts,
              Publish(x, t, k, m)
       PROVE  RegisteredAgrees'
  BY <1>3, <1>10 DEF Publish, tickets
<1>11. ASSUME NEW m \in Muts, Send(m) \/ Apply(m) \/ Lose(m) \/ Acknowledge(m)
       PROVE  RegisteredAgrees'
  BY <1>3, <1>11 DEF Send, Apply, Lose, Acknowledge, tickets
<1>12. ASSUME NEW m \in Muts, FailMutation(m) PROVE RegisteredAgrees'
  BY <1>3, <1>12 DEF FailMutation, MarkUncertain, tickets, TypeOK
<1>13. ASSUME Recover PROVE RegisteredAgrees'
  <2>1. \A y \in Ops : opState'[y] # "unused" => opState[y] # "unused"
    BY <1>13 DEF Recover, Settle, Active
  <2> QED
    BY <1>13, <2>1 DEF Recover, RegisteredAgrees
<1>14. ASSUME UNCHANGED vars PROVE RegisteredAgrees'
  BY <1>3, <1>14 DEF vars, tickets
<1> QED
  BY <1>1, <1>2, <1>4, <1>5, <1>7, <1>8, <1>9, <1>10, <1>11, <1>12, <1>13, <1>14 DEF Next

\* initialize(): processes whose tickets are active together were configured with
\* one deployment manifest, however their registrations interleave.
THEOREM OneConfiguration == ASSUME CoordinatorAssumption PROVE Spec => []ManifestsAgree
<1>1. Init => RegisteredAgrees
  BY DEF Init, RegisteredAgrees
<1>2. TypeOK /\ RegisteredAgrees /\ [Next]_vars => RegisteredAgrees'
  BY RegisteredStep
<1>3. RegisteredAgrees => ManifestsAgree
  BY DEF RegisteredAgrees, ManifestsAgree, Active
<1> QED
  BY <1>1, <1>2, <1>3, TypeCorrect, PTL DEF Spec
=============================================================================
