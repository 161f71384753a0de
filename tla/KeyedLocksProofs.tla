-------------------------- MODULE KeyedLocksProofs --------------------------
(***************************************************************************)
(* Theorems about KeyedLocks for every set of processes, tasks and keys,   *)
(* every assignment of pids and every list of keys.                        *)
(***************************************************************************)
EXTENDS KeyedLocks, FiniteSetTheorems, TLAPS

-----------------------------------------------------------------------------
(* Type correctness.                                                       *)

\* A lease names a task, and a record or a request is not the absence of one.
LEMMA Shapes ==
  /\ \A r \in Records : r # Free /\ r.lease \in Leases /\ r.lease[1] \in Tasks
  /\ \A c \in Calls : /\ c # Idle /\ c.task \in Tasks /\ c.key \in Keys
                      /\ c.lease \in Leases /\ c.snap \in Records \cup {Free}
                      /\ c.stage \in {"look", "probe", "set"}
<1>1. ASSUME NEW r \in Records PROVE r # Free /\ r.lease \in Leases /\ r.lease[1] \in Tasks
  BY DEF Records, Free, Leases
<1>2. ASSUME NEW c \in Calls
      PROVE  /\ c # Idle /\ c.task \in Tasks /\ c.key \in Keys
             /\ c.lease \in Leases /\ c.snap \in Records \cup {Free}
             /\ c.stage \in {"look", "probe", "set"}
  BY DEF Calls, Idle
<1> QED
  BY <1>1, <1>2

\* The process that has a pid.
LEMMA Owner ==
  ASSUME NEW pid
  PROVE  /\ WhoHas(pid) \in Procs \cup {None}
         /\ WhoHas(pid) # None /\ None \notin Procs =>
                proc[WhoHas(pid)] = "up" /\ PidOf[WhoHas(pid)] = pid
         /\ WhoHas(pid) = None /\ None \notin Procs =>
                \A q \in Procs : proc[q] = "up" => PidOf[q] # pid
<1>1. CASE \E q \in Procs : proc[q] = "up" /\ PidOf[q] = pid
  BY <1>1 DEF WhoHas
<1>2. CASE ~\E q \in Procs : proc[q] = "up" /\ PidOf[q] = pid
  BY <1>2 DEF WhoHas
<1> QED
  BY <1>1, <1>2

ProcTypes == multi \in BOOLEAN /\ proc \in [Procs -> {"new", "up", "dead"}]
PlaceTypes ==
    pc \in [Tasks -> {"idle", "get", "gate", "call", "backoff", "inside", "leave", "dead"}]
ListTypes ==
    /\ cur \in [Tasks -> Keys \cup {None}]
    /\ held \in [Tasks -> SUBSET Keys]
    /\ enters \in [Tasks -> Nat]
GateTypes ==
    /\ registry \in [Procs -> [Keys -> Tasks \cup {None}]]
    /\ refs \in [Procs -> [Keys -> Nat]]
    /\ gate \in [Tasks -> [Keys -> Tasks \cup {None}]]
    /\ locked \in [Tasks -> [Keys -> Tasks \cup {None}]]
ServerTypes ==
    /\ holders \in [Keys -> Records \cup {Free}]
    /\ call \in [Procs -> Calls \cup {Idle}]

LEMMA TypeParts ==
  TypeOK <=> ProcTypes /\ PlaceTypes /\ ListTypes /\ GateTypes /\ ServerTypes
BY DEF TypeOK, ProcTypes, PlaceTypes, ListTypes, GateTypes, ServerTypes

\* References to keys can be counted.
LEMMA ReferencesFinite ==
  ASSUME LocksAssumption, NEW p, NEW k PROVE IsFiniteSet(References(p, k))
<1>1. IsFiniteSet({"entered"} \cup {"waiting"})
  <2>1. IsFiniteSet({"entered"})
    BY FS_Singleton
  <2> QED
    BY <2>1, FS_AddElement
<1>2. IsFiniteSet(Tasks \X ({"entered"} \cup {"waiting"}))
  BY <1>1, FS_Product DEF LocksAssumption
<1>3. References(p, k) \in SUBSET (Tasks \X ({"entered"} \cup {"waiting"}))
  BY DEF References
<1> QED
  BY <1>2, <1>3, FS_Subset

\* What a reference is.
LEMMA ReferencesAre ==
  ASSUME NEW p, NEW k, NEW x
  PROVE  x \in References(p, k) <=>
           \E t \in Tasks :
             /\ ProcOf[t] = p
             /\ \/ x = <<t, "entered">> /\ k \in held[t]
                \/ x = <<t, "waiting">> /\ cur[t] = k
BY DEF References

LEMMA ReferencesAreNext ==
  ASSUME NEW p, NEW k, NEW x
  PROVE  x \in References(p, k)' <=>
           \E t \in Tasks :
             /\ ProcOf[t] = p
             /\ \/ x = <<t, "entered">> /\ k \in held'[t]
                \/ x = <<t, "waiting">> /\ cur'[t] = k
BY DEF References

\* A key that a task refers to has a lock in its process, which the task has got.
LEMMA Referenced ==
  ASSUME LocksAssumption, GateTypes, GatesCounted, NEW t \in Tasks, NEW k \in Keys,
         k \in held[t] \/ cur[t] = k
  PROVE  /\ refs[ProcOf[t]][k] # 0
         /\ registry[ProcOf[t]][k] # None
         /\ gate[t][k] = registry[ProcOf[t]][k]
         /\ gate[t][k] \in Tasks
<1>1. ProcOf[t] \in Procs
  BY DEF LocksAssumption
<1>2. References(ProcOf[t], k) # {}
  <2>1. <<t, "entered">> \in References(ProcOf[t], k) \/ <<t, "waiting">> \in
        References(ProcOf[t], k)
    BY ReferencesAre
  <2> QED
    BY <2>1
<1>3. Cardinality(References(ProcOf[t], k)) # 0
  BY <1>2, ReferencesFinite, FS_EmptySet
<1>4. /\ refs[ProcOf[t]][k] = Cardinality(References(ProcOf[t], k))
      /\ refs[ProcOf[t]][k] = 0 <=> registry[ProcOf[t]][k] = None
      /\ gate[t][k] = registry[ProcOf[t]][k]
  BY <1>1 DEF GatesCounted
<1> QED
  BY <1>1, <1>3, <1>4 DEF GateTypes

\* A task that asks for a lease asks for that of a key.
LEMMA RequestTypes ==
  ASSUME LocksAssumption, ListTypes, NEW t \in Tasks, cur[t] # None
  PROVE  [stage |-> "look", task |-> t, key |-> cur[t], lease |-> Lease(t),
          snap |-> Free, start |-> None] \in Calls
BY DEF ListTypes, Calls, Lease, Leases

\* A request that exists, and what its task waits for.
LEMMA Request1 ==
  ASSUME LocksAssumption, ServerTypes, CallsFit, NEW p \in Procs, call[p] # Idle
  PROVE  /\ call[p] \in Calls /\ call[p].task \in Tasks /\ call[p].key \in Keys
         /\ ProcOf[call[p].task] = p /\ proc[p] # "new"
         /\ call[p].lease[1] = call[p].task
         /\ Live(call[p].task) <=> proc[p] = "up"
         /\ proc[p] = "up" => /\ pc[call[p].task] = "call"
                              /\ cur[call[p].task] = call[p].key
                              /\ call[p].lease = Lease(call[p].task)
<1>1. call[p] \in Calls
  BY DEF ServerTypes
<1>2. call[p].task \in Tasks /\ call[p].key \in Keys
  BY <1>1, Shapes
<1> QED
  BY <1>1, <1>2 DEF CallsFit, Live

\* The steps of the server belong to a request.
LEMMA Served1 ==
  ASSUME NEW p \in Procs, ServerStep(p) PROVE call[p] # Idle
BY DEF ServerStep, Look, Probe, Set, Idle

LEMMA ProcTypesStep == ASSUME ProcTypes, [Next]_vars PROVE ProcTypes'
<1> USE DEF ProcTypes
<1>1. ASSUME NEW p \in Procs, Start(p) \/ Kill(p) PROVE ProcTypes'
  BY <1>1 DEF Start, Kill
<1>2. ASSUME NEW p \in Procs, ServerStep(p) PROVE UNCHANGED <<multi, proc>>
  BY <1>2 DEF ServerStep, Look, Probe, Set, Refuse
<1>3. ASSUME NEW t \in Tasks, Enter(t) \/ Cancel(t) \/ TaskStep(t)
      PROVE  UNCHANGED <<multi, proc>>
  BY <1>3 DEF Enter, Cancel, TaskStep, Get, Inside, Pass, Retry, Leave, Abandon, Release, Done
<1> QED
  BY <1>1, <1>2, <1>3 DEF Next, vars

LEMMA PlaceTypesStep == ASSUME PlaceTypes, [Next]_vars PROVE PlaceTypes'
<1> USE DEF PlaceTypes
<1>1. ASSUME NEW p \in Procs, Start(p) \/ Kill(p) PROVE PlaceTypes'
  BY <1>1 DEF Start, Kill
<1>2. ASSUME NEW p \in Procs, ServerStep(p) PROVE PlaceTypes'
  BY <1>2 DEF ServerStep, Look, Probe, Set, Refuse, Entered
<1>3. ASSUME NEW t \in Tasks, Enter(t) \/ Cancel(t) \/ TaskStep(t)
      PROVE  \/ pc' = pc
             \/ \E l \in {"idle", "get", "gate", "call", "inside", "leave"} :
                    pc' = [pc EXCEPT ![t] = l]
  BY <1>3 DEF Enter, Cancel, TaskStep, Get, Inside, Pass, Request, Entered, Retry, Leave,
     Abandon, Release, Done
<1>4. ASSUME NEW t \in Tasks, Enter(t) \/ Cancel(t) \/ TaskStep(t) PROVE PlaceTypes'
  BY <1>3, <1>4
<1> QED
  BY <1>1, <1>2, <1>4 DEF Next, vars

LEMMA ListTypesStep ==
  ASSUME LocksAssumption, ListTypes, ServerTypes, TasksFit, CallsFit, [Next]_vars
  PROVE  ListTypes'
<1> USE DEF ListTypes, locals
<1>1. ASSUME NEW t \in Tasks, cur[t] # None, Entered(t), enters' = enters PROVE ListTypes'
  BY <1>1 DEF Entered
<1>2. ASSUME NEW p \in Procs, Start(p) \/ Kill(p) \/ Look(p) \/ Probe(p) PROVE ListTypes'
  BY <1>2 DEF Start, Kill, Look, Probe, Refuse
<1>3. ASSUME NEW p \in Procs, Set(p) PROVE ListTypes'
  <2>1. call[p] # Idle
    BY <1>3, Served1 DEF ServerStep
  <2>2. call[p].task \in Tasks /\ (Live(call[p].task) => cur[call[p].task] # None)
    BY <2>1, Request1 DEF LocksAssumption
  <2>3. \/ UNCHANGED <<cur, held, enters>>
        \/ Live(call[p].task) /\ Entered(call[p].task) /\ enters' = enters
    BY <1>3 DEF Set, Refuse
  <2> QED
    BY <1>1, <2>2, <2>3
<1>4. ASSUME NEW t \in Tasks, Enter(t) PROVE ListTypes'
  BY <1>4 DEF Enter
<1>5. ASSUME NEW t \in Tasks, Get(t) PROVE ListTypes'
  BY <1>5 DEF Get
<1>6. ASSUME NEW t \in Tasks, Pass(t) PROVE ListTypes'
  <2>1. cur[t] # None
    BY <1>6 DEF Pass, TasksFit
  <2>2. \/ UNCHANGED <<cur, held, enters>>
        \/ Entered(t) /\ enters' = enters
    BY <1>6 DEF Pass
  <2> QED
    BY <1>1, <2>1, <2>2
<1>7. ASSUME NEW t \in Tasks, Abandon(t) PROVE ListTypes'
  BY <1>7 DEF Abandon
<1>8. ASSUME NEW t \in Tasks, Release(t) PROVE ListTypes'
  BY <1>8 DEF Release
<1>9. ASSUME NEW t \in Tasks,
             Inside(t) \/ Retry(t) \/ Cancel(t) \/ Leave(t) \/ Done(t)
      PROVE  ListTypes'
  BY <1>9 DEF Inside, Retry, Cancel, Leave, Done
<1> QED
  BY <1>2, <1>3, <1>4, <1>5, <1>6, <1>7, <1>8, <1>9 DEF Next, TaskStep, ServerStep, vars

\* The tables, cell by cell.
LEMMA Cells ==
  ASSUME GateTypes
  PROVE  /\ \A p \in Procs, k \in Keys :
                registry[p][k] \in Tasks \cup {None} /\ refs[p][k] \in Nat
         /\ \A t \in Tasks, k \in Keys :
                gate[t][k] \in Tasks \cup {None} /\ locked[t][k] \in Tasks \cup {None}
<1>1. ASSUME NEW p \in Procs, NEW k \in Keys PROVE registry[p][k] \in Tasks \cup {None}
  BY DEF GateTypes
<1>2. ASSUME NEW p \in Procs, NEW k \in Keys PROVE refs[p][k] \in Nat
  BY DEF GateTypes
<1>3. ASSUME NEW t \in Tasks, NEW k \in Keys
      PROVE  gate[t][k] \in Tasks \cup {None} /\ locked[t][k] \in Tasks \cup {None}
  BY DEF GateTypes
<1> QED
  BY <1>1, <1>2, <1>3

LEMMA GateTypesStep ==
  ASSUME LocksAssumption, ListTypes, GateTypes, TasksFit, GatesCounted, [Next]_vars
  PROVE  GateTypes'
<1> USE DEF GateTypes, gates
<1>1. ASSUME NEW p \in Procs, Start(p) \/ Kill(p) \/ ServerStep(p) PROVE GateTypes'
  BY <1>1 DEF Start, Kill, ServerStep, Look, Probe, Set, Refuse
<1>2. ASSUME NEW t \in Tasks,
             Enter(t) \/ Inside(t) \/ Retry(t) \/ Leave(t) \/ Done(t)
      PROVE  GateTypes'
  BY <1>2 DEF Enter, Inside, Retry, Leave, Done
<1>3. ASSUME NEW t \in Tasks, Get(t) PROVE GateTypes'
  <2> DEFINE lock(k) == IF registry[ProcOf[t]][k] = None THEN t ELSE registry[ProcOf[t]][k]
  <2>1. PICK k \in Keys :
            /\ registry' = [registry EXCEPT ![ProcOf[t]][k] = lock(k)]
            /\ refs' = [refs EXCEPT ![ProcOf[t]][k] = refs[ProcOf[t]][k] + 1]
            /\ gate' = [gate EXCEPT ![t][k] = lock(k)]
            /\ locked' = locked
    BY <1>3 DEF Get
  <2>2. ProcOf[t] \in Procs
    BY DEF LocksAssumption
  <2>3. registry[ProcOf[t]][k] \in Tasks \cup {None} /\ refs[ProcOf[t]][k] + 1 \in Nat
    BY <2>2, Cells
  <2>4. lock(k) \in Tasks
    BY <2>3
  <2> HIDE DEF lock
  <2>5. registry' \in [Procs -> [Keys -> Tasks \cup {None}]]
    BY <2>1, <2>2, <2>4
  <2>6. refs' \in [Procs -> [Keys -> Nat]]
    BY <2>1, <2>2, <2>3
  <2>7. gate' \in [Tasks -> [Keys -> Tasks \cup {None}]]
    BY <2>1, <2>4
  <2> QED
    BY <2>1, <2>5, <2>6, <2>7
<1>4. ASSUME NEW t \in Tasks, Pass(t) \/ Cancel(t) PROVE GateTypes'
  <2>1. UNCHANGED <<registry, refs, gate>>
    BY <1>4 DEF Pass, Cancel
  <2>2. \/ locked' = [locked EXCEPT ![gate[t][cur[t]]][cur[t]] = t]
        \/ locked' = [locked EXCEPT ![gate[t][cur[t]]][cur[t]] = None]
        \/ locked' = locked
    BY <1>4 DEF Pass, Cancel
  <2>3. cur[t] \in Keys /\ gate[t][cur[t]] \in Tasks
    <3>1. cur[t] \in Keys
      BY <1>4 DEF Pass, Cancel, TasksFit, ListTypes
    <3> QED
      BY <3>1, Referenced
  <2>4. locked' \in [Tasks -> [Keys -> Tasks \cup {None}]]
    <3> DEFINE l == gate[t][cur[t]]
               k == cur[t]
    <3>1. ASSUME NEW x \in Tasks \cup {None}, locked' = [locked EXCEPT ![l][k] = x]
          PROVE  locked' \in [Tasks -> [Keys -> Tasks \cup {None}]]
      <4> HIDE DEF l, k
      <4>1. l \in Tasks /\ k \in Keys
        BY <2>3 DEF l, k
      <4> QED
        BY <3>1, <4>1
    <3> QED
      BY <2>2, <3>1
  <2> QED
    BY <2>1, <2>4
<1>5. ASSUME NEW p \in Procs, NEW k \in Keys, refs[p][k] # 0, Drop(p, k)
      PROVE  /\ refs' \in [Procs -> [Keys -> Nat]]
             /\ registry' \in [Procs -> [Keys -> Tasks \cup {None}]]
  <2>1. refs[p][k] - 1 \in Nat
    BY <1>5, Cells
  <2>2. refs' = [refs EXCEPT ![p][k] = refs[p][k] - 1]
    BY <1>5 DEF Drop
  <2>3. registry' = [registry EXCEPT ![p][k] = None] \/ registry' = registry
    BY <1>5 DEF Drop
  <2>4. refs' \in [Procs -> [Keys -> Nat]]
    BY <2>1, <2>2
  <2>5. CASE registry' = [registry EXCEPT ![p][k] = None]
    BY <2>4, <2>5
  <2>6. CASE registry' = registry
    BY <2>4, <2>6
  <2> QED
    BY <2>3, <2>5, <2>6
<1>6. ASSUME NEW t \in Tasks, Abandon(t) PROVE GateTypes'
  <2>1. /\ cur[t] \in Keys /\ Drop(ProcOf[t], cur[t]) /\ locked' = locked
        /\ gate' = gate \/ gate' = [gate EXCEPT ![t][cur[t]] = None]
    BY <1>6 DEF Abandon, ListTypes
  <2>2. ProcOf[t] \in Procs /\ refs[ProcOf[t]][cur[t]] # 0
    BY <2>1, Referenced DEF LocksAssumption
  <2>3. gate' \in [Tasks -> [Keys -> Tasks \cup {None}]]
    <3>1. CASE gate' = gate
      BY <3>1
    <3>2. CASE gate' = [gate EXCEPT ![t][cur[t]] = None]
      <4> DEFINE k == cur[t]
      <4>1. k \in Keys
        BY <2>1
      <4>2. gate' = [gate EXCEPT ![t][k] = None]
        BY <3>2
      <4> HIDE DEF k
      <4> QED
        BY <4>1, <4>2
    <3> QED
      BY <2>1, <3>1, <3>2
  <2> QED
    BY <1>5, <2>1, <2>2, <2>3
<1>7. ASSUME NEW t \in Tasks, Release(t) PROVE GateTypes'
  <2>1. PICK k \in held[t] :
            /\ Drop(ProcOf[t], k)
            /\ locked' = [locked EXCEPT ![gate[t][k]][k] = None]
            /\ gate' = [gate EXCEPT ![t][k] = None]
    BY <1>7 DEF Release
  <2>2. k \in Keys
    BY DEF ListTypes
  <2>3. ProcOf[t] \in Procs /\ refs[ProcOf[t]][k] # 0 /\ gate[t][k] \in Tasks
    BY <2>2, Referenced DEF LocksAssumption
  <2>4. /\ gate' \in [Tasks -> [Keys -> Tasks \cup {None}]]
        /\ locked' \in [Tasks -> [Keys -> Tasks \cup {None}]]
    BY <2>1, <2>2, <2>3
  <2> QED
    BY <1>5, <2>1, <2>2, <2>3, <2>4
<1> QED
  BY <1>1, <1>2, <1>3, <1>4, <1>6, <1>7 DEF Next, TaskStep, vars

LEMMA ServerTypesStep ==
  ASSUME LocksAssumption, ListTypes, ServerTypes, TasksFit, [Next]_vars
  PROVE  ServerTypes'
<1> USE DEF ServerTypes
<1>1. ASSUME NEW p \in Procs, NEW c \in Calls \cup {Idle}, Step(p, c), holders' = holders
      PROVE  ServerTypes'
  BY <1>1 DEF Step
<1>2. ASSUME NEW p \in Procs, Start(p) \/ Kill(p) PROVE ServerTypes'
  BY <1>2 DEF Start, Kill
<1>3. ASSUME NEW p \in Procs, Look(p) PROVE ServerTypes'
  <2>1. call[p] \in Calls
    BY <1>3, Served1 DEF ServerStep
  <2>2. holders[call[p].key] \in Records \cup {Free}
    BY <2>1, Shapes
  <2>3. [call[p] EXCEPT !.stage = "probe", !.snap = holders[call[p].key]] \in Calls
    BY <2>1, <2>2 DEF Calls
  <2> QED
    BY <1>1, <1>3, <2>3 DEF Look
<1>4. ASSUME NEW p \in Procs, Refuse(p) PROVE ServerTypes'
  BY <1>1, <1>4 DEF Refuse
<1>5. ASSUME NEW p \in Procs, Probe(p) PROVE ServerTypes'
  <2>1. call[p] \in Calls
    BY <1>5, Served1 DEF ServerStep
  <2>2. [call[p] EXCEPT !.stage = "set", !.start = WhoHas(PidOf[p])] \in Calls
    BY <2>1, Owner DEF Calls
  <2> QED
    BY <1>1, <1>4, <1>5, <2>2 DEF Probe
<1>6. ASSUME NEW p \in Procs, Set(p) PROVE ServerTypes'
  <2>1. call[p] \in Calls
    BY <1>6, Served1 DEF ServerStep
  <2>2. [pid |-> PidOf[p], lease |-> call[p].lease, start |-> call[p].start] \in Records
    BY <2>1 DEF Calls, Records
  <2>3. CASE Unchanged(holders[call[p].key], call[p].snap)
    <3>1. /\ holders' = [holders EXCEPT ![call[p].key] =
                           [pid |-> PidOf[p], lease |-> call[p].lease,
                            start |-> call[p].start]]
          /\ call' = [call EXCEPT ![p] = Idle]
      BY <1>6, <2>3 DEF Set, Step
    <3> QED
      BY <2>2, <3>1
  <2>4. CASE ~Unchanged(holders[call[p].key], call[p].snap)
    BY <1>4, <1>6, <2>4 DEF Set
  <2> QED
    BY <2>3, <2>4
<1>7. ASSUME NEW t \in Tasks, Request(t), cur[t] # None, holders' = holders PROVE ServerTypes'
  <2>1. ProcOf[t] \in Procs
    BY DEF LocksAssumption
  <2> QED
    BY <1>1, <1>7, <2>1, RequestTypes DEF Request, Step
<1>8. ASSUME NEW t \in Tasks, Enter(t) \/ Cancel(t) \/ TaskStep(t), ~Release(t)
      PROVE  /\ holders' = holders
             /\ \/ call' = call
                \/ Request(t) /\ cur[t] # None
  BY <1>8 DEF Enter, Cancel, TaskStep, Get, Inside, Pass, Retry, Leave, Abandon, Done, TasksFit
<1>9. ASSUME NEW t \in Tasks, Release(t) PROVE ServerTypes'
  <2>1. PICK k \in held[t] :
            /\ holders' = IF multi THEN [holders EXCEPT ![k] = Returned(t, k)] ELSE holders
            /\ call' = call
    BY <1>9 DEF Release
  <2>2. Returned(t, k) \in Records \cup {Free}
    BY DEF Returned, ListTypes
  <2> QED
    BY <2>1, <2>2
<1>10. ASSUME NEW t \in Tasks, Enter(t) \/ Cancel(t) \/ TaskStep(t) PROVE ServerTypes'
  <2>1. CASE Release(t)
    BY <1>9, <2>1
  <2>2. CASE ~Release(t)
    BY <1>7, <1>8, <1>10, <2>2
  <2> QED
    BY <2>1, <2>2
<1> QED
  BY <1>2, <1>3, <1>5, <1>6, <1>10 DEF Next, ServerStep, vars

LEMMA TypeStep ==
  ASSUME LocksAssumption, TypeOK, TasksFit, CallsFit, GatesCounted, [Next]_vars
  PROVE  TypeOK'
<1>1. ProcTypes' /\ PlaceTypes' /\ ListTypes' /\ GateTypes' /\ ServerTypes'
  BY TypeParts, ProcTypesStep, PlaceTypesStep, ListTypesStep, GateTypesStep, ServerTypesStep
<1> QED
  BY <1>1 DEF TypeOK, ProcTypes, PlaceTypes, ListTypes, GateTypes, ServerTypes

-----------------------------------------------------------------------------
(* Tasks, processes and pids.                                              *)

\* What moves neither a process nor the place of a task but between two keys.
LEMMA TasksStep ==
  ASSUME LocksAssumption, TypeOK, TasksFit, CallsFit, [Next]_vars
  PROVE  TasksFit'
<1> USE DEF TypeOK, LocksAssumption, TasksFit, locals, gates
<1>1. ASSUME NEW p \in Procs, Start(p) \/ Kill(p) PROVE TasksFit'
  BY <1>1 DEF Start, Kill
<1>2. ASSUME NEW p \in Procs, Look(p) PROVE TasksFit'
  BY <1>2 DEF Look
<1>3. ASSUME NEW p \in Procs, call[p] # Idle, Refuse(p) PROVE TasksFit'
  <2>1. call[p].task \in Tasks
    BY <1>3, Shapes
  <2>2. Live(call[p].task) => pc[call[p].task] = "call" /\ ProcOf[call[p].task] = p
    BY <1>3 DEF CallsFit, Live
  <2> QED
    BY <1>3, <2>1, <2>2 DEF Refuse, Live
<1>4. ASSUME NEW p \in Procs, Probe(p) PROVE TasksFit'
  <2>1. call[p] # Idle
    BY <1>4, Served1 DEF ServerStep
  <2>2. UNCHANGED <<proc, pc, cur, held>> \/ Refuse(p)
    BY <1>4 DEF Probe
  <2> QED
    BY <1>3, <2>1, <2>2
<1>5. ASSUME NEW p \in Procs, Set(p) PROVE TasksFit'
  <2>1. call[p] # Idle
    BY <1>5 DEF Set, Idle
  <2>2. call[p].task \in Tasks
    BY <2>1, Shapes
  <2>3. Live(call[p].task) => pc[call[p].task] = "call" /\ ProcOf[call[p].task] = p
    BY <2>1 DEF CallsFit, Live
  <2> QED
    BY <1>3, <1>5, <2>1, <2>2, <2>3 DEF Set, Entered, Live
<1>6. ASSUME NEW t \in Tasks, Enter(t) \/ Inside(t) \/ Leave(t) \/ Done(t) PROVE TasksFit'
  BY <1>6 DEF Enter, Inside, Leave, Done, Awake, Live
<1>7. ASSUME NEW t \in Tasks, Get(t) PROVE TasksFit'
  BY <1>7 DEF Get, Awake, Live
<1>8. ASSUME NEW t \in Tasks, Pass(t) \/ Retry(t) PROVE TasksFit'
  BY <1>8 DEF Pass, Retry, Request, Entered, Awake, Live
<1>9. ASSUME NEW t \in Tasks, Cancel(t) PROVE TasksFit'
  BY <1>9 DEF Cancel, Awake, Live
<1>10. ASSUME NEW t \in Tasks, Abandon(t) \/ Release(t) PROVE TasksFit'
  BY <1>10 DEF Abandon, Release, Awake, Live
<1>11. ASSUME UNCHANGED vars PROVE TasksFit'
  BY <1>11 DEF vars
<1> QED
  BY <1>1, <1>2, <1>4, <1>5, <1>6, <1>7, <1>8, <1>9, <1>10, <1>11
     DEF Next, TaskStep, ServerStep

\* A process is never started twice, and only Start and Kill concern processes.
LEMMA ProcsStep ==
  ASSUME TypeOK, [Next]_vars
  PROVE  /\ multi' = multi
         /\ \A p \in Procs :
                /\ proc'[p] = "new" => proc[p] = "new"
                /\ proc'[p] = "up" => proc[p] = "up" \/ Start(p)
<1> DEFINE Goal == /\ multi' = multi
                   /\ \A p \in Procs :
                         /\ proc'[p] = "new" => proc[p] = "new"
                         /\ proc'[p] = "up" => proc[p] = "up" \/ Start(p)
<1>1. ASSUME NEW p \in Procs, Start(p) \/ Kill(p) PROVE Goal
  BY <1>1 DEF Start, Kill, TypeOK
<1>2. ASSUME UNCHANGED <<multi, proc>> PROVE Goal
  BY <1>2
<1>3. ASSUME NEW p \in Procs, ServerStep(p) PROVE UNCHANGED <<multi, proc>>
  BY <1>3 DEF ServerStep, Look, Probe, Set, Refuse
<1>4. ASSUME NEW t \in Tasks, Enter(t) \/ Cancel(t) \/ TaskStep(t)
      PROVE  UNCHANGED <<multi, proc>>
  BY <1>4 DEF Enter, Cancel, TaskStep, Get, Inside, Pass, Retry, Leave, Abandon, Release, Done
<1> QED
  BY <1>1, <1>2, <1>3, <1>4 DEF Next, vars

LEMMA PidsStep == ASSUME TypeOK, PidsApart, [Next]_vars PROVE PidsApart'
<1>1. \A p \in Procs : proc'[p] = "up" => proc[p] = "up" \/ Start(p)
  BY ProcsStep
<1>2. ASSUME NEW p \in Procs, Start(p) PROVE PidsApart'
  BY <1>2 DEF Start, PidsApart, TypeOK
<1>3. CASE \A p \in Procs : ~Start(p)
  BY <1>1, <1>3 DEF PidsApart
<1> QED
  BY <1>2, <1>3

LEMMA AloneStep ==
  ASSUME LocksAssumption, TypeOK, TasksFit, CallsFit, Alone, [Next]_vars
  PROVE  Alone'
<1> SUFFICES ASSUME ~multi PROVE Alone'
  BY ProcsStep DEF Alone
<1> USE DEF TypeOK, LocksAssumption, Alone, locals, gates
<1>1. ASSUME NEW p \in Procs, Start(p) \/ Kill(p) PROVE Alone'
  BY <1>1 DEF Start, Kill
<1>2. ASSUME NEW p \in Procs PROVE ~ServerStep(p)
  BY DEF ServerStep, Look, Probe, Set, Idle
<1>3. ASSUME NEW t \in Tasks, Enter(t) \/ Cancel(t) \/ TaskStep(t)
      PROVE  /\ UNCHANGED <<multi, proc, holders, call>>
             /\ \/ pc' = pc
                \/ \E l \in {"idle", "get", "gate", "inside", "leave"} :
                       pc' = [pc EXCEPT ![t] = l]
  <2>1. ~Retry(t)
    BY DEF Retry
  <2> QED
    BY <1>3, <2>1 DEF Enter, Cancel, TaskStep, Get, Inside, Pass, Entered, Leave, Abandon,
       Release, Done
<1> QED
  BY <1>1, <1>2, <1>3 DEF Next, vars

-----------------------------------------------------------------------------
(* Records and requests.                                                   *)

\* A named record stays named: a process that has been started never starts again.
LEMMA NamedStep ==
  ASSUME LocksAssumption, TypeOK, [Next]_vars, NEW r \in Records, Named(r)
  PROVE  /\ Named(r)'
         /\ ~Live(r.lease[1]) => ~Live(r.lease[1])'
<1>1. r.lease[1] \in Tasks
  BY Shapes
<1>2. ProcOf[r.lease[1]] \in Procs
  BY <1>1 DEF LocksAssumption
<1>3. ~Start(ProcOf[r.lease[1]])
  BY DEF Named, Start
<1> QED
  BY <1>1, <1>2, <1>3, ProcsStep DEF Named, Live

\* A slot of the table changes when a request is granted, or when the lease it
\* holds is returned.
LEMMA HoldersStep ==
  ASSUME LocksAssumption, TypeOK, [Next]_vars, NEW k \in Keys, holders'[k] # holders[k]
  PROVE  \/ \E p \in Procs :
               /\ Set(p) /\ call[p].key = k /\ Unchanged(holders[k], call[p].snap)
               /\ holders'[k] = [pid |-> PidOf[p], lease |-> call[p].lease,
                                 start |-> call[p].start]
         \/ \E t \in Tasks :
               /\ Release(t) /\ k \in held[t] /\ k \notin held'[t] /\ holders'[k] = Free
               /\ holders[k].lease = Lease(t)
<1> USE DEF TypeOK
<1>1. ASSUME UNCHANGED holders PROVE FALSE
  BY <1>1
<1>2. ASSUME NEW p \in Procs, Start(p) \/ Kill(p) \/ Look(p) \/ Probe(p) PROVE FALSE
  BY <1>1, <1>2 DEF Start, Kill, Look, Probe, Refuse
<1>3. ASSUME NEW p \in Procs, Set(p)
      PROVE  /\ call[p].key = k /\ Unchanged(holders[k], call[p].snap)
             /\ holders'[k] = [pid |-> PidOf[p], lease |-> call[p].lease,
                               start |-> call[p].start]
  BY <1>3 DEF Set, Refuse
<1>4. ASSUME NEW t \in Tasks, Enter(t) \/ Cancel(t) \/ TaskStep(t), ~Release(t) PROVE FALSE
  BY <1>1, <1>4 DEF Enter, Cancel, TaskStep, Get, Inside, Pass, Retry, Leave, Abandon, Done
<1>5. ASSUME NEW t \in Tasks, Release(t)
      PROVE  /\ k \in held[t] /\ k \notin held'[t]
             /\ holders'[k] = Free /\ holders[k].lease = Lease(t)
  BY <1>5 DEF Release, Returned
<1> QED
  BY <1>1, <1>2, <1>3, <1>4, <1>5 DEF Next, TaskStep, ServerStep, vars

LEMMA RecordsStep ==
  ASSUME LocksAssumption, TypeOK, TypeOK', RecordsNamed, CallsFit, [Next]_vars
  PROVE  RecordsNamed'
<1> SUFFICES ASSUME NEW k \in Keys, holders'[k] # Free PROVE Named(holders[k])'
  BY DEF RecordsNamed
<1>1. CASE holders'[k] = holders[k]
  <2>1. holders[k] \in Records /\ Named(holders[k])
    BY <1>1 DEF TypeOK, RecordsNamed
  <2> QED
    BY <1>1, <2>1, NamedStep
<1>2. CASE holders'[k] # holders[k]
  <2>1. PICK p \in Procs :
            /\ Set(p)
            /\ holders'[k] = [pid |-> PidOf[p], lease |-> call[p].lease,
                              start |-> call[p].start]
    BY <1>2, HoldersStep
  <2>2. call[p] # Idle /\ call[p].stage = "set"
    BY <2>1 DEF Set, Idle
  <2>3. /\ ProcOf[call[p].task] = p /\ proc[p] # "new"
        /\ call[p].lease[1] = call[p].task
        /\ proc[p] = "up" => call[p].start = p
    BY <2>2 DEF CallsFit
  <2>4. UNCHANGED proc
    BY <2>1 DEF Set, Refuse
  <2>5. /\ holders'[k].lease = call[p].lease /\ holders'[k].pid = PidOf[p]
        /\ holders'[k].start = call[p].start
    BY <2>1
  <2> QED
    BY <2>3, <2>4, <2>5 DEF Named, Live
<1> QED
  BY <1>1, <1>2

\* The process that lives has its pid alone.
LEMMA OwnPid ==
  ASSUME LocksAssumption, PidsApart, NEW p \in Procs, proc[p] = "up"
  PROVE  WhoHas(PidOf[p]) = p
BY Owner DEF PidsApart, LocksAssumption

\* What is found dead does not live.
LEMMA DeadIsDead ==
  ASSUME LocksAssumption, PidsApart, NEW r \in Records, Named(r), HolderDead(r)
  PROVE  ~Live(r.lease[1])
<1> SUFFICES ASSUME Live(r.lease[1]) PROVE FALSE
  OBVIOUS
<1> DEFINE q == ProcOf[r.lease[1]]
<1>1. q \in Procs /\ proc[q] = "up" /\ r.pid = PidOf[q] /\ r.start = q
  BY Shapes DEF Named, Live, LocksAssumption
<1>2. WhoHas(r.pid) = q
  BY <1>1, OwnPid
<1> QED
  BY <1>1, <1>2 DEF HolderDead, LocksAssumption

\* A process whose request does not change, while processes start and die.
LEMMA CallsStep ==
  ASSUME LocksAssumption, TypeOK, TasksFit, PidsApart, RecordsNamed, CallsFit, [Next]_vars
  PROVE  CallsFit'
<1> DEFINE
      Fits(p) ==
        call[p] # Idle =>
          /\ ProcOf[call[p].task] = p /\ proc[p] # "new"
          /\ call[p].lease[1] = call[p].task
          /\ proc[p] = "up" =>
                 /\ pc[call[p].task] = "call" /\ cur[call[p].task] = call[p].key
                 /\ call[p].lease = Lease(call[p].task)
          /\ call[p].snap # Free => Named(call[p].snap)
          /\ call[p].stage = "set" =>
                 /\ proc[p] = "up" => call[p].start = p
                 /\ call[p].snap # Free => ~Live(call[p].snap.lease[1])
<1>0. CallsFit => \A p \in Procs : Fits(p)
  BY DEF CallsFit
<1>00. (\A p \in Procs : Fits(p))' => CallsFit'
  BY DEF CallsFit
<1> USE DEF TypeOK, LocksAssumption, locals, gates
\* The snapshot of a request, and whether its record has been found dead.
<1>1. ASSUME NEW p \in Procs, call[p] # Idle, call[p].snap # Free,
             call'[p].snap = call[p].snap
      PROVE  /\ Named(call[p].snap)'
             /\ ~Live(call[p].snap.lease[1]) => ~Live(call[p].snap.lease[1])'
  <2>1. PICK r \in Records : r = call[p].snap /\ Named(r)
    BY <1>1, Shapes DEF CallsFit
  <2>2. Named(r)' /\ (~Live(r.lease[1]) => ~Live(r.lease[1])')
    BY <2>1, NamedStep
  <2> QED
    BY <1>1, <2>1, <2>2 DEF Named, Live
\* A request stays when its task does, and its process if it lives.
<1>2. ASSUME NEW p \in Procs, call'[p] = call[p],
             proc'[p] = "up" => \A t \in Tasks : ProcOf[t] = p =>
                 pc'[t] = pc[t] /\ cur'[t] = cur[t] /\ enters'[t] = enters[t]
      PROVE  Fits(p)'
  <2> SUFFICES ASSUME call[p] # Idle PROVE Fits(p)'
    BY <1>2
  <2>1. call[p].task \in Tasks /\ Fits(p)
    BY <1>0, Shapes
  <2>2. proc'[p] # "new" /\ (proc'[p] = "up" => proc[p] = "up")
    <3>1. ~Start(p)
      BY <2>1 DEF Start
    <3> QED
      BY <2>1, <3>1, ProcsStep
  <2> QED
    BY <1>1, <1>2, <2>1, <2>2 DEF Lease
<1>3. ASSUME NEW p \in Procs, Start(p) \/ Kill(p) PROVE CallsFit'
  <2>1. ASSUME NEW q \in Procs PROVE Fits(q)'
    BY <1>2, <1>3 DEF Start, Kill
  <2> QED
    BY <1>00, <2>1
<1>4. ASSUME NEW p \in Procs, ServerStep(p), NEW q \in Procs, q # p PROVE Fits(q)'
  <2>1. call[p] # Idle
    BY <1>4 DEF ServerStep, Look, Probe, Set, Idle
  <2>2. ProcOf[call[p].task] = p /\ call[p].task \in Tasks
    BY <2>1, Shapes DEF CallsFit
  <2>3. call'[q] = call[q]
    BY <1>4 DEF ServerStep, Look, Probe, Set, Refuse, Step
  <2>4. ASSUME NEW t \in Tasks, ProcOf[t] = q
        PROVE  pc'[t] = pc[t] /\ cur'[t] = cur[t] /\ enters'[t] = enters[t]
    BY <1>4, <2>2, <2>4 DEF ServerStep, Look, Probe, Set, Refuse, Entered
  <2> QED
    BY <1>2, <2>3, <2>4
<1>5. ASSUME NEW p \in Procs, Look(p) PROVE Fits(p)'
  <2>1. call[p] # Idle /\ call[p] \in Calls
    BY <1>5 DEF Look, Idle
  <2>2. Fits(p) /\ call[p].key \in Keys
    BY <1>0, <2>1, Shapes
  <2>3. /\ call'[p] = [call[p] EXCEPT !.stage = "probe", !.snap = holders[call[p].key]]
        /\ UNCHANGED <<proc, pc, cur, enters>>
    BY <1>5 DEF Look, Step
  <2>4. /\ call'[p].task = call[p].task /\ call'[p].key = call[p].key
        /\ call'[p].lease = call[p].lease /\ call'[p].stage = "probe"
        /\ call'[p].snap = holders[call[p].key]
    BY <2>1, <2>3 DEF Calls
  <2>5. call'[p].snap # Free => Named(call'[p].snap)
    BY <2>2, <2>4 DEF RecordsNamed
  <2> QED
    BY <2>1, <2>2, <2>3, <2>4, <2>5 DEF Lease, Named, Live
<1>6. ASSUME NEW p \in Procs, Refuse(p) \/ Set(p) PROVE Fits(p)'
  BY <1>6 DEF Refuse, Set, Step
<1>7. ASSUME NEW p \in Procs, Probe(p) PROVE Fits(p)'
  <2>1. call[p] # Idle /\ call[p] \in Calls
    BY <1>7 DEF Probe, Idle
  <2>2. Fits(p)
    BY <1>0, <2>1
  <2>3. CASE call[p].snap = Free \/ HolderDead(call[p].snap)
    <3>1. /\ call'[p] = [call[p] EXCEPT !.stage = "set", !.start = WhoHas(PidOf[p])]
          /\ UNCHANGED <<proc, pc, cur, enters>>
      BY <1>7, <2>3 DEF Probe, Step
    <3>2. /\ call'[p].task = call[p].task /\ call'[p].key = call[p].key
          /\ call'[p].lease = call[p].lease /\ call'[p].stage = "set"
          /\ call'[p].snap = call[p].snap /\ call'[p].start = WhoHas(PidOf[p])
      BY <2>1, <3>1 DEF Calls
    <3>3. proc[p] = "up" => call'[p].start = p
      BY <3>2, OwnPid
    <3>4. call[p].snap # Free => ~Live(call[p].snap.lease[1])
      BY <2>1, <2>2, <2>3, DeadIsDead, Shapes
    <3> QED
      BY <2>1, <2>2, <3>1, <3>2, <3>3, <3>4 DEF Lease, Named, Live
  <2>4. CASE ~(call[p].snap = Free \/ HolderDead(call[p].snap))
    BY <1>6, <1>7, <2>4 DEF Probe
  <2> QED
    BY <2>3, <2>4
<1>8. ASSUME NEW t \in Tasks, Enter(t) \/ Cancel(t) \/ TaskStep(t), NEW q \in Procs
      PROVE  Fits(q)'
  <2>1. call[ProcOf[t]] = Idle /\ proc[ProcOf[t]] = "up" /\ ProcOf[t] \in Procs
    BY <1>8 DEF Enter, Cancel, TaskStep, Get, Inside, Pass, Retry, Leave, Abandon, Release,
       Done, Awake, Live
  <2>2. CASE call' = call
    <3>1. CASE q = ProcOf[t]
      BY <2>1, <2>2, <3>1
    <3>2. CASE q # ProcOf[t]
      <4>1. ASSUME NEW u \in Tasks, u # t
            PROVE  pc'[u] = pc[u] /\ cur'[u] = cur[u] /\ enters'[u] = enters[u]
        BY <1>8, <4>1 DEF Enter, Cancel, TaskStep, Get, Inside, Pass, Retry, Request, Entered,
           Leave, Abandon, Release, Done
      <4> QED
        BY <1>2, <2>2, <3>2, <4>1
    <3> QED
      BY <3>1, <3>2
  <2>3. CASE call' # call
    <3>1. /\ Request(t) /\ cur[t] # None
          /\ UNCHANGED <<proc, cur, enters>>
      BY <1>8, <2>3 DEF Enter, Cancel, TaskStep, Get, Inside, Pass, Retry, Leave, Abandon,
         Release, Done, TasksFit
    <3>2. CASE q = ProcOf[t]
      <4>1. call'[q] = [stage |-> "look", task |-> t, key |-> cur[t], lease |-> Lease(t),
                        snap |-> Free, start |-> None]
        BY <3>1, <3>2 DEF Request
      <4>2. /\ call'[q].stage = "look" /\ call'[q].task = t /\ call'[q].key = cur[t]
            /\ call'[q].lease = Lease(t) /\ call'[q].snap = Free
        BY <4>1
      <4>3. pc'[t] = "call"
        BY <3>1 DEF Request
      <4> QED
        BY <2>1, <3>1, <3>2, <4>2, <4>3 DEF Lease
    <3>3. CASE q # ProcOf[t]
      <4>1. /\ call'[q] = call[q]
            /\ \A u \in Tasks : u # t => pc'[u] = pc[u]
        BY <3>1, <3>3 DEF Request
      <4> QED
        BY <1>2, <3>1, <3>3, <4>1
    <3> QED
      BY <3>2, <3>3
  <2> QED
    BY <2>2, <2>3
<1>9. ASSUME UNCHANGED vars PROVE CallsFit'
  <2>1. ASSUME NEW q \in Procs PROVE Fits(q)'
    BY <1>2, <1>9 DEF vars
  <2> QED
    BY <1>00, <2>1
<1> HIDE DEF Fits
<1>10. ASSUME NEW p \in Procs, ServerStep(p) PROVE CallsFit'
  <2>1. Fits(p)'
    BY <1>5, <1>6, <1>7, <1>10 DEF ServerStep
  <2> QED
    BY <1>00, <1>4, <1>10, <2>1
<1>11. ASSUME NEW t \in Tasks, Enter(t) \/ Cancel(t) \/ TaskStep(t) PROVE CallsFit'
  BY <1>00, <1>8, <1>11
<1> QED
  BY <1>3, <1>9, <1>10, <1>11 DEF Next

-----------------------------------------------------------------------------
(* Keys and leases.                                                        *)

\* A key is entered with its lease or, in the only process, with its lock.
LEMMA HeldStep ==
  ASSUME LocksAssumption, TypeOK, CallsFit, [Next]_vars,
         NEW t \in Tasks, NEW k \in Keys, k \notin held[t], k \in held'[t]
  PROVE  \/ ~multi /\ Pass(t)
         \/ \E p \in Procs :
               /\ Set(p) /\ call[p] # Idle /\ call[p].task = t /\ call[p].key = k
               /\ holders'[k] = [pid |-> PidOf[p], lease |-> call[p].lease,
                                 start |-> call[p].start]
<1> USE DEF TypeOK, locals
<1>1. ASSUME held' = held PROVE FALSE
  BY <1>1
<1>2. ASSUME NEW p \in Procs, Start(p) \/ Kill(p) \/ Look(p) \/ Probe(p) PROVE FALSE
  BY <1>1, <1>2 DEF Start, Kill, Look, Probe, Refuse
<1>3. ASSUME NEW p \in Procs, Set(p)
      PROVE  /\ call[p] # Idle /\ call[p].task = t /\ call[p].key = k
             /\ holders'[k] = [pid |-> PidOf[p], lease |-> call[p].lease,
                               start |-> call[p].start]
  <2>1. call[p] # Idle
    BY <1>3 DEF Set, Idle
  <2>2. /\ holders' = [holders EXCEPT ![call[p].key] =
                         [pid |-> PidOf[p], lease |-> call[p].lease, start |-> call[p].start]]
        /\ Live(call[p].task) /\ Entered(call[p].task)
    BY <1>1, <1>3 DEF Set, Refuse
  <2>3. call[p].task = t /\ cur[t] = k
    BY <2>2 DEF Entered
  <2>4. call[p].key = k
    BY <2>1, <2>2, <2>3 DEF CallsFit, Live
  <2> QED
    BY <2>1, <2>2, <2>3, <2>4
<1>4. ASSUME NEW u \in Tasks, Enter(u) \/ Cancel(u) \/ TaskStep(u), ~Pass(u), ~Release(u)
      PROVE  FALSE
  BY <1>1, <1>4 DEF Enter, Cancel, TaskStep, Get, Inside, Retry, Leave, Abandon, Done
<1>5. ASSUME NEW u \in Tasks, Release(u) PROVE FALSE
  BY <1>5 DEF Release
<1>6. ASSUME NEW u \in Tasks, Pass(u) PROVE ~multi /\ u = t
  BY <1>6 DEF Pass, Entered
<1> QED
  BY <1>1, <1>2, <1>3, <1>4, <1>5, <1>6 DEF Next, ServerStep, vars

\* Entering a key takes none away.
LEMMA EnteredKeeps ==
  ASSUME ListTypes, NEW u, Entered(u), NEW t \in Tasks, NEW k \in held[t] PROVE k \in held'[t]
<1>1. held' = [held EXCEPT ![u] = @ \cup {cur[u]}]
  BY DEF Entered
<1>2. CASE u = t
  BY <1>1, <1>2 DEF ListTypes
<1>3. CASE u # t
  BY <1>1, <1>3 DEF ListTypes
<1> QED
  BY <1>2, <1>3

\* A key is given back by Release, with the lease if that is still the task's.
LEMMA GivenBack ==
  ASSUME ListTypes, ServerTypes, [Next]_vars, NEW t \in Tasks, NEW k \in Keys, k \in held[t],
         k \notin held'[t]
  PROVE  Release(t) /\ (multi => holders'[k] = Returned(t, k))
<1> USE DEF locals
<1>1. ASSUME held' = held \/ \E u : Entered(u) PROVE FALSE
  BY <1>1, EnteredKeeps
<1>2. ASSUME NEW p \in Procs, Start(p) \/ Kill(p) \/ Look(p) \/ Probe(p) PROVE FALSE
  BY <1>1, <1>2 DEF Start, Kill, Look, Probe, Refuse
<1>3. ASSUME NEW p \in Procs, Set(p) PROVE FALSE
  BY <1>1, <1>3 DEF Set, Refuse
<1>4. ASSUME NEW u \in Tasks, Enter(u) \/ Cancel(u) \/ TaskStep(u), ~Release(u) PROVE FALSE
  <2>1. held' = held \/ Entered(u)
    BY <1>4 DEF Enter, Cancel, TaskStep, Get, Inside, Pass, Retry, Leave, Abandon, Done
  <2> QED
    BY <1>1, <2>1
<1>5. ASSUME NEW u \in Tasks, Release(u)
      PROVE  Release(t) /\ (multi => holders'[k] = Returned(t, k))
  <2>1. PICK l \in held[u] :
            /\ held' = [held EXCEPT ![u] = @ \ {l}]
            /\ holders' = IF multi THEN [holders EXCEPT ![l] = Returned(u, l)] ELSE holders
    BY <1>5 DEF Release
  <2>2. u = t /\ l = k
    BY <2>1 DEF ListTypes
  <2>3. multi => holders'[k] = Returned(t, k)
    BY <2>1, <2>2 DEF ServerTypes
  <2> QED
    BY <1>5, <2>2, <2>3
<1> QED
  BY <1>1, <1>2, <1>3, <1>4, <1>5 DEF Next, ServerStep, vars

\* A task that holds a key keeps the number of its lease, and one that begins to
\* live holds none.
LEMMA LeaseStays ==
  ASSUME LocksAssumption, TypeOK, TasksFit, [Next]_vars, NEW t \in Tasks
  PROVE  /\ held[t] # {} => Lease(t)' = Lease(t)
         /\ Live(t)' /\ ~Live(t) => held[t] = {} /\ held'[t] = {}
<1>1. held[t] # {} => Lease(t)' = Lease(t)
  <2>1. ASSUME NEW u \in Tasks, Enter(u), held[t] # {} PROVE enters'[t] = enters[t]
    BY <2>1 DEF Enter, TasksFit, TypeOK
  <2>2. held[t] # {} => enters'[t] = enters[t]
    <3>1. CASE \E u \in Tasks : Enter(u)
      BY <2>1, <3>1
    <3>2. CASE \A u \in Tasks : ~Enter(u)
      <4>1. enters' = enters
        BY <3>2 DEF Next, vars, locals, Start, Kill, ServerStep, Look, Probe, Set, Refuse,
           Cancel, TaskStep, Get, Inside, Pass, Retry, Leave, Abandon, Release, Done
      <4> QED
        BY <4>1
    <3> QED
      BY <3>1, <3>2
  <2> QED
    BY <2>2 DEF Lease
<1>2. ASSUME Live(t)', ~Live(t) PROVE held[t] = {} /\ held'[t] = {}
  <2>1. ProcOf[t] \in Procs /\ Start(ProcOf[t])
    BY <1>2, ProcsStep DEF Live, LocksAssumption
  <2> QED
    BY <2>1 DEF Start, TasksFit, locals
<1> QED
  BY <1>1, <1>2

LEMMA LeasesStep ==
  ASSUME LocksAssumption, TypeOK, TasksFit, CallsFit, LeasesHeld, [Next]_vars
  PROVE  LeasesHeld'
<1> SUFFICES ASSUME multi, NEW t \in Tasks, NEW k \in Keys, Live(t)', k \in held'[t]
             PROVE  holders'[k] # Free /\ holders'[k].lease = Lease(t)'
  BY ProcsStep DEF LeasesHeld, Holds
<1>1. Live(t)
  BY LeaseStays
<1>2. CASE k \in held[t]
  <2>1. holders[k] # Free /\ holders[k].lease = Lease(t) /\ Lease(t)' = Lease(t)
    BY <1>1, <1>2, LeaseStays DEF LeasesHeld, Holds
  <2>2. ASSUME NEW p \in Procs, Set(p), Unchanged(holders[k], call[p].snap) PROVE FALSE
    <3>1. call[p] # Idle /\ call[p].stage = "set"
      BY <2>2 DEF Set, Idle
    <3>2. call[p].snap # Free /\ call[p].snap.lease = Lease(t)
      BY <2>1, <2>2 DEF Unchanged
    <3>3. call[p].snap.lease[1] = t
      BY <3>2 DEF Lease
    <3> QED
      BY <1>1, <3>1, <3>2, <3>3 DEF CallsFit
  <2>3. ASSUME NEW u \in Tasks, k \notin held'[u], holders[k].lease = Lease(u) PROVE FALSE
    BY <2>1, <2>3 DEF Lease
  <2> QED
    BY <2>1, <2>2, <2>3, HoldersStep
<1>3. CASE k \notin held[t]
  <2>1. PICK p \in Procs :
            /\ Set(p) /\ call[p] # Idle /\ call[p].task = t
            /\ holders'[k] = [pid |-> PidOf[p], lease |-> call[p].lease,
                              start |-> call[p].start]
    BY <1>3, HeldStep
  <2>2. ProcOf[t] = p /\ call[p].lease = Lease(t)
    BY <1>1, <2>1 DEF CallsFit, Live
  <2>3. enters' = enters
    BY <2>1 DEF Set, Refuse, locals
  <2>4. holders'[k] # Free /\ holders'[k].lease = call[p].lease
    <3>1. call[p] \in Calls
      BY <2>1 DEF TypeOK
    <3>2. holders'[k] \in Records
      BY <2>1, <3>1 DEF Calls, Records
    <3> QED
      BY <2>1, <3>2, Shapes
  <2> QED
    BY <2>2, <2>3, <2>4 DEF Lease
<1> QED
  BY <1>2, <1>3

LEMMA NoLeakStep ==
  ASSUME LocksAssumption, TypeOK, TypeOK', TasksFit, Alone, CallsFit, RecordsNamed, NoLeak,
         [Next]_vars
  PROVE  NoLeak'
<1> SUFFICES ASSUME NEW k \in Keys, NEW t, holders'[k] # Free,
                    t = holders'[k].lease[1], Live(t)'
             PROVE  k \in held'[t] /\ holders'[k].lease = Lease(t)'
  BY DEF NoLeak, Live, Lease
<1>1. t \in Tasks
  BY Shapes DEF TypeOK
<1>2. CASE holders'[k] = holders[k]
  <2>1. proc[ProcOf[t]] # "new"
    BY <1>2 DEF RecordsNamed, Named
  <2>2. Live(t)
    BY <1>1, <2>1, ProcsStep DEF Live, LocksAssumption, Start
  <2>3. k \in held[t] /\ holders[k].lease = Lease(t)
    BY <1>2, <2>2 DEF NoLeak
  <2>4. Lease(t)' = Lease(t)
    BY <1>1, <2>3, LeaseStays
  <2>5. multi
    BY <1>2 DEF Alone
  <2>6. Returned(t, k) = Free
    BY <1>2, <2>3 DEF Returned
  <2>7. k \in held'[t]
    BY <1>1, <2>3, <2>5, <2>6, GivenBack, TypeParts
  <2> QED
    BY <1>2, <2>3, <2>4, <2>7
<1>3. CASE holders'[k] # holders[k]
  <2>1. PICK p \in Procs :
            /\ Set(p) /\ call[p].key = k /\ Unchanged(holders[k], call[p].snap)
            /\ holders'[k] = [pid |-> PidOf[p], lease |-> call[p].lease,
                              start |-> call[p].start]
    BY <1>3, HoldersStep
  <2>2. call[p] # Idle
    BY <2>1 DEF Set, Idle
  <2>3. ProcOf[t] = p /\ call[p].task = t /\ holders'[k].lease = call[p].lease
    BY <2>1, <2>2 DEF CallsFit
  <2>4. UNCHANGED <<proc, enters>>
    BY <2>1 DEF Set, Refuse, locals
  <2>5. Live(t)
    BY <2>4 DEF Live
  <2>6. cur[t] = k /\ call[p].lease = Lease(t)
    BY <2>1, <2>2, <2>3, <2>5 DEF CallsFit, Live
  <2>7. held' = [held EXCEPT ![t] = @ \cup {k}]
    BY <2>1, <2>3, <2>5, <2>6 DEF Set, Entered
  <2> QED
    BY <1>1, <2>3, <2>4, <2>6, <2>7 DEF Lease, TypeOK
<1> QED
  BY <1>2, <1>3

-----------------------------------------------------------------------------
(* The locks of a process.                                                 *)

\* Who waits behind a lock that is held has not got it.
LEMMA GatesStep ==
  ASSUME LocksAssumption, TypeOK, TasksFit, CallsFit, GatesHeld, GatesCounted, [Next]_vars
  PROVE  GatesHeld'
<1>a. PlaceTypes /\ ListTypes /\ GateTypes /\ ServerTypes
  BY TypeParts
<1>b. \A t \in Tasks : ProcOf[t] \in Procs
  BY DEF LocksAssumption
<1>c. None \notin Tasks \cup Keys
  BY DEF LocksAssumption
<1> USE DEF locals, gates
<1>1. ASSUME \A t \in Tasks :
                 /\ cur'[t] = cur[t] /\ held'[t] = held[t]
                 /\ pc'[t] = pc[t] \/ pc'[t] \notin {"call", "backoff"}
                    \/ pc[t] \in {"call", "backoff"},
             UNCHANGED <<gate, locked>>
      PROVE  GatesHeld'
  BY <1>1 DEF GatesHeld, Gated
<1>2. ASSUME NEW p \in Procs, Start(p) \/ Kill(p) \/ Look(p) PROVE GatesHeld'
  BY <1>1, <1>2 DEF Start, Kill, Look
<1>3. ASSUME NEW p \in Procs, call[p] # Idle, Refuse(p) PROVE GatesHeld'
  <2>1. Live(call[p].task) => pc[call[p].task] = "call"
    BY <1>3 DEF CallsFit, Live
  <2> QED
    BY <1>1, <1>3, <2>1 DEF Refuse
<1>4. ASSUME NEW p \in Procs, Probe(p) PROVE GatesHeld'
  BY <1>1, <1>3, <1>4 DEF Probe, Idle
<1>5. ASSUME NEW p \in Procs, Set(p) PROVE GatesHeld'
  <2>1. call[p] # Idle
    BY <1>5 DEF Set, Idle
  <2>2. /\ call[p].task \in Tasks /\ call[p].key \in Keys
        /\ Live(call[p].task) => /\ pc[call[p].task] = "call"
                                 /\ cur[call[p].task] = call[p].key
    BY <1>a, <2>1, Request1
  <2>3. CASE Refuse(p)
    BY <1>3, <2>1, <2>3
  <2>4. CASE ~Live(call[p].task) /\ UNCHANGED <<pc, cur, held, gate, locked>>
    BY <1>1, <2>4
  <2>5. CASE Live(call[p].task) /\ Entered(call[p].task) /\ UNCHANGED <<gate, locked>>
    <3>1. PICK t \in Tasks, k \in Keys :
              t = call[p].task /\ k = call[p].key /\ pc[t] = "call" /\ cur[t] = k
      BY <2>2, <2>5
    <3>2. /\ pc' = [pc EXCEPT ![t] = "get"] /\ cur' = [cur EXCEPT ![t] = None]
          /\ held' = [held EXCEPT ![t] = @ \cup {k}]
      BY <2>5, <3>1 DEF Entered
    <3>3. Gated(t, k) /\ \A l \in Keys : Gated(t, l)' => Gated(t, l)
      BY <1>a, <3>1, <3>2 DEF Gated, PlaceTypes, ListTypes
    <3>4. \A u \in Tasks, l \in Keys : Gated(u, l)' => Gated(u, l)
      BY <1>a, <3>2, <3>3 DEF Gated, PlaceTypes, ListTypes
    <3>5. \A u \in Tasks : pc'[u] \in {"call", "backoff"} => cur'[u] \notin held'[u]
      BY <1>a, <3>2 DEF GatesHeld, PlaceTypes, ListTypes
    <3> QED
      BY <2>5, <3>4, <3>5 DEF GatesHeld
  <2>6. Unchanged(holders[call[p].key], call[p].snap) =>
          /\ IF Live(call[p].task) THEN Entered(call[p].task) ELSE UNCHANGED <<pc, cur, held>>
          /\ UNCHANGED <<gate, locked>>
    BY <1>5 DEF Set
  <2>7. ~Unchanged(holders[call[p].key], call[p].snap) => Refuse(p)
    BY <1>5 DEF Set
  <2>8. CASE Unchanged(holders[call[p].key], call[p].snap)
    <3>1. CASE Live(call[p].task)
      BY <2>5, <2>6, <2>8, <3>1
    <3>2. CASE ~Live(call[p].task)
      <4>1. UNCHANGED <<pc, cur, held>> /\ UNCHANGED <<gate, locked>>
        BY <2>6, <2>8, <3>2
      <4> QED
        BY <2>4, <3>2, <4>1
    <3> QED
      BY <3>1, <3>2
  <2> QED
    BY <2>3, <2>7, <2>8
<1>6. ASSUME NEW t \in Tasks, Enter(t) \/ Inside(t) \/ Leave(t) \/ Done(t) PROVE GatesHeld'
  <2>1. /\ pc'[t] \notin {"call", "backoff"} /\ \A u \in Tasks \ {t} : pc'[u] = pc[u]
        /\ UNCHANGED <<cur, held, gate, locked>>
    BY <1>a, <1>6 DEF Enter, Inside, Leave, Done, PlaceTypes
  <2> QED
    BY <1>1, <2>1
<1>7. ASSUME NEW t \in Tasks, Get(t) PROVE GatesHeld'
  <2>1. PICK k \in Keys :
            /\ gate' = [gate EXCEPT ![t][k] =
                           IF registry[ProcOf[t]][k] = None THEN t ELSE registry[ProcOf[t]][k]]
            /\ cur' = [cur EXCEPT ![t] = k]
            /\ pc' = [pc EXCEPT ![t] = "gate"]
            /\ UNCHANGED <<held, locked>>
    BY <1>7 DEF Get
  <2>2. k \in held[t] => gate'[t][k] = gate[t][k]
    <3>1. ASSUME k \in held[t] PROVE gate'[t][k] = gate[t][k]
      <4>1. gate[t][k] = registry[ProcOf[t]][k] /\ registry[ProcOf[t]][k] # None
        BY <1>a, <3>1, Referenced
      <4> QED
        BY <1>a, <2>1, <4>1 DEF GateTypes
    <3> QED
      BY <3>1
  <2>3. ASSUME NEW u \in Tasks, NEW l \in Keys, Gated(u, l)'
        PROVE  Gated(u, l) /\ gate'[u][l] = gate[u][l]
    <3>1. Gated(u, l)
      BY <1>a, <2>1, <2>3 DEF Gated, PlaceTypes, ListTypes
    <3>2. CASE u = t /\ l = k
      <4>1. l \in held[t]
        BY <1>a, <2>1, <2>3, <3>2 DEF Gated, PlaceTypes
      <4> QED
        BY <2>2, <3>1, <3>2, <4>1
    <3>3. CASE u # t \/ l # k
      BY <1>a, <2>1, <3>1, <3>3 DEF GateTypes
    <3> QED
      BY <3>2, <3>3
  <2>4. \A u \in Tasks : pc'[u] \in {"call", "backoff"} => cur'[u] \notin held'[u]
    BY <1>a, <2>1 DEF GatesHeld, PlaceTypes, ListTypes
  <2> QED
    BY <2>1, <2>3, <2>4 DEF GatesHeld
<1>8. ASSUME NEW t \in Tasks, Pass(t) PROVE GatesHeld'
  <2>1. /\ cur[t] \in Keys /\ pc[t] = "gate" /\ gate[t][cur[t]] \in Tasks
        /\ locked[gate[t][cur[t]]][cur[t]] = None
        /\ locked' = [locked EXCEPT ![gate[t][cur[t]]][cur[t]] = t]
        /\ gate' = gate
    <3>1. cur[t] \in Keys /\ pc[t] = "gate"
      BY <1>a, <1>8 DEF Pass, TasksFit, ListTypes
    <3>2. gate[t][cur[t]] \in Tasks
      BY <1>a, <3>1, Referenced
    <3> QED
      BY <1>8, <3>1, <3>2 DEF Pass
  <2>2. cur[t] \notin held[t]
    BY <2>1 DEF GatesHeld, Gated
  <2>5. ASSUME NEW u \in Tasks, NEW l \in Keys, Gated(u, l) \/ (u = t /\ l = cur[t])
        PROVE  locked'[gate'[u][l]][l] = u
    <3>1. CASE u = t /\ l = cur[t]
      BY <1>a, <2>1, <3>1 DEF GateTypes
    <3>2. CASE Gated(u, l)
      <4>1. locked[gate[u][l]][l] = u
        BY <3>2 DEF GatesHeld
      <4>2. l # cur[t] \/ gate[u][l] # gate[t][cur[t]]
        BY <2>1, <4>1, <1>c
      <4> QED
        BY <1>a, <2>1, <4>1, <4>2 DEF GateTypes
    <3> QED
      BY <2>5, <3>1, <3>2
  <2>3. CASE multi
    <3>1. pc' = [pc EXCEPT ![t] = "call"] /\ UNCHANGED <<cur, held>>
      BY <1>8, <2>3 DEF Pass, Request
    <3>2. ASSUME NEW u \in Tasks, NEW l \in Keys, Gated(u, l)'
          PROVE  Gated(u, l) \/ (u = t /\ l = cur[t])
      BY <1>a, <3>1, <3>2 DEF Gated, PlaceTypes
    <3>3. \A u \in Tasks : pc'[u] \in {"call", "backoff"} => cur'[u] \notin held'[u]
      BY <1>a, <2>2, <3>1 DEF GatesHeld, PlaceTypes
    <3> QED
      BY <2>5, <3>2, <3>3 DEF GatesHeld
  <2>4. CASE ~multi
    <3>1. /\ pc' = [pc EXCEPT ![t] = "get"] /\ cur' = [cur EXCEPT ![t] = None]
          /\ held' = [held EXCEPT ![t] = @ \cup {cur[t]}]
      BY <1>8, <2>4 DEF Pass, Entered
    <3>2. ASSUME NEW u \in Tasks, NEW l \in Keys, Gated(u, l)'
          PROVE  Gated(u, l) \/ (u = t /\ l = cur[t])
      BY <1>a, <3>1, <3>2 DEF Gated, PlaceTypes, ListTypes
    <3>3. \A u \in Tasks : pc'[u] \in {"call", "backoff"} => cur'[u] \notin held'[u]
      BY <1>a, <3>1 DEF GatesHeld, PlaceTypes, ListTypes
    <3> QED
      BY <2>5, <3>2, <3>3 DEF GatesHeld
  <2> QED
    BY <2>3, <2>4
<1>9. ASSUME NEW t \in Tasks, Retry(t) PROVE GatesHeld'
  BY <1>1, <1>9 DEF Retry, Request
<1>10. ASSUME NEW t \in Tasks, Cancel(t) PROVE GatesHeld'
  <2>1. /\ cur[t] \in Keys /\ gate[t][cur[t]] \in Tasks
        /\ pc' = [pc EXCEPT ![t] = "leave"]
        /\ UNCHANGED <<cur, held, gate>>
    <3>1. cur[t] \in Keys
      BY <1>a, <1>10 DEF Cancel, TasksFit, ListTypes
    <3>2. gate[t][cur[t]] \in Tasks
      BY <1>a, <3>1, Referenced
    <3> QED
      BY <1>10, <3>1, <3>2 DEF Cancel
  <2>2. CASE pc[t] = "backoff"
    <3>1. /\ cur[t] \notin held[t]
          /\ locked' = [locked EXCEPT ![gate[t][cur[t]]][cur[t]] = None]
          /\ locked[gate[t][cur[t]]][cur[t]] = t
      BY <1>10, <2>1, <2>2 DEF Cancel, GatesHeld, Gated
    <3>2. ASSUME NEW u \in Tasks, u # t, NEW k \in Keys, Gated(u, k)
          PROVE  locked'[gate[u][k]][k] = u
      <4>1. locked[gate[u][k]][k] = u
        BY <3>2 DEF GatesHeld
      <4> QED
        BY <2>1, <3>1, <3>2, <4>1
    <3>3. ASSUME NEW k \in held[t] PROVE locked'[gate[t][k]][k] = t
      <4>1. k \in Keys
        BY <1>a DEF ListTypes
      <4>2. locked[gate[t][k]][k] = t /\ k # cur[t]
        BY <3>1, <4>1 DEF GatesHeld, Gated
      <4> QED
        BY <1>a, <2>1, <3>1, <4>1, <4>2 DEF GateTypes
    <3>4. \A k \in Keys : Gated(t, k)' => k \in held[t]
      BY <1>a, <2>1 DEF Gated, PlaceTypes
    <3>5. \A u \in Tasks, k \in Keys : Gated(u, k)' => Gated(u, k)
      BY <1>a, <2>1 DEF Gated, PlaceTypes
    <3>6. \A u \in Tasks : pc'[u] \in {"call", "backoff"} => cur'[u] \notin held'[u]
      BY <1>a, <2>1 DEF GatesHeld, PlaceTypes
    <3>7. ASSUME NEW u \in Tasks, NEW k \in Keys, Gated(u, k)'
          PROVE  locked'[gate'[u][k]][k] = u
      <4>1. CASE u = t
        BY <2>1, <3>3, <3>4, <3>7, <4>1
      <4>2. CASE u # t
        BY <2>1, <3>2, <3>5, <3>7, <4>2
      <4> QED
        BY <4>1, <4>2
    <3> QED
      BY <3>6, <3>7 DEF GatesHeld
  <2>3. CASE pc[t] # "backoff"
    BY <1>1, <1>10, <2>3 DEF Cancel
  <2> QED
    BY <2>2, <2>3
<1>11. ASSUME NEW t \in Tasks, Abandon(t) PROVE GatesHeld'
  <2>1. /\ cur[t] \in Keys /\ pc[t] = "leave"
        /\ gate' = IF cur[t] \in held[t] THEN gate ELSE [gate EXCEPT ![t][cur[t]] = None]
        /\ cur' = [cur EXCEPT ![t] = None]
        /\ UNCHANGED <<pc, held, locked>>
    BY <1>a, <1>11 DEF Abandon, ListTypes
  <2>2. ASSUME NEW u \in Tasks, NEW l \in Keys, Gated(u, l)'
        PROVE  Gated(u, l) /\ gate'[u][l] = gate[u][l]
    BY <1>a, <2>1, <2>2 DEF Gated, PlaceTypes, ListTypes, GateTypes
  <2>3. \A u \in Tasks : pc'[u] \in {"call", "backoff"} => cur'[u] \notin held'[u]
    BY <1>a, <2>1 DEF GatesHeld, PlaceTypes, ListTypes
  <2> QED
    BY <2>1, <2>2, <2>3 DEF GatesHeld
<1>12. ASSUME NEW t \in Tasks, Release(t) PROVE GatesHeld'
  <2>1. PICK k \in held[t] :
            /\ pc[t] = "leave" /\ cur[t] = None
            /\ locked' = [locked EXCEPT ![gate[t][k]][k] = None]
            /\ gate' = [gate EXCEPT ![t][k] = None]
            /\ held' = [held EXCEPT ![t] = @ \ {k}]
            /\ UNCHANGED <<pc, cur>>
    BY <1>12 DEF Release
  <2>2. k \in Keys /\ gate[t][k] \in Tasks /\ locked[gate[t][k]][k] = t
    <3>1. k \in Keys
      BY <1>a DEF ListTypes
    <3>2. gate[t][k] \in Tasks
      BY <1>a, <3>1, Referenced
    <3> QED
      BY <3>1, <3>2 DEF GatesHeld, Gated
  <2>3. ASSUME NEW u \in Tasks, NEW l \in Keys, Gated(u, l)'
        PROVE  locked'[gate'[u][l]][l] = u
    <3>1. Gated(u, l) /\ (u # t \/ l # k)
      BY <1>a, <2>1, <2>2, <2>3 DEF Gated, PlaceTypes, ListTypes
    <3>2. locked[gate[u][l]][l] = u /\ gate'[u][l] = gate[u][l]
      BY <1>a, <2>1, <2>2, <3>1 DEF GatesHeld, GateTypes
    <3>3. l # k \/ gate[u][l] # gate[t][k]
      BY <2>2, <3>1, <3>2
    <3> QED
      BY <1>a, <2>1, <2>2, <3>2, <3>3 DEF GateTypes
  <2>4. \A u \in Tasks : pc'[u] \in {"call", "backoff"} => cur'[u] \notin held'[u]
    BY <1>a, <2>1 DEF GatesHeld, PlaceTypes, ListTypes
  <2> QED
    BY <2>3, <2>4 DEF GatesHeld
<1>13. ASSUME UNCHANGED vars PROVE GatesHeld'
  BY <1>1, <1>13 DEF vars
<1> QED
  BY <1>2, <1>4, <1>5, <1>6, <1>7, <1>8, <1>9, <1>10, <1>11, <1>12, <1>13
     DEF Next, TaskStep, ServerStep

\* A step that concerns one key of one process, and one task of it.
LEMMA OneKey ==
  ASSUME LocksAssumption, TypeOK, GatesCounted,
         NEW t \in Tasks, NEW k \in Keys,
         \A u \in Tasks, l \in Keys : u # t \/ l # k =>
             /\ l \in held'[u] <=> l \in held[u]
             /\ cur'[u] = l <=> cur[u] = l
             /\ gate'[u][l] = gate[u][l],
         \A p \in Procs, l \in Keys : p # ProcOf[t] \/ l # k =>
             refs'[p][l] = refs[p][l] /\ registry'[p][l] = registry[p][l],
         refs'[ProcOf[t]][k] = Cardinality(References(ProcOf[t], k)'),
         refs'[ProcOf[t]][k] = 0 <=> registry'[ProcOf[t]][k] = None,
         \A u \in Tasks : ProcOf[u] = ProcOf[t] /\ (k \in held'[u] \/ cur'[u] = k) =>
             gate'[u][k] = registry'[ProcOf[t]][k]
  PROVE  GatesCounted'
<1> SUFFICES ASSUME NEW p \in Procs, NEW l \in Keys, p # ProcOf[t] \/ l # k
             PROVE  /\ refs'[p][l] = Cardinality(References(p, l)')
                    /\ refs'[p][l] = 0 <=> registry'[p][l] = None
                    /\ \A u \in Tasks : ProcOf[u] = p /\ (l \in held'[u] \/ cur'[u] = l) =>
                           gate'[u][l] = registry'[p][l]
  BY DEF GatesCounted
<1>1. \A u \in Tasks : ProcOf[u] = p => u # t \/ l # k
  OBVIOUS
<1>2. ASSUME NEW x PROVE x \in References(p, l)' <=> x \in References(p, l)
  BY <1>1, ReferencesAre, ReferencesAreNext
<1>3. References(p, l)' = References(p, l)
  BY <1>2
<1>4. refs[p][l] = Cardinality(References(p, l)) /\ (refs[p][l] = 0 <=> registry[p][l] = None)
  BY DEF GatesCounted
<1>5. ASSUME NEW u \in Tasks, ProcOf[u] = p, l \in held'[u] \/ cur'[u] = l
      PROVE  gate'[u][l] = registry'[p][l]
  <2>1. l \in held[u] \/ cur[u] = l
    BY <1>1, <1>5
  <2>2. gate[u][l] = registry[ProcOf[u]][l]
    BY <2>1, Referenced, TypeParts
  <2> QED
    BY <1>1, <1>5, <2>2
<1>6. refs'[p][l] = refs[p][l] /\ registry'[p][l] = registry[p][l]
  OBVIOUS
<1> QED
  BY <1>3, <1>4, <1>5, <1>6

\* The last reference takes the lock with it.
LEMMA DropStep ==
  ASSUME LocksAssumption, TypeOK, GatesCounted, NEW t \in Tasks, NEW k \in Keys,
         NEW x \in References(ProcOf[t], k), Drop(ProcOf[t], k),
         References(ProcOf[t], k)' = References(ProcOf[t], k) \ {x}
  PROVE  /\ \A p \in Procs, l \in Keys : p # ProcOf[t] \/ l # k =>
                refs'[p][l] = refs[p][l] /\ registry'[p][l] = registry[p][l]
         /\ refs'[ProcOf[t]][k] = Cardinality(References(ProcOf[t], k)')
         /\ refs'[ProcOf[t]][k] = 0 <=> registry'[ProcOf[t]][k] = None
         /\ References(ProcOf[t], k)' # {} =>
                registry'[ProcOf[t]][k] = registry[ProcOf[t]][k]
<1> DEFINE p == ProcOf[t]
           S == References(p, k)
<1>1. p \in Procs
  BY DEF LocksAssumption
<1>2. IsFiniteSet(S) /\ Cardinality(S) \in Nat /\ Cardinality(S) # 0
  BY ReferencesFinite, FS_CardinalityType, FS_EmptySet
<1>3. IsFiniteSet(S \ {x}) /\ Cardinality(S \ {x}) = Cardinality(S) - 1
  BY <1>2, FS_RemoveElement
<1>4. refs[p][k] = Cardinality(S) /\ (refs[p][k] = 0 <=> registry[p][k] = None)
  BY <1>1 DEF GatesCounted
<1>5. refs'[p][k] = refs[p][k] - 1
  BY <1>1 DEF Drop, TypeOK
<1>6. registry'[p][k] = IF refs[p][k] = 1 THEN None ELSE registry[p][k]
  BY <1>1 DEF Drop, TypeOK
<1>7. S' # {} => Cardinality(S') # 0
  BY <1>3, FS_EmptySet
<1>8. \A q \in Procs, l \in Keys : q # p \/ l # k =>
         refs'[q][l] = refs[q][l] /\ registry'[q][l] = registry[q][l]
  BY <1>1 DEF Drop, TypeOK
<1> HIDE DEF S
<1>9. S' = S \ {x}
  BY DEF S
<1>10. refs'[p][k] = Cardinality(S')
  BY <1>3, <1>4, <1>5, <1>9
<1>11. refs'[p][k] = 0 <=> registry'[p][k] = None
  BY <1>2, <1>4, <1>5, <1>6
<1>12. S' # {} => registry'[p][k] = registry[p][k]
  BY <1>2, <1>4, <1>5, <1>6, <1>7, <1>10
<1> QED
  BY <1>8, <1>10, <1>11, <1>12 DEF S

\* The key is entered: what waited has entered.
LEMMA EnteredStep ==
  ASSUME LocksAssumption, TypeOK, GatesCounted, NEW t \in Tasks, NEW k \in Keys, cur[t] = k,
         k \notin held[t], Entered(t), UNCHANGED <<registry, refs, gate>>
  PROVE  GatesCounted'
<1> DEFINE p == ProcOf[t]
           S == References(p, k)
           w == <<t, "waiting">>
           e == <<t, "entered">>
<1>1. p \in Procs /\ None \notin Keys
  BY DEF LocksAssumption
<1>2. \A u \in Tasks : /\ cur'[u] = IF u = t THEN None ELSE cur[u]
                       /\ held'[u] = IF u = t THEN held[u] \cup {k} ELSE held[u]
  BY TypeParts DEF Entered, ListTypes
<1>3. S' = (S \ {w}) \cup {e}
  <2>1. ASSUME NEW x, x \in S' PROVE x \in (S \ {w}) \cup {e}
    <3>1. PICK u \in Tasks : /\ ProcOf[u] = p
                             /\ \/ x = <<u, "entered">> /\ k \in held'[u]
                                \/ x = <<u, "waiting">> /\ cur'[u] = k
      BY <2>1, ReferencesAreNext
    <3>2. CASE u = t
      BY <1>1, <1>2, <3>1, <3>2
    <3>3. CASE u # t
      <4>1. k \in held'[u] <=> k \in held[u]
        BY <1>2, <3>3
      <4>2. cur'[u] = cur[u]
        BY <1>2, <3>3
      <4>3. x \in S
        BY <3>1, <4>1, <4>2, ReferencesAre
      <4>4. x # w
        BY <3>1, <3>3
      <4> QED
        BY <4>3, <4>4
    <3> QED
      BY <3>2, <3>3
  <2>2. ASSUME NEW x, x \in S, x # w PROVE x \in S'
    <3>1. PICK u \in Tasks : /\ ProcOf[u] = p
                             /\ \/ x = <<u, "entered">> /\ k \in held[u]
                                \/ x = <<u, "waiting">> /\ cur[u] = k
      BY <2>2, ReferencesAre
    <3>2. \/ x = <<u, "entered">> /\ k \in held'[u]
          \/ x = <<u, "waiting">> /\ cur'[u] = k
      BY <1>2, <2>2, <3>1
    <3> QED
      BY <3>1, <3>2, ReferencesAreNext
  <2>3. e \in S'
    BY <1>2, ReferencesAreNext
  <2> QED
    BY <2>1, <2>2, <2>3
<1>4. w \in S /\ e \notin S /\ w # e
  BY ReferencesAre
<1>5. IsFiniteSet(S) /\ Cardinality(S) \in Nat
  BY ReferencesFinite, FS_CardinalityType
<1>6. IsFiniteSet(S \ {w}) /\ Cardinality(S \ {w}) = Cardinality(S) - 1
  BY <1>4, <1>5, FS_RemoveElement
<1>7. Cardinality((S \ {w}) \cup {e}) = Cardinality(S \ {w}) + 1
  BY <1>4, <1>6, FS_AddElement
<1>8. Cardinality(S') = Cardinality(S)
  BY <1>3, <1>5, <1>6, <1>7
<1>9. refs'[p][k] = Cardinality(S')
  BY <1>1, <1>8 DEF GatesCounted
<1>10. \A u \in Tasks, l \in Keys : u # t \/ l # k =>
         /\ l \in held'[u] <=> l \in held[u]
         /\ cur'[u] = l <=> cur[u] = l
         /\ gate'[u][l] = gate[u][l]
  BY <1>1, <1>2
<1>11. refs'[p][k] = 0 <=> registry'[p][k] = None
  BY <1>1 DEF GatesCounted
<1>12. ASSUME NEW u \in Tasks, ProcOf[u] = p, k \in held'[u] \/ cur'[u] = k
       PROVE  gate'[u][k] = registry'[p][k]
  <2>1. k \in held[u] \/ cur[u] = k
    BY <1>2, <1>12
  <2>2. GateTypes
    BY TypeParts
  <2>3. gate[u][k] = registry[ProcOf[u]][k]
    BY <2>1, <2>2, Referenced
  <2> QED
    BY <1>12, <2>3
<1>13. \A q \in Procs, l \in Keys : q # p \/ l # k =>
         refs'[q][l] = refs[q][l] /\ registry'[q][l] = registry[q][l]
  OBVIOUS
<1> QED
  BY <1>9, <1>10, <1>11, <1>12, <1>13, OneKey

\* A reference is taken.
LEMMA ReferenceTaken ==
  ASSUME LocksAssumption, ListTypes, NEW t \in Tasks, NEW k \in Keys, cur[t] = None,
         cur' = [cur EXCEPT ![t] = k], held' = held
  PROVE  /\ References(ProcOf[t], k)' = References(ProcOf[t], k) \cup {<<t, "waiting">>}
         /\ <<t, "waiting">> \notin References(ProcOf[t], k)
<1> DEFINE p == ProcOf[t]
           S == References(p, k)
           w == <<t, "waiting">>
<1>1. None \notin Keys /\ \A u \in Tasks : cur'[u] = IF u = t THEN k ELSE cur[u]
  BY DEF LocksAssumption, ListTypes
<1>2. ASSUME NEW x, x \in S' PROVE x \in S \cup {w}
  <2>1. PICK u \in Tasks : /\ ProcOf[u] = p
                           /\ \/ x = <<u, "entered">> /\ k \in held'[u]
                              \/ x = <<u, "waiting">> /\ cur'[u] = k
    BY <1>2, ReferencesAreNext
  <2> QED
    BY <1>1, <2>1, ReferencesAre
<1>3. ASSUME NEW x, x \in S PROVE x \in S'
  <2>1. PICK u \in Tasks : /\ ProcOf[u] = p
                           /\ \/ x = <<u, "entered">> /\ k \in held[u]
                              \/ x = <<u, "waiting">> /\ cur[u] = k
    BY <1>3, ReferencesAre
  <2> QED
    BY <1>1, <2>1, ReferencesAreNext
<1>4. w \in S'
  BY <1>1, ReferencesAreNext
<1>5. w \notin S
  BY <1>1, ReferencesAre
<1> QED
  BY <1>2, <1>3, <1>4, <1>5

\* A reference is given up, of an entry that has not been entered or that has.
LEMMA ReferenceDropped ==
  ASSUME LocksAssumption, ListTypes, NEW t \in Tasks, NEW k \in Keys,
         \/ cur[t] = k /\ cur' = [cur EXCEPT ![t] = None] /\ held' = held
         \/ k \in held[t] /\ cur' = cur /\ held' = [held EXCEPT ![t] = @ \ {k}]
  PROVE  \E x \in References(ProcOf[t], k) :
             References(ProcOf[t], k)' = References(ProcOf[t], k) \ {x}
<1> DEFINE p == ProcOf[t]
           S == References(p, k)
           w == <<t, "waiting">>
           e == <<t, "entered">>
<1>a. None \notin Keys
  BY DEF LocksAssumption
<1>1. CASE cur[t] = k /\ cur' = [cur EXCEPT ![t] = None] /\ held' = held
  <2>1. \A u \in Tasks : /\ cur'[u] = IF u = t THEN None ELSE cur[u]
                         /\ held'[u] = held[u]
    BY <1>1 DEF ListTypes
  <2>2. ASSUME NEW x, x \in S' PROVE x \in S \ {w}
    <3>1. PICK u \in Tasks : /\ ProcOf[u] = p
                             /\ \/ x = <<u, "entered">> /\ k \in held'[u]
                                \/ x = <<u, "waiting">> /\ cur'[u] = k
      BY <2>2, ReferencesAreNext
    <3> QED
      BY <1>a, <2>1, <3>1, ReferencesAre
  <2>3. ASSUME NEW x, x \in S, x # w PROVE x \in S'
    <3>1. PICK u \in Tasks : /\ ProcOf[u] = p
                             /\ \/ x = <<u, "entered">> /\ k \in held[u]
                                \/ x = <<u, "waiting">> /\ cur[u] = k
      BY <2>3, ReferencesAre
    <3> QED
      BY <2>1, <2>3, <3>1, ReferencesAreNext
  <2>4. w \in S
    BY <1>1, ReferencesAre
  <2>5. S' = S \ {w}
    BY <2>2, <2>3
  <2> QED
    BY <2>4, <2>5
<1>2. CASE k \in held[t] /\ cur' = cur /\ held' = [held EXCEPT ![t] = @ \ {k}]
  <2>1. \A u \in Tasks : /\ held'[u] = IF u = t THEN held[u] \ {k} ELSE held[u]
                         /\ cur'[u] = cur[u]
    BY <1>2 DEF ListTypes
  <2>2. ASSUME NEW x, x \in S' PROVE x \in S \ {e}
    <3>1. PICK u \in Tasks : /\ ProcOf[u] = p
                             /\ \/ x = <<u, "entered">> /\ k \in held'[u]
                                \/ x = <<u, "waiting">> /\ cur'[u] = k
      BY <2>2, ReferencesAreNext
    <3>2. \/ x = <<u, "entered">> /\ k \in held[u]
          \/ x = <<u, "waiting">> /\ cur[u] = k
      BY <2>1, <3>1
    <3>3. x \in S
      BY <3>1, <3>2, ReferencesAre
    <3>4. u # t \/ x = <<u, "waiting">>
      BY <2>1, <3>1
    <3>5. x # e
      BY <3>1, <3>4
    <3> QED
      BY <3>3, <3>5
  <2>3. ASSUME NEW x, x \in S, x # e PROVE x \in S'
    <3>1. PICK u \in Tasks : /\ ProcOf[u] = p
                             /\ \/ x = <<u, "entered">> /\ k \in held[u]
                                \/ x = <<u, "waiting">> /\ cur[u] = k
      BY <2>3, ReferencesAre
    <3> QED
      BY <2>1, <2>3, <3>1, ReferencesAreNext
  <2>4. e \in S
    BY <1>2, ReferencesAre
  <2>5. S' = S \ {e}
    BY <2>2, <2>3
  <2> QED
    BY <2>4, <2>5
<1> QED
  BY <1>1, <1>2

\* A task gives a reference up, and with it its name for the lock.
LEMMA GivenUp ==
  ASSUME LocksAssumption, TypeOK, GatesCounted, NEW t \in Tasks, NEW k \in Keys,
         \/ cur[t] = k /\ cur' = [cur EXCEPT ![t] = None] /\ held' = held
         \/ k \in held[t] /\ cur' = cur /\ held' = [held EXCEPT ![t] = @ \ {k}],
         Drop(ProcOf[t], k),
         \A u \in Tasks, l \in Keys : u # t \/ l # k => gate'[u][l] = gate[u][l],
         k \in held'[t] \/ cur'[t] = k => gate'[t][k] = gate[t][k]
  PROVE  GatesCounted'
<1> DEFINE p == ProcOf[t]
           S == References(p, k)
<1>1. p \in Procs /\ None \notin Keys
  BY DEF LocksAssumption
<1>2. ListTypes
  BY TypeParts
<1>3. PICK x \in S : S' = S \ {x}
  BY <1>2, ReferenceDropped
<1>4. /\ \A q \in Procs, l \in Keys : q # p \/ l # k =>
             refs'[q][l] = refs[q][l] /\ registry'[q][l] = registry[q][l]
      /\ refs'[p][k] = Cardinality(S')
      /\ refs'[p][k] = 0 <=> registry'[p][k] = None
      /\ S' # {} => registry'[p][k] = registry[p][k]
  BY <1>3, DropStep
<1>5. \A u \in Tasks, l \in Keys : u # t \/ l # k =>
         (l \in held'[u] <=> l \in held[u]) /\ (cur'[u] = l <=> cur[u] = l)
  <2>1. CASE cur[t] = k /\ cur' = [cur EXCEPT ![t] = None] /\ held' = held
    BY <1>1, <1>2, <2>1 DEF ListTypes
  <2>2. CASE k \in held[t] /\ cur' = cur /\ held' = [held EXCEPT ![t] = @ \ {k}]
    BY <1>2, <2>2 DEF ListTypes
  <2> QED
    BY <2>1, <2>2
<1>6. k \in held'[t] \/ cur'[t] = k => k \in held[t] \/ cur[t] = k
  OBVIOUS
<1>7. ASSUME NEW u \in Tasks, ProcOf[u] = p, k \in held'[u] \/ cur'[u] = k
      PROVE  gate'[u][k] = registry'[p][k]
  <2>1. S' # {}
    <3>1. <<u, "entered">> \in S' \/ <<u, "waiting">> \in S'
      BY <1>7, ReferencesAreNext
    <3> QED
      BY <3>1
  <2>2. k \in held[u] \/ cur[u] = k
    BY <1>5, <1>6, <1>7
  <2>3. gate[u][k] = registry[p][k]
    <3>1. gate[u][k] = registry[ProcOf[u]][k]
      BY <2>2, Referenced, TypeParts
    <3> QED
      BY <1>7, <3>1
  <2>4. gate'[u][k] = gate[u][k]
    BY <1>7
  <2>5. registry'[p][k] = registry[p][k]
    BY <1>4, <2>1
  <2> QED
    BY <2>3, <2>4, <2>5
<1>8. \A u \in Tasks, l \in Keys : u # t \/ l # k =>
         /\ l \in held'[u] <=> l \in held[u]
         /\ cur'[u] = l <=> cur[u] = l
         /\ gate'[u][l] = gate[u][l]
  BY <1>5
<1> QED
  BY <1>4, <1>7, <1>8, OneKey

\* The lock of a key lasts exactly as long as somebody refers to it.
LEMMA CountedStep ==
  ASSUME LocksAssumption, TypeOK, TasksFit, CallsFit, GatesHeld, GatesCounted, [Next]_vars
  PROVE  GatesCounted'
<1>a. ListTypes /\ GateTypes /\ ServerTypes
  BY TypeParts
<1>b. None \notin Tasks \cup Keys /\ \A t \in Tasks : ProcOf[t] \in Procs
  BY DEF LocksAssumption
<1> USE DEF locals, gates
<1>1. ASSUME UNCHANGED <<held, cur, registry, refs, gate>> PROVE GatesCounted'
  <2>1. \A p \in Procs, k \in Keys : References(p, k)' = References(p, k)
    BY <1>1 DEF References
  <2>2. ASSUME NEW p \in Procs, NEW k \in Keys
        PROVE  /\ refs'[p][k] = Cardinality(References(p, k)')
               /\ refs'[p][k] = 0 <=> registry'[p][k] = None
    BY <1>1, <2>1 DEF GatesCounted
  <2>3. ASSUME NEW p \in Procs, NEW k \in Keys, NEW t \in Tasks, ProcOf[t] = p,
               k \in held'[t] \/ cur'[t] = k
        PROVE  gate'[t][k] = registry'[p][k]
    BY <1>1, <1>a, <2>3, Referenced
  <2> QED
    BY <2>2, <2>3 DEF GatesCounted
<1>2. ASSUME NEW p \in Procs, Start(p) \/ Kill(p) \/ Look(p) \/ Probe(p) PROVE GatesCounted'
  BY <1>1, <1>2 DEF Start, Kill, Look, Probe, Refuse
<1>3. ASSUME NEW p \in Procs, Set(p) PROVE GatesCounted'
  <2>1. call[p] # Idle
    BY <1>3 DEF Set, Idle
  <2>2. CASE Live(call[p].task) /\ Entered(call[p].task)
    <3>1. PICK t \in Tasks, k \in Keys :
              t = call[p].task /\ pc[t] = "call" /\ cur[t] = k /\ Entered(t)
      BY <1>a, <2>1, <2>2, Request1
    <3>2. k \notin held[t]
      BY <3>1 DEF GatesHeld
    <3>3. UNCHANGED <<registry, refs, gate>>
      BY <1>3 DEF Set, Refuse
    <3> QED
      BY <3>1, <3>2, <3>3, EnteredStep
  <2>3. CASE ~(Live(call[p].task) /\ Entered(call[p].task))
    BY <1>1, <1>3, <2>3 DEF Set, Refuse
  <2> QED
    BY <2>2, <2>3
<1>4. ASSUME NEW t \in Tasks,
             Enter(t) \/ Inside(t) \/ Retry(t) \/ Cancel(t) \/ Leave(t) \/ Done(t)
      PROVE  GatesCounted'
  BY <1>1, <1>4 DEF Enter, Inside, Retry, Request, Cancel, Leave, Done
<1>5. ASSUME NEW t \in Tasks, Get(t) PROVE GatesCounted'
  <2> DEFINE p == ProcOf[t]
  <2>1. PICK k \in Keys :
            /\ registry' = [registry EXCEPT ![p][k] =
                               IF registry[p][k] = None THEN t ELSE registry[p][k]]
            /\ refs' = [refs EXCEPT ![p][k] = @ + 1]
            /\ gate' = [gate EXCEPT ![t][k] =
                           IF registry[p][k] = None THEN t ELSE registry[p][k]]
            /\ cur' = [cur EXCEPT ![t] = k]
            /\ held' = held
    BY <1>5 DEF Get
  <2>2. cur[t] = None /\ p \in Procs
    BY <1>a, <1>b, <1>5 DEF Get, TasksFit, ListTypes
  <2> DEFINE S == References(p, k)
             w == <<t, "waiting">>
  <2>3. S' = S \cup {w} /\ w \notin S
    BY <1>a, <2>1, <2>2, ReferenceTaken
  <2>4. IsFiniteSet(S) /\ Cardinality(S) \in Nat
    BY ReferencesFinite, FS_CardinalityType
  <2>5. Cardinality(S \cup {w}) = Cardinality(S) + 1
    BY <2>3, <2>4, FS_AddElement
  <2>6. refs[p][k] = Cardinality(S) /\ refs'[p][k] = refs[p][k] + 1
    BY <1>a, <2>1, <2>2 DEF GatesCounted, GateTypes
  <2>7. refs'[p][k] = Cardinality(S')
    BY <2>3, <2>5, <2>6
  <2>8. /\ registry'[p][k] = IF registry[p][k] = None THEN t ELSE registry[p][k]
        /\ registry'[p][k] # None /\ gate'[t][k] = registry'[p][k]
    BY <1>a, <1>b, <2>1, <2>2 DEF GateTypes
  <2>9. \A u \in Tasks, l \in Keys : u # t \/ l # k =>
           /\ l \in held'[u] <=> l \in held[u]
           /\ cur'[u] = l <=> cur[u] = l
           /\ gate'[u][l] = gate[u][l]
    BY <1>a, <1>b, <2>1, <2>2 DEF ListTypes, GateTypes
  <2>10. ASSUME NEW u \in Tasks, ProcOf[u] = p, k \in held'[u] \/ cur'[u] = k
         PROVE  gate'[u][k] = registry'[p][k]
    <3>1. CASE u = t
      BY <2>8, <3>1
    <3>2. CASE u # t
      <4>1. k \in held[u] \/ cur[u] = k
        BY <2>9, <2>10, <3>2
      <4>2. gate[u][k] = registry[p][k] /\ registry[p][k] # None
        BY <1>a, <2>10, <4>1, Referenced
      <4>3. gate'[u][k] = gate[u][k]
        BY <2>9, <3>2
      <4> QED
        BY <2>8, <4>2, <4>3
    <3> QED
      BY <3>1, <3>2
  <2>11. \A q \in Procs, l \in Keys : q # p \/ l # k =>
            refs'[q][l] = refs[q][l] /\ registry'[q][l] = registry[q][l]
    BY <1>a, <2>1, <2>2 DEF GateTypes
  <2>12. refs'[p][k] = 0 <=> registry'[p][k] = None
    BY <2>4, <2>6, <2>8
  <2>13. \A u \in Tasks : ProcOf[u] = p /\ (k \in held'[u] \/ cur'[u] = k) =>
            gate'[u][k] = registry'[p][k]
    BY <2>10
  <2> QED
    BY <2>7, <2>9, <2>11, <2>12, <2>13, OneKey
<1>6. ASSUME NEW t \in Tasks, Pass(t) PROVE GatesCounted'
  <2>1. CASE held' = held /\ cur' = cur
    BY <1>1, <1>6, <2>1 DEF Pass
  <2>2. CASE ~(held' = held /\ cur' = cur)
    <3>1. /\ Entered(t) /\ pc[t] = "gate" /\ cur[t] \in Keys
          /\ locked[gate[t][cur[t]]][cur[t]] = None
          /\ UNCHANGED <<registry, refs, gate>>
      BY <1>a, <1>6, <2>2 DEF Pass, TasksFit, ListTypes
    <3>2. PICK k \in Keys : cur[t] = k
      BY <3>1
    <3>3. k \notin held[t]
      BY <1>b, <3>1, <3>2 DEF GatesHeld, Gated
    <3> QED
      BY <3>1, <3>2, <3>3, EnteredStep
  <2> QED
    BY <2>1, <2>2
<1>7. ASSUME NEW t \in Tasks, Abandon(t) PROVE GatesCounted'
  <2>1. PICK k \in Keys :
            /\ cur[t] = k /\ Drop(ProcOf[t], k)
            /\ gate' = IF k \in held[t] THEN gate ELSE [gate EXCEPT ![t][k] = None]
            /\ cur' = [cur EXCEPT ![t] = None]
            /\ held' = held
    BY <1>a, <1>7 DEF Abandon, ListTypes
  <2>2. \A u \in Tasks, l \in Keys : u # t \/ l # k => gate'[u][l] = gate[u][l]
    BY <1>a, <2>1 DEF GateTypes
  <2>3. k \in held'[t] \/ cur'[t] = k => gate'[t][k] = gate[t][k]
    BY <1>a, <1>b, <2>1 DEF ListTypes
  <2> QED
    BY <2>1, <2>2, <2>3, GivenUp
<1>8. ASSUME NEW t \in Tasks, Release(t) PROVE GatesCounted'
  <2>1. PICK k \in held[t] :
            /\ cur[t] = None /\ cur' = cur
            /\ Drop(ProcOf[t], k)
            /\ gate' = [gate EXCEPT ![t][k] = None]
            /\ held' = [held EXCEPT ![t] = @ \ {k}]
    BY <1>8 DEF Release
  <2>2. k \in Keys
    BY <1>a DEF ListTypes
  <2>3. \A u \in Tasks, l \in Keys : u # t \/ l # k => gate'[u][l] = gate[u][l]
    BY <1>a, <2>1, <2>2 DEF GateTypes
  <2>4. ~(k \in held'[t] \/ cur'[t] = k)
    BY <1>a, <1>b, <2>1, <2>2 DEF ListTypes
  <2> QED
    BY <2>1, <2>2, <2>3, <2>4, GivenUp
<1>9. ASSUME UNCHANGED vars PROVE GatesCounted'
  BY <1>1, <1>9 DEF vars
<1> QED
  BY <1>2, <1>3, <1>4, <1>5, <1>6, <1>7, <1>8, <1>9 DEF Next, TaskStep, ServerStep

-----------------------------------------------------------------------------
(* The order of a list.                                                    *)

\* A task whose keys and place stay as they are, or that stops collecting.
LEMMA SortedStays ==
  ASSUME ListsSorted, NEW t \in Tasks, held'[t] = held[t],
         pc'[t] \in {"gate", "call", "backoff"} =>
             \/ cur'[t] = cur[t] /\ pc[t] \in {"gate", "call", "backoff"}
             \/ NextKey(t, cur'[t]),
         pc[t] \in {"leave", "dead"} => pc'[t] \in {"leave", "dead"}
  PROVE  /\ pc'[t] \in {"gate", "call", "backoff"} => NextKey(t, cur[t])'
         /\ pc'[t] \notin {"leave", "dead"} =>
                \A k \in held'[t], l \in Remaining(t)' : k <= l
<1>1. Remaining(t)' = Remaining(t)
  BY DEF Remaining
<1>2. NextKey(t, cur[t])' <=> NextKey(t, cur'[t])
  BY <1>1 DEF NextKey
<1> QED
  BY <1>1, <1>2 DEF ListsSorted

\* An entry that has been entered was the least that was missing.
LEMMA SortedEntered ==
  ASSUME LocksAssumption, PlaceTypes, ListTypes, ListsSorted, NEW t \in Tasks, Entered(t),
         pc[t] \in {"gate", "call"}
  PROVE  /\ pc'[t] = "get"
         /\ \A k \in held'[t], l \in Remaining(t)' : k <= l
<1>1. PICK c \in Keys : c = cur[t]
  BY DEF ListsSorted, NextKey, Remaining
<1>2. pc'[t] = "get" /\ held'[t] = held[t] \cup {c}
  BY <1>1 DEF Entered, PlaceTypes, ListTypes
<1>3. Remaining(t)' \subseteq Remaining(t)
  <2>1. Remaining(t)' = {k \in Keys : Uses[t][k] > (IF k \in held'[t] THEN 1 ELSE 0)}
    BY DEF Remaining
  <2>2. \A k \in Keys : Uses[t][k] \in Nat
    BY DEF LocksAssumption
  <2> QED
    BY <1>2, <2>1, <2>2 DEF Remaining
<1>4. \A l \in Remaining(t) : c <= l
  BY <1>1 DEF ListsSorted, NextKey
<1> QED
  BY <1>2, <1>3, <1>4 DEF ListsSorted

LEMMA SortedStep ==
  ASSUME LocksAssumption, IInv, [Next]_vars PROVE ListsSorted'
<1>a. PlaceTypes /\ ListTypes /\ ListsSorted
  BY TypeParts DEF IInv
<1> SUFFICES ASSUME NEW t \in Tasks
             PROVE  /\ pc'[t] \in {"gate", "call", "backoff"} => NextKey(t, cur[t])'
                    /\ pc'[t] \notin {"leave", "dead"} =>
                           \A k \in held'[t], l \in Remaining(t)' : k <= l
  BY DEF ListsSorted
<1> DEFINE Kept == /\ held'[t] = held[t]
                   /\ pc'[t] \in {"gate", "call", "backoff"} =>
                        \/ cur'[t] = cur[t] /\ pc[t] \in {"gate", "call", "backoff"}
                        \/ NextKey(t, cur'[t])
                   /\ pc[t] \in {"leave", "dead"} => pc'[t] \in {"leave", "dead"}
<1> DEFINE Enters == Entered(t) /\ pc[t] \in {"gate", "call"}
<1> DEFINE Ready == \/ pc'[t] \in {"leave", "dead"}
                    \/ pc'[t] \in {"idle", "get"} /\ held'[t] = {}
<1>1. Kept \/ Enters \/ Ready
  <2>1. ASSUME NEW p \in Procs, Start(p) \/ Kill(p) PROVE Kept
    BY <1>a, <2>1 DEF Start, Kill, locals, PlaceTypes
  <2>2. ASSUME NEW p \in Procs, ServerStep(p) PROVE Kept \/ Enters
    <3>1. CASE UNCHANGED <<pc, cur, held>>
      BY <3>1
    <3>2. CASE Refuse(p) /\ call[p] # Idle
      <4>1. Live(call[p].task) => pc[call[p].task] = "call"
        BY <3>2, Request1, TypeParts DEF IInv
      <4> QED
        BY <1>a, <3>2, <4>1 DEF Refuse, locals, PlaceTypes
    <3>3. CASE call[p] # Idle /\ Live(call[p].task) /\ Entered(call[p].task)
      <4>1. call[p].task \in Tasks /\ pc[call[p].task] = "call"
        BY <3>3, Request1, TypeParts DEF IInv
      <4>2. call[p].task # t => Kept
        BY <1>a, <3>3, <4>1 DEF Entered, PlaceTypes, ListTypes
      <4> QED
        BY <3>3, <4>1, <4>2
    <3>4. call[p] # Idle
      BY <2>2 DEF ServerStep, Look, Probe, Set, Idle
    <3> QED
      BY <2>2, <3>1, <3>2, <3>3, <3>4 DEF ServerStep, Look, Probe, Set, locals
  <2>3. ASSUME NEW u \in Tasks, Enter(u) PROVE Kept \/ Ready
    BY <1>a, <2>3 DEF Enter, PlaceTypes, IInv, TasksFit
  <2>4. ASSUME NEW u \in Tasks, Get(u) PROVE Kept
    BY <1>a, <2>4 DEF Get, PlaceTypes, ListTypes
  <2>5. ASSUME NEW u \in Tasks, Inside(u) \/ Retry(u) \/ Cancel(u) \/ Leave(u) PROVE Kept
    BY <1>a, <2>5 DEF Inside, Retry, Cancel, Leave, Request, locals, PlaceTypes
  <2>6. ASSUME NEW u \in Tasks, Pass(u) PROVE Kept \/ Enters
    <3>1. CASE Entered(u)
      BY <1>a, <2>6, <3>1 DEF Pass, Entered, PlaceTypes, ListTypes
    <3>2. CASE Request(u) /\ UNCHANGED <<cur, held>>
      BY <1>a, <2>6, <3>2 DEF Pass, Request, PlaceTypes
    <3> QED
      BY <2>6, <3>1, <3>2 DEF Pass
  <2>7. ASSUME NEW u \in Tasks, Abandon(u) PROVE Kept
    BY <1>a, <2>7 DEF Abandon, PlaceTypes, ListTypes
  <2>8. ASSUME NEW u \in Tasks, Release(u) PROVE Kept \/ Ready
    BY <1>a, <2>8 DEF Release, PlaceTypes, ListTypes
  <2>9. ASSUME NEW u \in Tasks, Done(u) PROVE Kept \/ Ready
    BY <1>a, <2>9 DEF Done, locals, PlaceTypes
  <2>10. CASE UNCHANGED vars
    BY <2>10 DEF vars, locals
  <2> QED
    BY <2>1, <2>2, <2>3, <2>4, <2>5, <2>6, <2>7, <2>8, <2>9, <2>10 DEF Next, TaskStep
<1>2. CASE Ready
  BY <1>2
<1>3. CASE Kept
  BY <1>a, <1>3, SortedStays
<1>4. CASE Enters
  BY <1>a, <1>4, SortedEntered
<1> QED
  BY <1>1, <1>2, <1>3, <1>4

-----------------------------------------------------------------------------
(* The theorems.                                                           *)

LEMMA InitInv == ASSUME LocksAssumption, Init PROVE IInv
<1> USE DEF LocksAssumption, Init
<1>1. TypeOK
  BY DEF TypeOK
<1>2. TasksFit /\ PidsApart /\ Alone /\ RecordsNamed /\ CallsFit
  BY DEF TasksFit, PidsApart, Alone, RecordsNamed, CallsFit
<1>3. LeasesHeld /\ NoLeak /\ GatesHeld
  BY DEF LeasesHeld, NoLeak, GatesHeld, Holds, Gated
<1>4. GatesCounted
  <2>1. ASSUME NEW p \in Procs, NEW k \in Keys PROVE References(p, k) = {}
    BY DEF References
  <2> QED
    BY <2>1, FS_EmptySet DEF GatesCounted
<1>5. ListsSorted
  BY DEF ListsSorted
<1> QED
  BY <1>1, <1>2, <1>3, <1>4, <1>5 DEF IInv

LEMMA StepInv == ASSUME LocksAssumption, IInv, [Next]_vars PROVE IInv'
<1>1. TypeOK'
  BY TypeStep DEF IInv
<1> QED
  BY <1>1, TasksStep, PidsStep, AloneStep, RecordsStep, CallsStep, LeasesStep, NoLeakStep,
     GatesStep, CountedStep, SortedStep DEF IInv

\* Places, processes, records, requests and locks fit together at every moment.
THEOREM Inductive == ASSUME LocksAssumption PROVE Spec => []IInv
<1>1. Init => IInv
  BY InitInv
<1>2. IInv /\ [Next]_vars => IInv'
  BY StepInv
<1> QED
  BY <1>1, <1>2, PTL DEF Spec

\* Two tasks never hold one key, of whichever processes they are.
THEOREM KeysExclude == ASSUME LocksAssumption PROVE Spec => []MutualExclusion
<1>1. ASSUME IInv, NEW t \in Tasks, NEW u \in Tasks, NEW k \in Keys, Holds(t, k), Holds(u, k)
      PROVE  t = u
  <2>1. CASE multi
    <3>1. holders[k].lease = Lease(t) /\ holders[k].lease = Lease(u)
      BY <1>1, <2>1 DEF IInv, LeasesHeld
    <3> QED
      BY <3>1 DEF Lease
  <2>2. CASE ~multi
    <3>1. ProcOf[t] \in Procs /\ ProcOf[t] = ProcOf[u]
      BY <1>1, <2>2 DEF IInv, Alone, Holds, Live, LocksAssumption
    <3>2. gate[t][k] = gate[u][k]
      BY <1>1, <3>1 DEF IInv, GatesCounted, Holds
    <3> QED
      BY <1>1, <3>2 DEF IInv, GatesHeld, Gated, Holds
  <2> QED
    BY <2>1, <2>2
<1>2. IInv => MutualExclusion
  BY <1>1 DEF MutualExclusion
<1> QED
  BY <1>2, Inductive, PTL

\* A lease of a living process belongs to a task that holds the key.
THEOREM NothingLeaks == ASSUME LocksAssumption PROVE Spec => []NoLeak
<1>1. IInv => NoLeak
  BY DEF IInv
<1> QED
  BY <1>1, Inductive, PTL

\* The tasks of a process that refer to a key share one lock, which exists as long
\* as they do.
THEOREM OneLockPerKey == ASSUME LocksAssumption PROVE Spec => []OneGate
<1>1. IInv => OneGate
  BY DEF IInv, GatesCounted, OneGate
<1> QED
  BY <1>1, Inductive, PTL
-----------------------------------------------------------------------------
(* The locks are sorted and two-phase.                                     *)

Leaving == {t \in Tasks : pc[t] = "leave"}
Gone == {p \in Procs : proc[p] = "dead"}
OwnerMap == [k \in Keys |-> OwnerOf(k)]

\* The owner of a key is the task that holds it.
LEMMA Owners ==
  ASSUME LocksAssumption, MutualExclusion, NEW k \in Keys
  PROVE  /\ OwnerOf(k) \in Tasks \cup {None}
         /\ \A t \in Tasks : OwnerOf(k) = t <=> Holds(t, k)
BY DEF OwnerOf, MutualExclusion, LocksAssumption

LEMMA OwnersNext ==
  ASSUME LocksAssumption, MutualExclusion', NEW k \in Keys
  PROVE  /\ OwnerOf(k)' \in Tasks \cup {None}
         /\ \A t \in Tasks : OwnerOf(k)' = t <=> Holds(t, k)'
<1>1. OwnerOf(k)' = IF \E t \in Tasks : Holds(t, k)'
                    THEN CHOOSE t \in Tasks : Holds(t, k)' ELSE None
  BY DEF OwnerOf
<1>2. \A t, u \in Tasks : Holds(t, k)' /\ Holds(u, k)' => t = u
  BY DEF MutualExclusion
<1> HIDE DEF Holds
<1>3. CASE \E t \in Tasks : Holds(t, k)'
  BY <1>1, <1>2, <1>3 DEF LocksAssumption
<1>4. CASE ~\E t \in Tasks : Holds(t, k)'
  BY <1>1, <1>4 DEF LocksAssumption
<1> QED
  BY <1>3, <1>4

\* The owner of a key after a step that gives it to t, takes it from t or leaves it.
LEMMA OwnerAfter ==
  ASSUME LocksAssumption, MutualExclusion, MutualExclusion', NEW k \in Keys
  PROVE  /\ (\A u \in Tasks : Holds(u, k)' <=> Holds(u, k)) => OwnerOf(k)' = OwnerOf(k)
         /\ (\A u \in Tasks : ~Holds(u, k)') => OwnerOf(k)' = None
         /\ (\A u \in Tasks : ~Holds(u, k)) => OwnerOf(k) = None
<1>1. CASE OwnerOf(k) = None
  BY <1>1, Owners, OwnersNext DEF LocksAssumption
<1>2. CASE OwnerOf(k) # None
  BY <1>2, Owners, OwnersNext DEF LocksAssumption
<1> QED
  BY <1>1, <1>2

\* A step that is none of the promise.
LEMMA NothingPromised ==
  ASSUME LocksAssumption, MutualExclusion, MutualExclusion',
         \A u \in Tasks, k \in Keys : Holds(u, k)' <=> Holds(u, k),
         Leaving' = Leaving, Gone' = Gone
  PROVE  UNCHANGED Promise!vars
<1>1. OwnerMap' = OwnerMap
  BY OwnerAfter DEF OwnerMap
<1> QED
  BY <1>1 DEF Promise!vars, OwnerMap, Leaving, Gone

\* Whoever collects and has not the key yet takes one that is free and greater than
\* those it has.
LEMMA TakesInOrder ==
  ASSUME LocksAssumption, IInv, MutualExclusion, MutualExclusion', NEW t \in Tasks,
         Live(t), pc[t] \in {"gate", "call"}, cur[t] \notin held[t], Entered(t),
         UNCHANGED proc
  PROVE  \E k \in Keys : Promise!Acquire(t, k)
<1>a. PlaceTypes /\ ListTypes /\ ListsSorted /\ ProcOf[t] \in Procs
  BY TypeParts DEF IInv, LocksAssumption
<1>1. PICK k \in Keys : k = cur[t] /\ k \in Remaining(t)
  BY <1>a DEF ListsSorted, NextKey, Remaining
<1>2. held' = [held EXCEPT ![t] = @ \cup {k}] /\ pc' = [pc EXCEPT ![t] = "get"]
  BY <1>1 DEF Entered
<1>3. \A u \in Tasks, l \in Keys : Holds(u, l)' <=> Holds(u, l) \/ (u = t /\ l = k)
  BY <1>a, <1>2 DEF ListTypes, Holds, Live
<1>4. \A u \in Tasks : ~Holds(u, k)
  BY <1>1, <1>3 DEF MutualExclusion, Holds
<1>5. OwnerOf(k) = None /\ OwnerOf(k)' = t
  BY <1>3, <1>4, OwnerAfter, OwnersNext
<1>6. \A l \in Keys \ {k} : OwnerOf(l)' = OwnerOf(l)
  BY <1>3, OwnerAfter
<1>7. OwnerMap' = [OwnerMap EXCEPT ![k] = t] /\ OwnerMap[k] = None
  BY <1>5, <1>6 DEF OwnerMap
<1>8. ASSUME NEW l \in Keys, OwnerMap[l] = t PROVE l < k
  <2>1. l \in held[t] /\ l # k
    BY <1>1, <1>8, Owners DEF OwnerMap, Holds
  <2>2. l <= k
    BY <1>a, <1>1, <2>1 DEF ListsSorted
  <2> QED
    BY <2>1, <2>2 DEF LocksAssumption
<1>9. UNCHANGED <<Leaving, Gone>> /\ t \notin Leaving /\ ProcOf[t] \notin Gone
  BY <1>a, <1>2 DEF Leaving, Gone, Live, PlaceTypes
<1> QED
  BY <1>7, <1>8, <1>9 DEF Promise!Acquire, Promise!Owned, OwnerMap, Leaving, Gone

LEMMA DiesWithHost ==
  ASSUME LocksAssumption, IInv, MutualExclusion, MutualExclusion', NEW p \in Procs, Kill(p)
  PROVE  Promise!Die(p)
<1>a. TypeOK /\ ProcOf \in [Tasks -> Procs]
  BY DEF IInv, LocksAssumption
<1>1. \A u \in Tasks, k \in Keys : Holds(u, k)' <=> Holds(u, k) /\ ProcOf[u] # p
  BY <1>a DEF Kill, locals, Holds, Live, TypeOK
<1>2. Gone' = Gone \cup {p}
  BY <1>a DEF Gone, Kill, TypeOK
<1>3. Leaving' = {t \in Leaving : ProcOf[t] # p}
  BY <1>a DEF Leaving, Kill, TypeOK
<1>4. ASSUME NEW k \in Keys
      PROVE  OwnerOf(k)' = IF OwnerOf(k) # None /\ ProcOf[OwnerOf(k)] = p
                           THEN None ELSE OwnerOf(k)
  <2>1. CASE OwnerOf(k) = None
    BY <1>1, <2>1, Owners, OwnerAfter DEF LocksAssumption
  <2>2. ASSUME NEW t \in Tasks, OwnerOf(k) = t
        PROVE  OwnerOf(k)' = IF ProcOf[t] = p THEN None ELSE t
    <3>1. \A u \in Tasks : Holds(u, k) <=> u = t
      BY <2>2, Owners
    <3> QED
      BY <1>1, <3>1, OwnerAfter, OwnersNext
  <2> QED
    BY <2>1, <2>2, Owners DEF LocksAssumption
<1>5. OwnerMap' = [k \in Keys |-> IF OwnerMap[k] # None /\ ProcOf[OwnerMap[k]] = p
                                   THEN None ELSE OwnerMap[k]]
  BY <1>4 DEF OwnerMap
<1> QED
  BY <1>2, <1>3, <1>5 DEF Promise!Die, OwnerMap, Leaving, Gone

LEMMA GivesBackInOrder ==
  ASSUME LocksAssumption, IInv, MutualExclusion, MutualExclusion', NEW t \in Tasks,
         Release(t)
  PROVE  \E k \in Keys : Promise!Release(t, k)
<1>a. TypeOK /\ Live(t)
  BY DEF IInv, Release, Awake
<1>1. PICK k \in held[t] : /\ \A l \in held[t] : l <= k
                          /\ held' = [held EXCEPT ![t] = @ \ {k}]
                          /\ UNCHANGED <<proc, pc>> /\ pc[t] = "leave"
  BY DEF Release
<1>2. k \in Keys
  BY <1>a DEF TypeOK
<1>3. \A u \in Tasks, l \in Keys : Holds(u, l)' <=> Holds(u, l) /\ ~(u = t /\ l = k)
  BY <1>a, <1>1 DEF TypeOK, Holds, Live
<1>4. Holds(t, k) /\ OwnerOf(k) = t
  BY <1>a, <1>1, <1>2, Owners DEF Holds
<1>5. OwnerOf(k)' = None
  BY <1>2, <1>3, <1>4, OwnerAfter DEF MutualExclusion
<1>6. \A l \in Keys \ {k} : OwnerOf(l)' = OwnerOf(l)
  BY <1>3, OwnerAfter
<1>7. OwnerMap' = [OwnerMap EXCEPT ![k] = None]
  BY <1>2, <1>5, <1>6 DEF OwnerMap
<1>b. OwnerMap[k] = t
  BY <1>2, <1>4 DEF OwnerMap
<1>8. \A l \in Keys : OwnerMap[l] = t => l <= k
  BY <1>1, Owners DEF OwnerMap, Holds
<1>9. UNCHANGED <<Leaving, Gone>> /\ t \in Leaving
  BY <1>1 DEF Leaving, Gone
<1> QED
  BY <1>2, <1>7, <1>8, <1>9, <1>b DEF Promise!Release, Promise!Owned, OwnerMap, Leaving, Gone

\* Every step of the locks is one of the promise, or changes nothing of it.
LEMMA OrderStep ==
  ASSUME LocksAssumption, IInv, MutualExclusion, MutualExclusion', [Next]_vars
  PROVE  [Promise!Next]_Promise!vars
<1>a. TypeOK /\ TasksFit /\ ServerTypes /\ CallsFit /\ ProcOf \in [Tasks -> Procs]
  BY TypeParts DEF IInv, LocksAssumption
<1>s. ASSUME UNCHANGED <<proc, held>>, Leaving' = Leaving PROVE UNCHANGED Promise!vars
  <2>1. Gone' = Gone
    BY <1>s DEF Gone
  <2>2. \A u \in Tasks, k \in Keys : Holds(u, k)' <=> Holds(u, k)
    BY <1>s DEF Holds, Live
  <2> QED
    BY <1>s, <2>1, <2>2, NothingPromised
<1>1. ASSUME NEW p \in Procs, Start(p) PROVE UNCHANGED Promise!vars
  <2>1. \A u \in Tasks, k \in Keys : Holds(u, k)' <=> Holds(u, k)
    BY <1>a, <1>1 DEF Start, locals, Holds, Live, TasksFit, TypeOK
  <2>2. Leaving' = Leaving /\ Gone' = Gone
    BY <1>a, <1>1 DEF Start, Leaving, Gone, TypeOK
  <2> QED
    BY <2>1, <2>2, NothingPromised
<1>2. ASSUME NEW p \in Procs, Kill(p) PROVE Promise!Next
  BY <1>2, DiesWithHost DEF Promise!Next
<1>3. ASSUME NEW p \in Procs, ServerStep(p) PROVE [Promise!Next]_Promise!vars
  <2>a. call[p] # Idle
    BY <1>3 DEF ServerStep, Look, Probe, Set, Idle
  <2>b. call[p].task \in Tasks /\ (Live(call[p].task) => pc[call[p].task] = "call")
    BY <1>a, <2>a, Request1
  <2>1. CASE UNCHANGED <<proc, pc, held>>
    BY <1>s, <2>1 DEF Leaving
  <2>2. CASE Refuse(p)
    <3>1. Leaving' = Leaving
      BY <1>a, <2>b, <2>2 DEF Refuse, Leaving, TypeOK
    <3> QED
      BY <1>s, <2>2, <3>1 DEF Refuse, locals
  <2>3. CASE Live(call[p].task) /\ Entered(call[p].task) /\ UNCHANGED proc
    <3>1. cur[call[p].task] \notin held[call[p].task]
      BY <2>b, <2>3 DEF IInv, GatesHeld
    <3> QED
      BY <2>b, <2>3, <3>1, TakesInOrder DEF Promise!Next
  <2> QED
    BY <1>3, <2>1, <2>2, <2>3 DEF ServerStep, Look, Probe, Set, locals
<1>4. ASSUME NEW t \in Tasks, Enter(t) \/ Get(t) \/ Inside(t) \/ Retry(t) \/ Abandon(t)
      PROVE  UNCHANGED Promise!vars
  <2>1. Leaving' = Leaving /\ UNCHANGED <<proc, held>>
    BY <1>a, <1>4 DEF Enter, Get, Inside, Retry, Abandon, Request, Leaving, locals, TypeOK
  <2> QED
    BY <1>s, <2>1
<1>5. ASSUME NEW t \in Tasks, Pass(t) PROVE [Promise!Next]_Promise!vars
  <2>a. pc[t] = "gate" /\ Live(t) /\ UNCHANGED proc /\ locked[gate[t][cur[t]]][cur[t]] = None
    BY <1>5 DEF Pass, Awake
  <2>1. CASE Request(t) /\ UNCHANGED held
    <3>1. Leaving' = Leaving
      BY <1>a, <2>a, <2>1 DEF Request, Leaving, TypeOK
    <3> QED
      BY <1>s, <2>a, <2>1, <3>1
  <2>2. CASE Entered(t)
    <3>1. cur[t] \in Keys
      BY <1>a, <2>a DEF TasksFit, TypeOK
    <3>2. cur[t] \notin held[t]
      BY <2>a, <3>1 DEF IInv, GatesHeld, Gated, LocksAssumption
    <3> QED
      BY <2>a, <2>2, <3>2, TakesInOrder DEF Promise!Next
  <2> QED
    BY <1>5, <2>1, <2>2 DEF Pass
<1>6. ASSUME NEW t \in Tasks, Cancel(t) \/ Leave(t) PROVE Promise!Next
  <2>1. /\ UNCHANGED <<proc, held>> /\ pc' = [pc EXCEPT ![t] = "leave"]
        /\ Live(t)
    BY <1>6 DEF Cancel, Leave, Awake, locals
  <2>2. Leaving' = Leaving \cup {t} /\ ProcOf[t] \notin Gone /\ Gone' = Gone
    BY <1>a, <2>1 DEF Leaving, Gone, Live, TypeOK
  <2>3. \A u \in Tasks, k \in Keys : Holds(u, k)' <=> Holds(u, k)
    BY <2>1 DEF Holds, Live
  <2>4. OwnerMap' = OwnerMap
    BY <2>3, OwnerAfter DEF OwnerMap
  <2> QED
    BY <2>2, <2>4 DEF Promise!Next, Promise!Leave, OwnerMap, Leaving, Gone
<1>7. ASSUME NEW t \in Tasks, Release(t) PROVE Promise!Next
  BY <1>7, GivesBackInOrder DEF Promise!Next
<1>8. ASSUME NEW t \in Tasks, Done(t) PROVE Promise!Next
  <2>1. /\ UNCHANGED <<proc, held>> /\ pc' = [pc EXCEPT ![t] = "idle"]
        /\ t \in Leaving /\ held[t] = {}
    BY <1>8 DEF Done, locals, Leaving
  <2>2. Leaving' = Leaving \ {t} /\ Gone' = Gone
    BY <1>a, <2>1 DEF Leaving, Gone, TypeOK
  <2>3. \A u \in Tasks, k \in Keys : Holds(u, k)' <=> Holds(u, k)
    BY <2>1 DEF Holds, Live
  <2>4. OwnerMap' = OwnerMap
    BY <2>3, OwnerAfter DEF OwnerMap
  <2>5. {k \in Keys : OwnerMap[k] = t} = {}
    BY <2>1, Owners DEF OwnerMap, Holds
  <2>6. Promise!Return(t)
    BY <2>1, <2>2, <2>4, <2>5 DEF Promise!Return, Promise!Owned, OwnerMap, Leaving, Gone
  <2> QED
    BY <2>6 DEF Promise!Next
<1>9. CASE UNCHANGED vars
  BY <1>s, <1>9 DEF vars, locals, Leaving
<1> QED
  BY <1>1, <1>2, <1>3, <1>4, <1>5, <1>6, <1>7, <1>8, <1>9 DEF Next, TaskStep

\* KeyedUnifiedLock implements SortedLocks: one owner per key, lists collected in their
\* order and given back in the reverse one, and nothing kept by a process that died.
THEOREM ListsAreOrdered == ASSUME LocksAssumption PROVE Spec => LocksInOrder
<1>1. LocksAssumption /\ Init => Promise!Init
  <2> SUFFICES ASSUME Init PROVE Promise!Init
    OBVIOUS
  <2>1. \A k \in Keys : OwnerOf(k) = None
    BY DEF Init, OwnerOf, Holds
  <2>2. Leaving = {} /\ Gone = {}
    BY DEF Init, Leaving, Gone, LocksAssumption
  <2> QED
    BY <2>1, <2>2 DEF Promise!Init, Leaving, Gone
<1>2. IInv /\ MutualExclusion /\ MutualExclusion' /\ [Next]_vars
        => [Promise!Next]_Promise!vars
  BY OrderStep
<1> QED
  BY <1>1, <1>2, Inductive, KeysExclude, PTL DEF Spec, LocksInOrder, Promise!Spec
=============================================================================
