---------------------- MODULE ReleaseOrchestratorProofs ----------------------
(***************************************************************************)
(* Theorems about ReleaseOrchestrator: the runner and the route change     *)
(* nothing of what ReleaseHandoverProofs establishes, and the entry reaches *)
(* the slot that writes.                                                   *)
(***************************************************************************)
EXTENDS ReleaseOrchestrator, ReleaseHandoverProofs

-----------------------------------------------------------------------------
(* The composition implements ReleaseHandover.                             *)

\* What the runner does to the tables is a transaction of the operator.
LEMMA ProceedsByTransactions ==
  ASSUME NEW r \in Releases, Proceed(r)
  PROVE  ControlStep /\ UNCHANGED routing
BY DEF Proceed, AbortRun, AdvanceRun, RollbackRun, ControlStep

LEMMA RouteStepIsStep ==
  ASSUME [RouteNext]_allVars PROVE [Next]_vars
<1>1. CASE System
  BY <1>1 DEF System, Next
<1>2. CASE \E r \in Releases : Start(r)
  BY <1>2 DEF Start, Next, ControlStep
<1>3. CASE \E r \in Releases : Proceed(r)
  BY <1>3, ProceedsByTransactions DEF Next
<1>4. CASE \/ \E a \in Actions : Launch(a)
           \/ Exit \/ GiveUp
           \/ \E r \in Releases : Capture(r) \/ Deploy(r)
  BY <1>4 DEF Launch, Exit, GiveUp, Capture, Deploy
<1>5. CASE (\E s \in Slots : Patch(s)) \/ \E s \in Slots \cup {"both"} : LandPatch(s)
  BY <1>5 DEF Patch, LandPatch
<1>6. CASE UNCHANGED allVars
  BY <1>6 DEF allVars
<1> QED
  BY <1>1, <1>2, <1>3, <1>4, <1>5, <1>6 DEF RouteNext

\* The runner of release/orchestrator.py, killed and launched again at will, and the
\* requests it sends to Kubernetes, do to the tables of a release what ReleaseHandover
\* allows, so that every theorem about that module holds of the composition.
THEOREM RunsAreHandovers == RouteSpec => Spec
<1>1. RouteInit => Init
  BY DEF RouteInit
<1>2. [RouteNext]_allVars => [Next]_vars
  BY RouteStepIsStep
<1> QED
  BY <1>1, <1>2, PTL DEF RouteSpec, Spec

-----------------------------------------------------------------------------
(* The route.                                                              *)

LEMMA SlotsAreNoPair == "both" \notin Slots
BY DEF Slots

\* Instances that were told to retire and still run.
Leaving == retiring \ closed

\* A step that leaves slot, gate and route alone and tells nobody to retire.
LEMMA RouteInvKept ==
  ASSUME RouteInv, RouteTypeOK', PreparationFits', UNCHANGED <<activeSlot, route, delayed, delays>>,
         gateOpen' => gateOpen, Leaving' \subseteq Leaving
  PROVE  RouteInv'
BY DEF RouteInv, RouteReachesWriter, RouteIsWriter, RetiringUnrouted, Leaving

\* While requests may lead elsewhere nobody is leaving.
LEMMA NobodyLeaves ==
  ASSUME IInv, phase \notin {"RETIRING", "ROLLBACK_RETIRING", "ABORTING"}
  PROVE  Leaving = {}
BY DEF IInv, RetiringFits, Leaving

LEMMA RouteTypeStep ==
  ASSUME RouteTypeOK, [RouteNext]_allVars PROVE RouteTypeOK'
<1> USE DEF RouteTypeOK, routing
<1>1. CASE UNCHANGED routing
  BY <1>1
<1>2. CASE (\E a \in Actions : Launch(a)) \/ Exit \/ GiveUp
  BY <1>2 DEF Launch, Exit, GiveUp, Actions
<1>5. CASE \E r \in Releases : Capture(r) \/ Deploy(r)
  BY <1>5 DEF Capture, Deploy
<1>3. ASSUME NEW s \in Slots, Patch(s) PROVE RouteTypeOK'
  <2>1. Step(s) \in Slots \cup {"both"}
    BY DEF Step
  <2>2. delays < MaxDelayed /\ delays' = delays + 1 => delays' \in 0..MaxDelayed
    BY MaxDelayedAssumption DEF MaxDelayedAssumption
  <2> QED
    BY <1>3, <2>1, <2>2 DEF Patch
<1>4. ASSUME NEW s \in Slots \cup {"both"}, LandPatch(s) PROVE RouteTypeOK'
  BY <1>4 DEF LandPatch
<1> QED
  BY <1>1, <1>2, <1>3, <1>4, <1>5, ProceedsByTransactions
     DEF RouteNext, System, Start, allVars

\* The phases from the drain on, that PreparationFits speaks of.
Prepares == {"DRAINING", "READ_SWITCHED", "WRITER_SWITCHED", "RETIRING",
             "ROLLBACK_DRAINING", "ROLLBACK_WRITER_SWITCHED", "ROLLBACK_RETIRING"}

LEMMA PreparationPhases ==
  PreparationFits <=> /\ phase \in Prepares => prepared[identity] = "deployed"
                      /\ phase = "ABORTING" => prepared[identity] # "no"
BY DEF PreparationFits, Prepares, ForwardPhases

LEMMA PreparationPhasesNext ==
  PreparationFits' <=> /\ phase' \in Prepares => prepared'[identity'] = "deployed"
                       /\ phase' = "ABORTING" => prepared'[identity'] # "no"
BY DEF PreparationFits, Prepares, ForwardPhases

\* A transaction that keeps the phase among those, or that enters them from a complete
\* preparation, or that aborts behind a verified route.
LEMMA ProceedKeepsPreparation ==
  ASSUME IInv, PreparationFits, NEW r \in Releases, Proceed(r) PROVE PreparationFits'
<1> USE PreparationPhases, PreparationPhasesNext DEF Prepares
<1>1. UNCHANGED <<prepared, identity>>
  <2>1. UNCHANGED prepared
    BY ProceedsByTransactions DEF routing
  <2>2. UNCHANGED identity
    BY DEF Proceed, AbortRun, AdvanceRun, RollbackRun, StartDrain, SwitchRead,
       TransferWriter, BeginRetiring, Complete, BeginRollback, ReverseTransfer,
       RetireRollback, FinishRollback, Abort, Retire, FinishAbort, Advance, MoveWriter,
       scope
  <2> QED
    BY <2>1, <2>2
<1>2. CASE StartDrain(r) /\ prepared[r] = "deployed"
  BY <1>1, <1>2 DEF StartDrain, Owns, Enter
<1>3. CASE Abort(r) /\ Verify(activeSlot)
  <2>1. phase' = "ABORTING" /\ phase \in BeforeMove /\ identity # None
    BY <1>3 DEF Abort, Enter, Owns, BeforeMove, Verify, Expected
  <2>2. activeSlot = previous[identity].slot
    BY <2>1 DEF IInv, ScopeFits
  <2> QED
    BY <1>1, <1>3, <2>1, <2>2 DEF Verify, Expected
<1>4. CASE \/ SwitchRead(r) \/ TransferWriter(r) \/ BeginRetiring(r) \/ BeginRollback(r)
           \/ ReverseTransfer(r) \/ RetireRollback(r)
  <2>1. phase \in Prepares /\ phase' \in Prepares
    BY <1>4 DEF SwitchRead, TransferWriter, BeginRetiring, BeginRollback, ReverseTransfer,
       RetireRollback, Advance, Owns, Enter
  <2> QED
    BY <1>1, <2>1
<1>5. CASE Complete(r) \/ FinishRollback(r) \/ FinishAbort(r)
  BY <1>5 DEF Complete, FinishRollback, FinishAbort, Advance, Enter
<1>6. CASE Retire(r)
  BY <1>1, <1>6 DEF Retire, scope
<1> QED
  BY <1>2, <1>3, <1>4, <1>5, <1>6 DEF Proceed, AbortRun, AdvanceRun, RollbackRun

LEMMA PreparationStep ==
  ASSUME IInv, PreparationFits, RouteTypeOK, [RouteNext]_allVars PROVE PreparationFits'
<1> USE PreparationPhases, PreparationPhasesNext DEF Prepares
<1>1. CASE UNCHANGED <<phase, identity, prepared>>
  BY <1>1
<1>2. ASSUME NEW r \in Releases, Capture(r) \/ Deploy(r) PROVE PreparationFits'
  BY <1>2 DEF Capture, Deploy, Owns, vars, scope
<1>3. ASSUME NEW r \in Releases, Start(r) PROVE PreparationFits'
  BY <1>3 DEF Start, Begin
<1>4. ASSUME NEW r \in Releases, Proceed(r) PROVE PreparationFits'
  BY <1>4, ProceedKeepsPreparation
<1>5. CASE System
  <2>1. WorkStep /\ UNCHANGED prepared
    BY <1>5 DEF System, WorkStep, routing
  <2>2. UNCHANGED <<phase, identity>>
    BY <2>1, WorkKeeps DEF Kept
  <2> QED
    BY <1>1, <2>1, <2>2
<1>6. CASE \/ \E a \in Actions : Launch(a)
           \/ Exit \/ GiveUp \/ UNCHANGED allVars
           \/ \E s \in Slots : Patch(s)
           \/ \E s \in Slots \cup {"both"} : LandPatch(s)
  BY <1>1, <1>6 DEF Launch, Exit, GiveUp, allVars, Patch, LandPatch, vars, scope, routing
<1> QED
  BY <1>2, <1>3, <1>4, <1>5, <1>6 DEF RouteNext

\* The steps that are not the runner's tell nobody to retire.
LEMMA SystemKeepsRoute ==
  ASSUME RouteInv, RouteTypeOK', PreparationFits', System PROVE RouteInv'
<1>1. WorkStep /\ UNCHANGED routing
  BY DEF System, WorkStep
<1>2. UNCHANGED <<activeSlot, gateOpen>>
  BY <1>1, WorkKeeps DEF Kept
<1>3. Leaving' \subseteq Leaving
  <2>1. CASE UNCHANGED <<retiring, closed>>
    BY <2>1 DEF Leaving
  <2>2. ASSUME NEW i \in Instances, Close(i) PROVE Leaving' \subseteq Leaving
    BY <2>2 DEF Close, Leaving
  <2> QED
    BY <2>1, <2>2, <1>1, WorkRetires
<1> QED
  BY <1>1, <1>2, <1>3, RouteInvKept DEF routing

\* switch_read_route(): while the gate is open only an abort sets the selector, and it
\* sets the slot that writes.
LEMMA PatchKeepsRoute ==
  ASSUME IInv, RouteInv, RouteTypeOK', PreparationFits', NEW s \in Slots, Patch(s)
  PROVE  RouteInv'
<1>1. UNCHANGED vars
  BY DEF Patch
<1>2. UNCHANGED <<activeSlot, gateOpen, phase, retiring, closed>>
  BY <1>1 DEF vars, scope, instances
<1>3. /\ phase \in {"PREPARED", "DRAINING", "READ_SWITCHED", "ROLLBACK_DRAINING"}
      /\ gateOpen => s = activeSlot
  BY DEF Patch, Wants, IInv, ScopeFits
<1>4. Leaving = {} /\ Leaving' = {}
  BY <1>2, <1>3, NobodyLeaves DEF Leaving
<1>5. Step(s) \in {s, "both"} /\ (Step(s) = s <=> route = "both")
  BY SlotsAreNoPair DEF Step
<1>6. CASE route' = Step(s) /\ delayed' = {} /\ delays' = delays
  <2>1. delays = 0 /\ gateOpen => FALSE
    BY <1>3 DEF RouteInv, RouteIsWriter, Patch
  <2> QED
    BY <1>2, <1>3, <1>4, <1>5, <1>6, <2>1
       DEF RouteInv, RouteReachesWriter, RouteIsWriter, RetiringUnrouted, Leaving
<1>7. CASE delayed' = delayed \cup {Step(s)} /\ delays' = delays + 1 /\ route' = route
  <2>1. delays' # 0
    BY <1>7 DEF RouteInv, RouteTypeOK
  <2> QED
    BY <1>2, <1>3, <1>5, <1>7, <2>1, SlotsAreNoPair
       DEF RouteInv, RouteReachesWriter, RouteIsWriter, RetiringUnrouted
<1> QED
  BY <1>6, <1>7 DEF Patch

\* A late request leads to both slots or, while the gate is open, to the one that writes.
LEMMA LandKeepsRoute ==
  ASSUME RouteInv, RouteTypeOK', PreparationFits',
         NEW to \in Slots \cup {"both"}, LandPatch(to)
  PROVE  RouteInv'
<1>1. UNCHANGED <<activeSlot, gateOpen, retiring, closed, delays>> /\ route' = to /\ delayed' = {}
  BY DEF LandPatch, vars, scope, instances
<1>2. delays # 0
  BY DEF RouteInv, LandPatch
<1>3. gateOpen => to \in {activeSlot, "both"}
  BY DEF RouteInv, RouteTypeOK, LandPatch
<1> QED
  BY <1>1, <1>2, <1>3 DEF RouteInv, RouteReachesWriter, RouteIsWriter, RetiringUnrouted

\* The transactions that keep the slot and do not open the gate.
LEMMA QuietTransactions ==
  ASSUME NEW r \in Releases,
         \/ Begin(r) \/ StartDrain(r) \/ SwitchRead(r) \/ BeginRetiring(r) \/ Complete(r)
         \/ BeginRollback(r) \/ RetireRollback(r) \/ FinishRollback(r) \/ FinishAbort(r)
  PROVE  /\ UNCHANGED <<activeSlot, retiring, closed>>
         /\ gateOpen' \in {gateOpen, FALSE}
BY DEF Begin, StartDrain, SwitchRead, BeginRetiring, Complete, BeginRollback,
   RetireRollback, FinishRollback, FinishAbort, Advance, instances

\* The gate is opened, and the other slot retired, only behind a verified route.
LEMMA ProceedKeepsRoute ==
  ASSUME HandoverAssumption, IInv, RouteInv, RouteTypeOK', PreparationFits',
         NEW r \in Releases, Proceed(r)
  PROVE  RouteInv'
<1> USE DEF Verify
<1>1. UNCHANGED <<route, delayed, delays>>
  BY ProceedsByTransactions DEF routing
<1>2. \/ \/ StartDrain(r) \/ SwitchRead(r) \/ BeginRetiring(r) \/ Complete(r)
         \/ BeginRollback(r) \/ RetireRollback(r) \/ FinishRollback(r) \/ FinishAbort(r)
      \/ route = Other(activeSlot) /\ Move(r)
      \/ route = activeSlot /\ Retire(r)
      \/ route = activeSlot /\ Abort(r)
  BY DEF Proceed, AbortRun, AdvanceRun, RollbackRun, Move
<1>3. CASE \/ StartDrain(r) \/ SwitchRead(r) \/ BeginRetiring(r) \/ Complete(r)
           \/ BeginRollback(r) \/ RetireRollback(r) \/ FinishRollback(r) \/ FinishAbort(r)
  <2>1. UNCHANGED <<activeSlot, retiring, closed>> /\ (gateOpen' => gateOpen)
    BY <1>3, QuietTransactions
  <2> QED
    BY <1>1, <2>1, RouteInvKept DEF Leaving
<1>4. CASE route = Other(activeSlot) /\ Move(r)
  <2>1. activeSlot' = route /\ route \in Slots /\ UNCHANGED <<retiring, closed>>
    BY <1>4, MoveIsClean, SlotsAndPhases DEF IInv, TypeOK, instances
  <2>2. Leaving = {}
    BY <1>4, MoveIsClean DEF IInv, Leaving
  <2> QED
    BY <1>1, <2>1, <2>2, SlotsAreNoPair
       DEF RouteInv, RouteReachesWriter, RouteIsWriter, RetiringUnrouted, Leaving
<1>5. CASE route = activeSlot /\ Retire(r)
  <2>1. /\ UNCHANGED <<activeSlot, gateOpen, closed>>
        /\ retiring' = retiring \cup OpenInstances(Other(activeSlot))
    BY <1>5 DEF Retire, scope
  <2>2. \A i \in OpenInstances(Other(activeSlot)) : Other(SlotOf[i]) = activeSlot
    BY SlotsAndPhases DEF OpenInstances, IInv, TypeOK
  <2> QED
    BY <1>1, <1>5, <2>1, <2>2
       DEF RouteInv, RouteReachesWriter, RouteIsWriter, RetiringUnrouted
<1>6. CASE route = activeSlot /\ Abort(r)
  <2>1. UNCHANGED <<activeSlot, retiring, closed>>
    BY <1>6 DEF Abort, instances
  <2>2. route \in Slots
    BY <1>6 DEF IInv, TypeOK
  <2> QED
    BY <1>1, <1>6, <2>1, <2>2, SlotsAreNoPair
       DEF RouteInv, RouteReachesWriter, RouteIsWriter, RetiringUnrouted
<1> QED
  BY <1>2, <1>3, <1>4, <1>5, <1>6

LEMMA RouteInvStep ==
  ASSUME HandoverAssumption, IInv, RouteInv, [RouteNext]_allVars PROVE RouteInv'
<1>1. RouteTypeOK' /\ PreparationFits'
  BY RouteTypeStep, PreparationStep DEF RouteInv
<1>2. CASE System
  BY <1>1, <1>2, SystemKeepsRoute
<1>3. ASSUME NEW r \in Releases, Start(r) PROVE RouteInv'
  <2>1. Begin(r) /\ UNCHANGED routing
    BY <1>3 DEF Start
  <2>2. UNCHANGED <<activeSlot, retiring, closed>> /\ (gateOpen' => gateOpen)
    BY <2>1, QuietTransactions
  <2> QED
    BY <1>1, <2>1, <2>2, RouteInvKept DEF routing, Leaving
<1>4. ASSUME NEW r \in Releases, Proceed(r) PROVE RouteInv'
  BY <1>1, <1>4, ProceedKeepsRoute
<1>5. CASE \/ \E a \in Actions : Launch(a)
           \/ Exit \/ GiveUp \/ UNCHANGED allVars
           \/ \E r \in Releases : Capture(r) \/ Deploy(r)
  <2>1. UNCHANGED vars /\ UNCHANGED <<route, delayed, delays>>
    BY <1>5 DEF Launch, Exit, GiveUp, Capture, Deploy, allVars, routing
  <2>2. UNCHANGED <<activeSlot, gateOpen, retiring, closed>>
    BY <2>1 DEF vars, scope, instances
  <2> QED
    BY <1>1, <2>1, <2>2, RouteInvKept DEF Leaving
<1>6. ASSUME NEW s \in Slots, Patch(s) PROVE RouteInv'
  BY <1>1, <1>6, PatchKeepsRoute
<1>7. ASSUME NEW s \in Slots \cup {"both"}, LandPatch(s) PROVE RouteInv'
  BY <1>1, <1>7, LandKeepsRoute
<1> QED
  BY <1>2, <1>3, <1>4, <1>5, <1>6, <1>7 DEF RouteNext

-----------------------------------------------------------------------------
(* What is promised of the entry.                                          *)

\* Through every release, abort, rollback and restart of the runner, and with late
\* requests of earlier ones, the route and what may still become of it are as RouteInv
\* says: while writes are admitted the entry leads to the slot that writes, and nobody
\* aborts or closes the gate before the artifact to go back to is captured.
THEOREM RouteIsSafe == ASSUME HandoverAssumption PROVE RouteSpec => []RouteInv
<1>1. RouteInit => RouteInv
  BY MaxDelayedAssumption DEF MaxDelayedAssumption, RouteInit, Init, RouteInv, RouteTypeOK,
     RouteReachesWriter, RouteIsWriter, RetiringUnrouted, PreparationFits,
     ForwardPhases, Actions, Slots
<1>2. IInv /\ RouteInv /\ [RouteNext]_allVars => RouteInv'
  BY RouteInvStep
<1>3. RouteSpec => []IInv
  BY RunsAreHandovers, Inductive, PTL
<1> QED
  BY <1>1, <1>2, <1>3, PTL DEF RouteSpec

\* As long as every PATCH is answered in time, the entry leads to the slot that writes
\* and to no other while writes are admitted.
THEOREM EntryFollowsWriter == ASSUME HandoverAssumption PROVE RouteSpec => []RouteIsWriter
<1>1. RouteInv => RouteIsWriter
  BY DEF RouteInv
<1> QED
  BY <1>1, RouteIsSafe, PTL

\* retire_old_instances() tells an instance to close only when the entry leads away
\* from its slot, and until it has closed the entry does not come back to it.
THEOREM RetiredAreUnrouted == ASSUME HandoverAssumption PROVE RouteSpec => []RetiringUnrouted
<1>1. RouteInv => RetiringUnrouted
  BY DEF RouteInv
<1> QED
  BY <1>1, RouteIsSafe, PTL
-----------------------------------------------------------------------------
(* Without a failure the entry is served.                                  *)

LEMMA CalmStepIsRouteStep ==
  ASSUME [CalmRouteNext]_allVars PROVE [RouteNext]_allVars
<1>1. CASE CalmSystem
  <2>1. /\ UNCHANGED routing /\ PodsDeployed
        /\ InstanceStep \/ TicketStep \/ CommandStep \/ Expire
    BY <1>1 DEF CalmSystem, Retiring, Finish, InstanceStep, TicketStep, CommandStep
  <2> QED
    BY <2>1 DEF RouteNext, System
<1>2. CASE CalmRun
  BY <1>2 DEF CalmRun, Refused, Exit, RouteNext, Actions
<1> QED
  BY <1>1, <1>2 DEF CalmRouteNext, RouteNext

\* Somebody takes the requests sent to the slot; before an instance of the blue one has
\* registered nothing is promised of it.
Serves(s) ==
    \/ Available(s) # {}
    \/ s = "blue" /\ \A i \in registered : SlotOf[i] # "blue"

\* Whatever is in the selector, or may still come into it, leads to an instance that
\* nobody has told to retire, and such an instance is up.
CalmInv ==
    /\ \A i \in registered \ retiring : life[i] = "up"
    /\ route = "both" => \E s \in Slots : Serves(s)
    /\ \A s \in Slots : s = route \/ s \in delayed => Serves(s)

\* The instances after a step: none leaves, none stops unless told to retire.
LEMMA CalmInstances ==
  ASSUME IInv, \A i \in registered \ retiring : life[i] = "up", CalmSystem
  PROVE  /\ \A i \in registered' \ retiring' : life'[i] = "up"
         /\ registered \subseteq registered'
         /\ OpenInstances("blue") \ retiring \subseteq Available("blue")'
         /\ OpenInstances("green") \ retiring \subseteq Available("green")'
         /\ \A i \in registered' \ registered : i \in Available(SlotOf[i])'
<1> USE DEF IInv, TypeOK, InstancesLive, Available, OpenInstances, instances, memory
<1>1. ASSUME NEW i \in Instances, Register(i)
      PROVE  /\ registered' = registered \cup {i} /\ UNCHANGED <<retiring, closed>>
             /\ life' = [life EXCEPT ![i] = "up"]
             /\ i \notin retiring /\ i \notin closed
  BY <1>1 DEF Register
<1>2. ASSUME NEW i \in Instances, Retiring(i) \/ Drain(i)
      PROVE  /\ UNCHANGED <<registered, retiring, closed>>
             /\ i \in retiring /\ \A j \in Instances \ {i} : life'[j] = life[j]
  BY <1>2 DEF Retiring, Stop, Drain
<1>3. ASSUME NEW i \in Instances, Close(i)
      PROVE  /\ UNCHANGED <<registered, retiring>> /\ closed' = closed \cup {i}
             /\ i \in retiring /\ \A j \in Instances \ {i} : life'[j] = life[j]
  BY <1>3 DEF Close
<1>4. CASE UNCHANGED <<registered, retiring, closed, life>>
  BY <1>4
<1>5. \/ \E i \in Instances : Register(i)
      \/ \E i \in Instances : Retiring(i) \/ Drain(i)
      \/ \E i \in Instances : Close(i)
      \/ UNCHANGED <<registered, retiring, closed, life>>
  <2>1. ASSUME NEW i \in Instances, NEW t \in Tickets,
               Refresh(i) \/ Claim(i, t) \/ AdmitWriter(i, t, None)
        PROVE  UNCHANGED <<registered, retiring, closed, life>>
    BY <2>1 DEF Refresh, Claim, AdmitWriter
  <2>2. ASSUME NEW i \in Instances, NEW c \in Commands, Enqueue(i, c)
        PROVE  UNCHANGED <<registered, retiring, closed, life>>
    BY <2>2 DEF Enqueue
  <2>3. ASSUME NEW t \in Tickets, BeginOperation(t) \/ EndOperation(t) \/ FinishTicket(t)
        PROVE  UNCHANGED <<registered, retiring, closed, life>>
    BY <2>3 DEF BeginOperation, EndOperation, FinishTicket
  <2>4. ASSUME NEW c \in Commands, Finish(c)
        PROVE  UNCHANGED <<registered, retiring, closed, life>>
    BY <2>4 DEF Finish, FinishCommand
  <2>5. ASSUME Expire PROVE UNCHANGED <<registered, retiring, closed, life>>
    BY <2>5 DEF Expire
  <2>6. ASSUME NEW i \in Instances, Refresh(i)
        PROVE  UNCHANGED <<registered, retiring, closed, life>>
    BY <2>6 DEF Refresh
  <2> QED
    BY <2>1, <2>2, <2>3, <2>4, <2>5, <2>6 DEF CalmSystem
<1> QED
  BY <1>1, <1>2, <1>3, <1>4, <1>5

LEMMA CalmSystemKeeps ==
  ASSUME IInv, CalmInv, CalmSystem PROVE CalmInv'
<1>1. UNCHANGED <<route, delayed>>
  BY DEF CalmSystem, routing
<1>2. \A s \in Slots : Serves(s) => Serves(s)'
  <2>1. \A s \in Slots : Available(s) \subseteq Available(s)'
    BY CalmInstances DEF CalmInv, Slots, Available
  <2> QED
    BY <2>1, CalmInstances DEF CalmInv, Serves
<1> QED
  BY <1>1, <1>2, CalmInstances DEF CalmInv

\* A patch goes from one slot to both, or to one only when both are served.
LEMMA PatchServes ==
  ASSUME RouteInv, CalmInv, NEW s \in Slots, Patch(s) PROVE CalmInv'
<1>1. UNCHANGED <<registered, retiring, closed, life>>
  BY DEF Patch, vars, instances, memory
<1>2. \A q \in Slots : Serves(q)' = Serves(q)
  BY <1>1 DEF Serves, Available, OpenInstances
<1>3. route = "both" => \A q \in Slots : Serves(q)
  BY DEF Patch, Verified, VerifiedPods, Ready, Serves, Slots
<1>4. route # "both" => route \in Slots /\ Serves(route) /\ Step(s) = "both"
  BY DEF RouteInv, RouteTypeOK, CalmInv, Step
<1>5. route = "both" => Step(s) = s
  BY DEF Step
<1>6. \E q \in Slots : Serves(q)
  BY <1>3, <1>4
<1>7. \A i \in registered' \ retiring' : life'[i] = "up"
  BY <1>1 DEF CalmInv
<1>8. \A q \in Slots : q = route' \/ q \in delayed' => Serves(q)
  BY <1>3, <1>4, <1>5, SlotsAreNoPair DEF CalmInv, Patch
<1> QED
  BY <1>2, <1>6, <1>7, <1>8 DEF CalmInv

LEMMA LandServes ==
  ASSUME RouteInv, CalmInv, NEW to \in Slots \cup {"both"}, LandPatch(to) PROVE CalmInv'
<1>1. UNCHANGED <<registered, retiring, closed, life>> /\ route' = to /\ delayed' = {}
  BY DEF LandPatch, vars, instances, memory
<1>2. \A q \in Slots : Serves(q)' = Serves(q)
  BY <1>1 DEF Serves, Available, OpenInstances
<1>3. to \in delayed
  BY DEF LandPatch
<1>4. to = "both" => \E q \in Slots : Serves(q)
  BY <1>3, SlotsAreNoPair DEF RouteInv, RouteTypeOK, CalmInv
<1> QED
  BY <1>1, <1>2, <1>3, <1>4, SlotsAreNoPair DEF CalmInv

\* Of the transactions only retire_old_instances() takes instances away, and the route
\* it has verified leads to the other slot.
LEMMA ProceedServes ==
  ASSUME IInv, RouteInv, CalmInv, NEW r \in Releases, Proceed(r) PROVE CalmInv'
<1>1. UNCHANGED <<route, delayed, registered, closed, life>>
  BY ProceedsByTransactions, ControlKeeps DEF routing, memory
<1>2. CASE UNCHANGED retiring
  BY <1>1, <1>2 DEF CalmInv, Serves, Available, OpenInstances
<1>3. CASE Retire(r) /\ route = activeSlot
  <2>1. retiring' = retiring \cup OpenInstances(Other(activeSlot)) /\ UNCHANGED activeSlot
    BY <1>3 DEF Retire, scope
  <2>2. activeSlot \in Slots /\ route \in Slots /\ delayed \cap Slots = {}
    BY <1>3, SlotsAreNoPair DEF IInv, TypeOK, RouteInv
  <2>3. Available(activeSlot)' = Available(activeSlot)
    BY <1>1, <2>1, <2>2, SlotsAndPhases DEF Available, OpenInstances
  <2>4. Serves(activeSlot)' = Serves(activeSlot)
    BY <1>1, <2>1, <2>3 DEF Serves
  <2> QED
    BY <1>1, <1>3, <2>1, <2>2, <2>4, SlotsAreNoPair DEF CalmInv
<1>4. UNCHANGED retiring \/ (Retire(r) /\ route = activeSlot)
  <2>1. ASSUME Move(r) PROVE UNCHANGED retiring
    BY <2>1 DEF Move, TransferWriter, ReverseTransfer, MoveWriter, instances
  <2>2. ASSUME Abort(r) PROVE UNCHANGED retiring
    BY <2>2 DEF Abort, instances
  <2> QED
    BY <2>1, <2>2, QuietTransactions
       DEF Proceed, AbortRun, AdvanceRun, RollbackRun, Verify, Move
<1> QED
  BY <1>2, <1>3, <1>4

LEMMA CalmInvStep ==
  ASSUME IInv, RouteInv, CalmInv, [CalmRouteNext]_allVars PROVE CalmInv'
<1>1. ASSUME UNCHANGED <<registered, retiring, closed, life, route, delayed>> PROVE CalmInv'
  BY <1>1 DEF CalmInv, Serves, Available, OpenInstances
<1>2. CASE \/ \E a \in {"advance", "abort"} : Launch(a)
           \/ GiveUp \/ Refused
           \/ \E r \in Releases : Capture(r) \/ Deploy(r)
           \/ UNCHANGED allVars
  BY <1>1, <1>2 DEF Launch, GiveUp, Refused, Capture, Deploy, allVars, vars, instances, memory, routing
<1>3. ASSUME NEW r \in Releases, Start(r) PROVE CalmInv'
  BY <1>1, <1>3 DEF Start, Begin, instances, memory, routing
<1> QED
  BY <1>2, <1>3, CalmSystemKeeps, PatchServes, LandServes, ProceedServes
     DEF CalmRouteNext, CalmRun

\* A runner and its late requests never leave the entry without an instance: a slot is
\* retired only behind a route that is verified to lead to the other one, and a request
\* that is applied late names a slot that was served when the route led to both.
THEOREM EntryIsServed ==
  ASSUME HandoverAssumption PROVE CalmRouteSpec => []EntryServed
<1>1. CalmRouteSpec => RouteSpec
  <2>1. [CalmRouteNext]_allVars => [RouteNext]_allVars
    BY CalmStepIsRouteStep
  <2> QED
    BY <2>1, PTL DEF CalmRouteSpec, RouteSpec
<1>2. CalmRouteSpec => [](IInv /\ RouteInv)
  BY <1>1, RunsAreHandovers, Inductive, RouteIsSafe, PTL
<1>3. RouteInit => CalmInv
  BY SlotsAreNoPair DEF RouteInit, Init, CalmInv, Serves
<1>4. IInv /\ RouteInv /\ CalmInv /\ [CalmRouteNext]_allVars => CalmInv'
  BY CalmInvStep
<1>5. RouteInv /\ CalmInv => EntryServed
  <2> SUFFICES ASSUME RouteInv, CalmInv, NEW b \in registered, SlotOf[b] = "blue"
               PROVE  \E s \in Slots : /\ route \in {s, "both"}
                                       /\ \E i \in Available(s) : life[i] = "up"
    BY DEF EntryServed
  <2>1. PICK s \in Slots : route \in {s, "both"} /\ Serves(s)
    BY DEF RouteInv, RouteTypeOK, CalmInv
  <2>2. PICK i \in Available(s) : TRUE
    BY <2>1 DEF Serves
  <2>3. life[i] = "up"
    BY <2>2 DEF CalmInv, Available, OpenInstances
  <2> QED
    BY <2>1, <2>2, <2>3
<1> QED
  BY <1>2, <1>3, <1>4, <1>5, PTL DEF CalmRouteSpec
=============================================================================
