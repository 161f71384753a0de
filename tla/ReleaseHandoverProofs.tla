------------------------ MODULE ReleaseHandoverProofs ------------------------
(***************************************************************************)
(* Theorems about ReleaseHandover for every set of instances, tickets,     *)
(* commands, sources and releases.                                         *)
(***************************************************************************)
EXTENDS ReleaseHandover, TLAPS

-----------------------------------------------------------------------------
(* What the two kinds of steps leave alone.                                *)

\* The operator's transactions touch the scope, the releases and the retiring flag.
LEMMA ControlKeeps ==
  ASSUME ControlStep
  PROVE  UNCHANGED <<registered, closed, tickets, commands, cleanup, op, fenced, memory>>
<1> USE DEF tickets, commands, cleanup, memory, instances, scope, releases
<1>1. ASSUME NEW r \in Releases,
             \/ Begin(r) \/ StartDrain(r) \/ SwitchRead(r) \/ BeginRetiring(r) \/ Retire(r)
             \/ Complete(r) \/ BeginRollback(r) \/ RetireRollback(r) \/ FinishRollback(r)
             \/ Abort(r) \/ FinishAbort(r)
      PROVE  UNCHANGED <<registered, closed, tickets, commands, cleanup, op, fenced, memory>>
  BY <1>1 DEF Begin, StartDrain, SwitchRead, BeginRetiring, Retire, Complete, BeginRollback,
     RetireRollback, FinishRollback, Abort, FinishAbort, Advance
<1>2. ASSUME NEW r \in Releases, TransferWriter(r) \/ ReverseTransfer(r)
      PROVE  UNCHANGED <<registered, closed, tickets, commands, cleanup, op, fenced, memory>>
  BY <1>2 DEF TransferWriter, ReverseTransfer, MoveWriter
<1> QED
  BY <1>1, <1>2 DEF ControlStep

\* Everything else leaves the scope, but for its deadline, and the releases alone.
WorkStep ==
    InstanceStep \/ TicketStep \/ CommandStep \/ DiscoverOrphan \/ Recover \/ Expire
Kept == <<activeSlot, config, epoch, owner, phase, gateOpen, identity, releases>>

LEMMA WorkKeeps == ASSUME WorkStep PROVE UNCHANGED Kept
<1> USE DEF Kept, scope, releases
<1>1. ASSUME NEW i \in Instances,
             Register(i) \/ Refresh(i) \/ Stop(i) \/ Drain(i) \/ Close(i) \/ Crash(i)
      PROVE  UNCHANGED Kept
  BY <1>1 DEF Register, Refresh, Stop, Drain, Close, Crash
<1>2. ASSUME NEW i \in Instances, NEW t, NEW p, Claim(i, t) \/ AdmitWriter(i, t, p)
      PROVE  UNCHANGED Kept
  BY <1>2 DEF Claim, AdmitWriter
<1>3. ASSUME NEW i \in Instances, NEW c \in Commands, Enqueue(i, c) PROVE UNCHANGED Kept
  BY <1>3 DEF Enqueue
<1>4. ASSUME NEW t \in Tickets,
             \/ BeginOperation(t) \/ CheckTicket(t) \/ SendWrite(t) \/ LandWrite(t)
             \/ EndOperation(t) \/ FailOperation(t) \/ FinishTicket(t) \/ LoseFinish(t)
      PROVE  UNCHANGED Kept
  BY <1>4 DEF BeginOperation, CheckTicket, SendWrite, LandWrite, EndOperation, FailOperation,
     FinishTicket, LoseFinish
<1>5. ASSUME NEW t \in Tickets, NEW x \in Refs, ClaimCleanup(t, x) \/ FinishCleanup(t, x)
      PROVE  UNCHANGED Kept
  BY <1>5 DEF ClaimCleanup, FinishCleanup
<1>6. ASSUME CommandStep \/ DiscoverOrphan \/ Recover \/ Expire PROVE UNCHANGED Kept
  BY <1>6 DEF CommandStep, FinishCommand, DiscoverOrphan, Recover, Expire
<1> QED
  BY <1>1, <1>2, <1>3, <1>4, <1>5, <1>6 DEF WorkStep, InstanceStep, TicketStep

-----------------------------------------------------------------------------
(* Type correctness, one group of variables after the other.               *)

ScopeTypes ==
    /\ activeSlot \in Slots
    /\ config \in Configs
    /\ epoch \in Nat
    /\ owner \in Releases \cup {None}
    /\ phase \in Phases
    /\ gateOpen \in BOOLEAN
    /\ identity \in Releases \cup {None}
    /\ relPhase \in [Releases -> {"none"} \cup Phases]
    /\ previous \in [Releases -> Previous]
    /\ approval \subseteq Releases
InstanceTypes ==
    /\ registered \subseteq Instances
    /\ retiring \subseteq Instances
    /\ closed \subseteq Instances
    /\ life \in [Instances -> {"new", "up", "stopping", "drained", "closed", "dead"}]
    /\ seen \in [Instances -> Nat]
TicketTypes ==
    /\ tState \in [Tickets -> {"none", "ACTIVE", "COMPLETED", "UNCERTAIN"}]
    /\ tInst \in [Tickets -> Instances \cup {None}]
    /\ tEpoch \in [Tickets -> Nat]
    /\ op \in [Tickets -> {"none", "running", "done", "stuck", "audited"}]
    /\ running \subseteq Tickets
    /\ write \in [Tickets -> {"none", "checked", "sent"}]
CommandTypes ==
    /\ queue \in Seq(Commands)
    /\ cState \in [Commands -> CommandStates]
    /\ cTicket \in [Commands -> Tickets \cup {None}]
OtherTypes ==
    /\ expired \in BOOLEAN
    /\ fenced \in BOOLEAN
    /\ halted \subseteq Instances
    /\ cleaner \in [Refs -> Tickets \cup {None}]
    /\ cleaned \subseteq Refs

TasksHaveInstances == \A t \in running : tInst[t] \in Instances

LEMMA TypeParts ==
  TypeOK <=> ScopeTypes /\ InstanceTypes /\ TicketTypes /\ CommandTypes /\ OtherTypes
BY DEF TypeOK, ScopeTypes, InstanceTypes, TicketTypes, CommandTypes, OtherTypes

\* The configurations are those that a scope or a release may bring.
LEMMA SlotsAndPhases ==
  /\ \A r \in Releases : NewConfig[r] \in Configs
  /\ \A s \in Slots : Other(s) \in Slots /\ Other(s) # s /\ Other(Other(s)) = s
  /\ Terminal \subseteq Phases
BY DEF Configs, Slots, Other, Terminal, Phases

\* The row of the scope and those of the releases.
LEMMA ScopeTypesStep ==
  ASSUME HandoverAssumption, ScopeTypes, [Next]_vars
  PROVE  ScopeTypes'
<1> USE DEF ScopeTypes, scope, releases
<1>1. ASSUME UNCHANGED Kept PROVE ScopeTypes'
  BY <1>1 DEF Kept
<1>2. ASSUME NEW r \in Releases, Begin(r) PROVE ScopeTypes'
  BY <1>2 DEF Begin, Previous, Phases, ForwardPhases
<1>3. ASSUME NEW r \in Releases,
             \/ StartDrain(r) \/ SwitchRead(r) \/ BeginRetiring(r) \/ Complete(r)
             \/ BeginRollback(r) \/ RetireRollback(r) \/ FinishRollback(r) \/ Abort(r)
             \/ FinishAbort(r)
      PROVE  ScopeTypes'
  BY <1>3 DEF StartDrain, SwitchRead, BeginRetiring, Complete, BeginRollback, RetireRollback,
     FinishRollback, Abort, FinishAbort, Advance, Enter, Phases, ForwardPhases, Terminal
<1>4. ASSUME NEW r \in Releases, Retire(r) PROVE ScopeTypes'
  BY <1>1, <1>4 DEF Retire, Kept
<1>5. ASSUME NEW r \in Releases, TransferWriter(r) PROVE ScopeTypes'
  BY <1>5, SlotsAndPhases DEF TransferWriter, MoveWriter, Enter, Phases, ForwardPhases, Terminal
<1>6. ASSUME NEW r \in Releases, ReverseTransfer(r) PROVE ScopeTypes'
  BY <1>6 DEF ReverseTransfer, MoveWriter, Enter, Previous, Phases, Terminal
<1>7. CASE WorkStep
  BY <1>1, <1>7, WorkKeeps
<1>8. CASE UNCHANGED vars
  BY <1>1, <1>8 DEF vars, Kept
<1> QED
  BY <1>2, <1>3, <1>4, <1>5, <1>6, <1>7, <1>8 DEF Next, WorkStep, ControlStep

\* The rows of the instances and their memory.
LEMMA InstanceTypesStep ==
  ASSUME HandoverAssumption, ScopeTypes, InstanceTypes, [Next]_vars
  PROVE  InstanceTypes'
<1> USE DEF InstanceTypes, instances, memory
<1>1. ASSUME UNCHANGED <<instances, life, seen>> PROVE InstanceTypes'
  BY <1>1
<1>2. ASSUME NEW i \in Instances,
             Register(i) \/ Refresh(i) \/ Stop(i) \/ Drain(i) \/ Close(i) \/ Crash(i)
      PROVE  InstanceTypes'
  BY <1>2 DEF ScopeTypes, Register, Refresh, Stop, Drain, Close, Crash
<1>3. ASSUME NEW i \in Instances, NEW t, NEW q,
             Claim(i, t) \/ AdmitWriter(i, t, q) \/ Enqueue(i, q)
      PROVE  InstanceTypes'
  BY <1>1, <1>3 DEF Claim, AdmitWriter, Enqueue
<1>4. CASE TicketStep \/ CommandStep \/ DiscoverOrphan \/ Recover \/ Expire
  BY <1>1, <1>4 DEF TicketStep, CommandStep, BeginOperation, CheckTicket, SendWrite,
     LandWrite, EndOperation, FailOperation, FinishTicket, LoseFinish, ClaimCleanup,
     FinishCleanup, FinishCommand, DiscoverOrphan, Recover, Expire
<1>5. ASSUME NEW r \in Releases, Retire(r) PROVE InstanceTypes'
  BY <1>5 DEF Retire, OpenInstances
<1>6. CASE ControlStep /\ UNCHANGED retiring
  BY <1>6, ControlKeeps
<1>7. ASSUME ControlStep, \A r \in Releases : ~Retire(r) PROVE UNCHANGED retiring
  BY <1>7 DEF ControlStep, Begin, StartDrain, SwitchRead, BeginRetiring, Complete,
     BeginRollback, RetireRollback, FinishRollback, Abort, FinishAbort, Advance,
     TransferWriter, ReverseTransfer, MoveWriter
<1>8. CASE UNCHANGED vars
  BY <1>1, <1>8 DEF vars
<1> QED
  BY <1>2, <1>3, <1>4, <1>5, <1>6, <1>7, <1>8 DEF Next, InstanceStep

\* The tickets, their operations and their tasks.
LEMMA TicketTypesStep ==
  ASSUME HandoverAssumption, InstanceTypes, TicketTypes, CommandTypes, [Next]_vars
  PROVE  TicketTypes'
<1> USE DEF TicketTypes, tickets, memory
<1>1. ASSUME UNCHANGED <<tickets, op, running, write>> PROVE TicketTypes'
  BY <1>1
<1>2. ASSUME NEW i \in Instances, NEW t \in Tickets, NEW q,
             Claim(i, t) \/ AdmitWriter(i, t, q)
      PROVE  TicketTypes'
  <2>1. Open(i, t) /\ UNCHANGED <<op, write>>
    BY <1>2 DEF Claim, AdmitWriter
  <2>2. seen[i] \in Nat
    BY DEF InstanceTypes
  <2> QED
    BY <2>1, <2>2 DEF Open
<1>3. ASSUME NEW i \in Instances, Crash(i) PROVE TicketTypes'
  BY <1>3 DEF Crash
<1>4. ASSUME NEW i \in Instances, NEW q,
             \/ Register(i) \/ Refresh(i) \/ Stop(i) \/ Drain(i) \/ Close(i) \/ Enqueue(i, q)
      PROVE  TicketTypes'
  BY <1>1, <1>4 DEF Register, Refresh, Stop, Drain, Close, Enqueue
<1>5. ASSUME NEW t \in Tickets,
             \/ BeginOperation(t) \/ CheckTicket(t) \/ SendWrite(t) \/ LandWrite(t)
             \/ EndOperation(t) \/ FailOperation(t) \/ FinishTicket(t) \/ LoseFinish(t)
      PROVE  TicketTypes'
  BY <1>5 DEF BeginOperation, CheckTicket, SendWrite, LandWrite, EndOperation, FailOperation,
     FinishTicket, LoseFinish
<1>6. ASSUME NEW t \in Tickets, NEW x \in Refs, ClaimCleanup(t, x) \/ FinishCleanup(t, x)
      PROVE  TicketTypes'
  BY <1>1, <1>6 DEF ClaimCleanup, FinishCleanup
<1>7. CASE CommandStep
  BY <1>7 DEF CommandStep, FinishCommand
<1>8. CASE Recover
  BY <1>8 DEF Recover
<1>9. CASE ControlStep \/ DiscoverOrphan \/ Expire \/ UNCHANGED vars
  BY <1>1, <1>9, ControlKeeps DEF DiscoverOrphan, Expire, vars
<1> QED
  BY <1>2, <1>3, <1>4, <1>5, <1>6, <1>7, <1>8, <1>9 DEF Next, InstanceStep, TicketStep

\* The queue and the rows of the commands.
LEMMA CommandTypesStep ==
  ASSUME HandoverAssumption, CommandTypes, [Next]_vars
  PROVE  CommandTypes'
<1> USE DEF CommandTypes, CommandStates, commands
<1>1. ASSUME UNCHANGED commands PROVE CommandTypes'
  BY <1>1
<1>2. ASSUME NEW i \in Instances, NEW t \in Tickets, Claim(i, t) PROVE CommandTypes'
  <2>1. Head(queue) \in Commands /\ Tail(queue) \in Seq(Commands)
    BY <1>2 DEF Claim
  <2> QED
    BY <1>2, <2>1 DEF Claim
<1>3. ASSUME NEW i \in Instances, NEW c \in Commands, Enqueue(i, c) PROVE CommandTypes'
  BY <1>3 DEF Enqueue
<1>4. ASSUME NEW i \in Instances, NEW t, NEW q,
             \/ Register(i) \/ Refresh(i) \/ Stop(i) \/ Drain(i) \/ Close(i) \/ Crash(i)
             \/ AdmitWriter(i, t, q)
      PROVE  CommandTypes'
  BY <1>1, <1>4 DEF Register, Refresh, Stop, Drain, Close, Crash, AdmitWriter
<1>5. CASE TicketStep
  BY <1>1, <1>5 DEF TicketStep, BeginOperation, CheckTicket, SendWrite, LandWrite,
     EndOperation, FailOperation, FinishTicket, LoseFinish, ClaimCleanup, FinishCleanup
<1>6. CASE CommandStep
  BY <1>6 DEF CommandStep, FinishCommand
<1>7. CASE ControlStep \/ DiscoverOrphan \/ Recover \/ Expire \/ UNCHANGED vars
  BY <1>1, <1>7, ControlKeeps DEF DiscoverOrphan, Recover, Expire, vars
<1> QED
  BY <1>2, <1>3, <1>4, <1>5, <1>6, <1>7 DEF Next, InstanceStep

\* The deadline, the fence, the executors and the cleanup of sources.
LEMMA OtherTypesStep ==
  ASSUME HandoverAssumption, TicketTypes, InstanceTypes, TasksHaveInstances, OtherTypes,
         [Next]_vars
  PROVE  OtherTypes'
<1> USE DEF OtherTypes, memory, cleanup
<1>1. ASSUME UNCHANGED <<expired, fenced, halted, cleanup>> PROVE OtherTypes'
  BY <1>1
<1>2. ASSUME NEW i \in Instances, NEW t, NEW q,
             \/ Register(i) \/ Refresh(i) \/ Stop(i) \/ Drain(i) \/ Close(i) \/ Crash(i)
             \/ AdmitWriter(i, t, q) \/ Claim(i, t) \/ Enqueue(i, q)
      PROVE  OtherTypes'
  BY <1>1, <1>2 DEF Register, Refresh, Stop, Drain, Close, Crash, AdmitWriter, Claim, Enqueue,
     scope
<1>3. ASSUME NEW t \in Tickets,
             \/ BeginOperation(t) \/ CheckTicket(t) \/ SendWrite(t) \/ LandWrite(t)
             \/ EndOperation(t) \/ FinishTicket(t)
      PROVE  OtherTypes'
  BY <1>1, <1>3 DEF BeginOperation, CheckTicket, SendWrite, LandWrite, EndOperation,
     FinishTicket, scope
<1>4. ASSUME NEW t \in Tickets, FailOperation(t) \/ LoseFinish(t) PROVE OtherTypes'
  BY <1>4 DEF FailOperation, LoseFinish, TasksHaveInstances, scope
<1>5. ASSUME NEW t \in Tickets, NEW x \in Refs, ClaimCleanup(t, x) \/ FinishCleanup(t, x)
      PROVE  OtherTypes'
  BY <1>5 DEF ClaimCleanup, FinishCleanup, scope
<1>6. CASE CommandStep
  BY <1>6 DEF CommandStep, FinishCommand, TasksHaveInstances, scope
<1>7. CASE DiscoverOrphan \/ Recover \/ Expire \/ UNCHANGED vars
  BY <1>7 DEF DiscoverOrphan, Recover, Expire, vars, scope
<1>8. CASE ControlStep
  <2>1. expired' \in BOOLEAN
    BY <1>8 DEF ControlStep, Begin, StartDrain, SwitchRead, BeginRetiring, Retire, Complete,
       BeginRollback, RetireRollback, FinishRollback, Abort, FinishAbort, Advance,
       TransferWriter, ReverseTransfer, MoveWriter, scope
  <2> QED
    BY <1>8, <2>1, ControlKeeps
<1> QED
  BY <1>2, <1>3, <1>4, <1>5, <1>6, <1>7, <1>8 DEF Next, InstanceStep, TicketStep

LEMMA TypeStep ==
  ASSUME HandoverAssumption, TypeOK, TicketsUsed, TasksLive, [Next]_vars
  PROVE  TypeOK'
<1>1. TasksHaveInstances
  BY TypeParts DEF TasksHaveInstances, TicketsUsed, TasksLive, TicketTypes
<1>2. ScopeTypes' /\ InstanceTypes' /\ TicketTypes' /\ CommandTypes' /\ OtherTypes'
  BY <1>1, TypeParts, ScopeTypesStep, InstanceTypesStep, TicketTypesStep, CommandTypesStep,
     OtherTypesStep
<1> QED
  BY <1>2 DEF TypeOK, ScopeTypes, InstanceTypes, TicketTypes, CommandTypes, OtherTypes

-----------------------------------------------------------------------------
(* What the steps do to the tickets, and what a transfer finds.            *)

Move(r) == TransferWriter(r) \/ ReverseTransfer(r)
Living(i) == Register(i) \/ Stop(i) \/ Drain(i) \/ Close(i) \/ Crash(i)
Admission(i, t) == Claim(i, t) \/ \E p \in Tickets \cup {None} : AdmitWriter(i, t, p)
Progress(t) ==
    \/ BeginOperation(t) \/ CheckTicket(t) \/ SendWrite(t) \/ LandWrite(t)
    \/ EndOperation(t) \/ FailOperation(t) \/ FinishTicket(t) \/ LoseFinish(t)
Work == <<tickets, op, running, write, life>>

\* The steps that are no transfer keep the slot and the epoch.
LEMMA OnlyMovesMove ==
  ASSUME [Next]_vars, \A r \in Releases : ~Move(r)
  PROVE  UNCHANGED <<activeSlot, config, epoch>>
<1>1. CASE ControlStep
  BY <1>1 DEF Move, ControlStep, Begin, StartDrain, SwitchRead, BeginRetiring, Retire, Complete,
     BeginRollback, RetireRollback, FinishRollback, Abort, FinishAbort, Advance, scope
<1>2. CASE WorkStep
  BY <1>2, WorkKeeps DEF Kept
<1>3. CASE UNCHANGED vars
  BY <1>3 DEF vars, scope
<1> QED
  BY <1>1, <1>2, <1>3 DEF Next, WorkStep

\* A case distinction for everything that is said of tickets.
LEMMA Shapes ==
  ASSUME [Next]_vars
  PROVE  \/ UNCHANGED Work /\ UNCHANGED <<activeSlot, epoch>>
         \/ \E r \in Releases : Move(r)
         \/ UNCHANGED <<activeSlot, epoch>> /\
              \/ \E i \in Instances : Living(i)
              \/ \E i \in Instances, t \in Tickets : Admission(i, t)
              \/ \E t \in Tickets : Progress(t)
              \/ CommandStep
              \/ Recover
<1> USE DEF Work, memory
<1>1. CASE \E r \in Releases : Move(r)
  BY <1>1
<1> SUFFICES ASSUME \A r \in Releases : ~Move(r)
             PROVE  \/ UNCHANGED Work
                    \/ \E i \in Instances : Living(i)
                    \/ \E i \in Instances, t \in Tickets : Admission(i, t)
                    \/ \E t \in Tickets : Progress(t)
                    \/ CommandStep
                    \/ Recover
  BY <1>1, OnlyMovesMove
<1>2. CASE ControlStep
  BY <1>2, ControlKeeps
<1>3. CASE InstanceStep
  BY <1>3 DEF InstanceStep, Living, Admission, Refresh, Enqueue
<1>4. CASE TicketStep
  BY <1>4 DEF TicketStep, Progress, ClaimCleanup, FinishCleanup
<1>5. CASE DiscoverOrphan \/ Expire \/ UNCHANGED vars
  BY <1>5 DEF DiscoverOrphan, Expire, vars
<1> QED
  BY <1>2, <1>3, <1>4, <1>5 DEF Next

\* claim_command() and admit_writer() open a ticket of the epoch and of the active slot.
LEMMA AdmissionIsCurrent ==
  ASSUME NEW i \in Instances, NEW t \in Tickets, Admission(i, t)
  PROVE  /\ Open(i, t)
         /\ life[i] \in {"up", "stopping"}
         /\ seen[i] = epoch
         /\ SlotOf[i] = activeSlot
         /\ UNCHANGED <<op, write, life>>
BY DEF Admission, Claim, AdmitWriter, Admissible

\* A transfer finds the tickets drained and goes to the other slot.
LEMMA MoveIsClean ==
  ASSUME HandoverAssumption, TypeOK, ScopeFits, RetiringFits, NEW r \in Releases, Move(r)
  PROVE  /\ DrainEmpty
         /\ epoch' = epoch + 1
         /\ activeSlot' = Other(activeSlot)
         /\ UNCHANGED Work
         /\ UNCHANGED <<instances, commands, cleanup, fenced>>
         /\ retiring \subseteq closed
         /\ Ready(activeSlot', config')
<1>1. MoveWriter(activeSlot', config')
  BY DEF Move, TransferWriter, ReverseTransfer, MoveWriter
<1>2. CASE TransferWriter(r)
  BY <1>1, <1>2 DEF TransferWriter, MoveWriter, Owns, RetiringFits, Work, memory
<1>3. CASE ReverseTransfer(r)
  <2>1. phase = "ROLLBACK_DRAINING" /\ identity = r /\ activeSlot' = previous[r].slot
    BY <1>3 DEF ReverseTransfer, MoveWriter, Owns
  <2>2. activeSlot = Other(previous[r].slot) /\ previous[r].slot \in Slots
    BY <2>1 DEF HandoverAssumption, TypeOK, ScopeFits, AfterMove, Previous
  <2> QED
    BY <1>1, <2>1, <2>2, SlotsAndPhases DEF MoveWriter, RetiringFits, Work, memory
<1> QED
  BY <1>2, <1>3 DEF Move

-----------------------------------------------------------------------------
(* Tickets, their tasks and their writes.                                  *)

LEMMA TicketsUsedStep ==
  ASSUME HandoverAssumption, IInv, [Next]_vars
  PROVE  TicketsUsed'
<1> USE DEF IInv, TypeOK, TicketsUsed, TasksLive, WritesOwned, Work, tickets
<1>1. CASE UNCHANGED Work /\ UNCHANGED <<activeSlot, epoch>>
  BY <1>1
<1>2. ASSUME NEW r \in Releases, Move(r) PROVE TicketsUsed'
  BY <1>2, MoveIsClean
<1> SUFFICES ASSUME UNCHANGED <<activeSlot, epoch>> PROVE
       /\ \A i \in Instances : Living(i) => TicketsUsed'
       /\ \A i \in Instances, t \in Tickets : Admission(i, t) => TicketsUsed'
       /\ \A t \in Tickets : Progress(t) => TicketsUsed'
       /\ CommandStep => TicketsUsed'
       /\ Recover => TicketsUsed'
  BY <1>1, <1>2, Shapes
<1>3. ASSUME NEW i \in Instances, Living(i) PROVE TicketsUsed'
  BY <1>3 DEF Living, Register, Stop, Drain, Close, Crash
<1>4. ASSUME NEW i \in Instances, NEW t \in Tickets, Admission(i, t) PROVE TicketsUsed'
  BY <1>4, AdmissionIsCurrent DEF Open
<1>5. ASSUME NEW t \in Tickets, Progress(t) PROVE TicketsUsed'
  BY <1>5 DEF Progress, BeginOperation, CheckTicket, SendWrite, LandWrite, EndOperation,
     FailOperation, FinishTicket, LoseFinish, memory
<1>6. CASE CommandStep
  BY <1>6 DEF CommandStep, FinishCommand
<1>7. CASE Recover
  BY <1>7 DEF Recover, ActiveOp, memory
<1> QED
  BY <1>3, <1>4, <1>5, <1>6, <1>7

LEMMA TasksLiveStep ==
  ASSUME HandoverAssumption, IInv, [Next]_vars
  PROVE  TasksLive'
<1> USE DEF IInv, TypeOK, TicketsUsed, TasksLive, InstancesLive, Work, tickets
<1>1. CASE UNCHANGED Work
  BY <1>1
<1> SUFFICES
       /\ \A i \in Instances : Living(i) => TasksLive'
       /\ \A i \in Instances, t \in Tickets : Admission(i, t) => TasksLive'
       /\ \A t \in Tickets : Progress(t) => TasksLive'
       /\ CommandStep => TasksLive'
       /\ Recover => TasksLive'
  BY <1>1, Shapes, MoveIsClean
<1>2. ASSUME NEW i \in Instances, Living(i) PROVE TasksLive'
  <2>1. CASE Register(i) \/ Stop(i)
    BY <2>1 DEF Register, Stop
  <2>2. CASE Drain(i) \/ Close(i)
    BY <2>2 DEF Drain, Close, Quiescent, ActiveOp
  <2>3. CASE Crash(i)
    BY <2>3 DEF Crash
  <2> QED
    BY <1>2, <2>1, <2>2, <2>3 DEF Living
<1>3. ASSUME NEW i \in Instances, NEW t \in Tickets, Admission(i, t) PROVE TasksLive'
  BY <1>3, AdmissionIsCurrent DEF Open
<1>4. ASSUME NEW t \in Tickets, Progress(t) PROVE TasksLive'
  BY <1>4 DEF Progress, BeginOperation, CheckTicket, SendWrite, LandWrite, EndOperation,
     FailOperation, FinishTicket, LoseFinish, memory
<1>5. CASE CommandStep
  BY <1>5 DEF CommandStep, FinishCommand
<1>6. CASE Recover
  BY <1>6 DEF Recover, ActiveOp, memory
<1> QED
  BY <1>2, <1>3, <1>4, <1>5, <1>6

LEMMA WritesOwnedStep ==
  ASSUME HandoverAssumption, IInv, [Next]_vars
  PROVE  WritesOwned'
<1> USE DEF IInv, TypeOK, TicketsUsed, TasksLive, WritesOwned, ActiveOp, Work, tickets
<1>1. CASE UNCHANGED Work
  BY <1>1
<1> SUFFICES
       /\ \A i \in Instances : Living(i) => WritesOwned'
       /\ \A i \in Instances, t \in Tickets : Admission(i, t) => WritesOwned'
       /\ \A t \in Tickets : Progress(t) => WritesOwned'
       /\ CommandStep => WritesOwned'
       /\ Recover => WritesOwned'
  BY <1>1, Shapes, MoveIsClean
<1>2. ASSUME NEW i \in Instances, Living(i) PROVE WritesOwned'
  BY <1>2 DEF Living, Register, Stop, Drain, Close, Crash
<1>3. ASSUME NEW i \in Instances, NEW t \in Tickets, Admission(i, t) PROVE WritesOwned'
  BY <1>3, AdmissionIsCurrent DEF Open
<1>4. ASSUME NEW t \in Tickets, Progress(t) PROVE WritesOwned'
  BY <1>4 DEF Progress, BeginOperation, CheckTicket, SendWrite, LandWrite, EndOperation,
     FailOperation, FinishTicket, LoseFinish, memory
<1>5. CASE CommandStep
  BY <1>5 DEF CommandStep, FinishCommand
<1>6. CASE Recover
  BY <1>6 DEF Recover, memory
<1> QED
  BY <1>2, <1>3, <1>4, <1>5, <1>6

\* What is unfinished is current: a transfer asks that nothing is.
LEMMA WorkIsCurrentStep ==
  ASSUME HandoverAssumption, IInv, [Next]_vars
  PROVE  WorkIsCurrent'
<1> USE DEF IInv, TypeOK, TicketsUsed, TasksLive, WritesOwned, WorkIsCurrent, Unfinished,
            ActiveOp, Work, tickets
<1>1. CASE UNCHANGED Work /\ UNCHANGED <<activeSlot, epoch>>
  BY <1>1
<1>2. ASSUME NEW r \in Releases, Move(r) PROVE WorkIsCurrent'
  BY <1>2, MoveIsClean DEF DrainEmpty
<1> SUFFICES ASSUME UNCHANGED <<activeSlot, epoch>> PROVE
       /\ \A i \in Instances : Living(i) => WorkIsCurrent'
       /\ \A i \in Instances, t \in Tickets : Admission(i, t) => WorkIsCurrent'
       /\ \A t \in Tickets : Progress(t) => WorkIsCurrent'
       /\ CommandStep => WorkIsCurrent'
       /\ Recover => WorkIsCurrent'
  BY <1>1, <1>2, Shapes
<1>3. ASSUME NEW i \in Instances, Living(i) PROVE WorkIsCurrent'
  BY <1>3 DEF Living, Register, Stop, Drain, Close, Crash
<1>4. ASSUME NEW i \in Instances, NEW t \in Tickets, Admission(i, t) PROVE WorkIsCurrent'
  BY <1>4, AdmissionIsCurrent DEF Open
<1>5. ASSUME NEW t \in Tickets, Progress(t) PROVE WorkIsCurrent'
  BY <1>5 DEF Progress, BeginOperation, CheckTicket, SendWrite, LandWrite, EndOperation,
     FailOperation, FinishTicket, LoseFinish, memory
<1>6. CASE CommandStep
  <2>1. PICK c \in Commands, s \in {"SUCCEEDED", "FAILED", "UNCERTAIN"} : FinishCommand(c, s)
    BY <1>6 DEF CommandStep
  <2>2. /\ cTicket[c] \in running
        /\ UNCHANGED <<tInst, tEpoch, op, write>>
        /\ \A t \in Tickets : t # cTicket[c] => tState'[t] = tState[t]
    BY <2>1 DEF FinishCommand, memory
  <2> QED
    BY <2>2
<1>7. CASE Recover
  BY <1>7 DEF Recover, memory
<1> QED
  BY <1>3, <1>4, <1>5, <1>6, <1>7

-----------------------------------------------------------------------------
(* Instances.                                                              *)

LEMMA InstancesLiveStep ==
  ASSUME HandoverAssumption, IInv, [Next]_vars
  PROVE  InstancesLive'
<1> USE DEF IInv, TypeOK, InstancesLive, instances, memory
<1>1. ASSUME NEW i \in Instances,
             \/ Register(i) \/ Refresh(i) \/ Stop(i) \/ Drain(i) \/ Close(i) \/ Crash(i)
      PROVE  InstancesLive'
  BY <1>1 DEF Register, Refresh, Stop, Drain, Close, Crash
<1>2. ASSUME NEW i \in Instances, NEW t, NEW q,
             Claim(i, t) \/ AdmitWriter(i, t, q) \/ Enqueue(i, q)
      PROVE  InstancesLive'
  BY <1>2 DEF Claim, AdmitWriter, Enqueue
<1>3. CASE TicketStep
  BY <1>3 DEF TicketStep, BeginOperation, CheckTicket, SendWrite, LandWrite, EndOperation,
     FailOperation, FinishTicket, LoseFinish, ClaimCleanup, FinishCleanup
<1>4. CASE CommandStep \/ DiscoverOrphan \/ Recover \/ Expire \/ UNCHANGED vars
  BY <1>4 DEF CommandStep, FinishCommand, DiscoverOrphan, Recover, Expire, vars
<1>5. CASE ControlStep
  <2>1. retiring' \subseteq registered
    BY <1>5 DEF ControlStep, Begin, StartDrain, SwitchRead, BeginRetiring, Retire, Complete,
       BeginRollback, RetireRollback, FinishRollback, Abort, FinishAbort, Advance,
       TransferWriter, ReverseTransfer, MoveWriter, OpenInstances
  <2> QED
    BY <1>5, <2>1, ControlKeeps
<1> QED
  BY <1>1, <1>2, <1>3, <1>4, <1>5 DEF Next, InstanceStep

LEMMA DrainedIsIdleStep ==
  ASSUME HandoverAssumption, IInv, [Next]_vars
  PROVE  DrainedIsIdle'
<1> USE DEF IInv, TypeOK, TicketsUsed, TasksLive, WritesOwned, DrainedIsIdle, Unfinished,
            ActiveOp, Work, tickets
<1>1. CASE UNCHANGED Work
  BY <1>1
<1> SUFFICES
       /\ \A i \in Instances : Living(i) => DrainedIsIdle'
       /\ \A i \in Instances, t \in Tickets : Admission(i, t) => DrainedIsIdle'
       /\ \A t \in Tickets : Progress(t) => DrainedIsIdle'
       /\ CommandStep => DrainedIsIdle'
       /\ Recover => DrainedIsIdle'
  BY <1>1, Shapes, MoveIsClean
<1>2. ASSUME NEW i \in Instances, Living(i) PROVE DrainedIsIdle'
  <2>1. CASE Register(i) \/ Stop(i)
    BY <2>1 DEF Register, Stop
  <2>2. CASE Drain(i)
    BY <2>2 DEF Drain, Quiescent
  <2>3. CASE Close(i)
    BY <2>3 DEF Close, Quiescent
  <2>4. CASE Crash(i)
    BY <2>4 DEF Crash
  <2> QED
    BY <1>2, <2>1, <2>2, <2>3, <2>4 DEF Living
<1>3. ASSUME NEW i \in Instances, NEW t \in Tickets, Admission(i, t) PROVE DrainedIsIdle'
  BY <1>3, AdmissionIsCurrent DEF Open
<1>4. ASSUME NEW t \in Tickets, Progress(t) PROVE DrainedIsIdle'
  BY <1>4 DEF Progress, BeginOperation, CheckTicket, SendWrite, LandWrite, EndOperation,
     FailOperation, FinishTicket, LoseFinish, memory
<1>5. CASE CommandStep
  <2>1. PICK c \in Commands, s \in {"SUCCEEDED", "FAILED", "UNCERTAIN"} : FinishCommand(c, s)
    BY <1>5 DEF CommandStep
  <2>2. /\ cTicket[c] \in running
        /\ running' \subseteq running
        /\ UNCHANGED <<tInst, op, write, life>>
        /\ \A t \in Tickets : t # cTicket[c] => tState'[t] = tState[t]
    BY <2>1 DEF FinishCommand, memory
  <2> QED
    BY <2>2
<1>6. CASE Recover
  BY <1>6 DEF Recover, memory
<1> QED
  BY <1>2, <1>3, <1>4, <1>5, <1>6

-----------------------------------------------------------------------------
(* The scope and the slots.                                                *)

LEMMA ScopeFitsStep ==
  ASSUME HandoverAssumption, IInv, [Next]_vars
  PROVE  ScopeFits'
<1> USE DEF IInv, TypeOK, HandoverAssumption, ScopeFits, BeforeMove, AfterMove, AfterReverse,
            Terminal, scope, releases
<1>1. ASSUME UNCHANGED Kept PROVE ScopeFits'
  BY <1>1 DEF Kept
<1>2. ASSUME NEW r \in Releases, Begin(r) PROVE ScopeFits'
  BY <1>2 DEF Begin
<1>3. ASSUME NEW r \in Releases,
             \/ StartDrain(r) \/ SwitchRead(r) \/ BeginRetiring(r) \/ Complete(r)
             \/ BeginRollback(r) \/ RetireRollback(r) \/ FinishRollback(r) \/ Abort(r)
             \/ FinishAbort(r)
      PROVE  ScopeFits'
  BY <1>3 DEF StartDrain, SwitchRead, BeginRetiring, Complete, BeginRollback, RetireRollback,
     FinishRollback, Abort, FinishAbort, Advance, Enter, Owns
<1>4. ASSUME NEW r \in Releases, Retire(r) PROVE ScopeFits'
  BY <1>1, <1>4 DEF Retire, Kept
<1>5. ASSUME NEW r \in Releases, TransferWriter(r) PROVE ScopeFits'
  BY <1>5 DEF TransferWriter, MoveWriter, Enter, Owns
<1>6. ASSUME NEW r \in Releases, ReverseTransfer(r) PROVE ScopeFits'
  <2>1. previous[r] \in Previous
    OBVIOUS
  <2> QED
    BY <1>6, <2>1 DEF ReverseTransfer, MoveWriter, Enter, Owns, Previous
<1>7. CASE WorkStep
  BY <1>1, <1>7, WorkKeeps
<1>8. CASE UNCHANGED vars
  BY <1>1, <1>8 DEF vars, Kept
<1> QED
  BY <1>2, <1>3, <1>4, <1>5, <1>6, <1>7, <1>8 DEF Next, WorkStep, ControlStep

\* Only Close() and retire_old_instances() set the flag.
LEMMA WorkRetires ==
  ASSUME WorkStep
  PROVE  UNCHANGED <<retiring, closed>> \/ \E i \in Instances : Close(i)
<1>1. CASE InstanceStep
  BY <1>1 DEF InstanceStep, Register, Refresh, Stop, Drain, Crash, Claim, AdmitWriter,
     Enqueue, instances
<1>2. CASE TicketStep
  BY <1>2 DEF TicketStep, BeginOperation, CheckTicket, SendWrite, LandWrite, EndOperation,
     FailOperation, FinishTicket, LoseFinish, ClaimCleanup, FinishCleanup, instances
<1>3. CASE CommandStep \/ DiscoverOrphan \/ Recover \/ Expire
  BY <1>3 DEF CommandStep, FinishCommand, DiscoverOrphan, Recover, Expire, instances
<1> QED
  BY <1>1, <1>2, <1>3 DEF WorkStep

LEMMA RetiringSteps ==
  ASSUME [Next]_vars
  PROVE  \/ UNCHANGED <<retiring, closed>>
         \/ \E i \in Instances : Close(i)
         \/ \E r \in Releases : Retire(r)
<1>1. CASE ControlStep
  BY <1>1, ControlKeeps DEF ControlStep, Begin, StartDrain, SwitchRead, BeginRetiring,
     Complete, BeginRollback, RetireRollback, FinishRollback, Abort, FinishAbort, Advance,
     TransferWriter, ReverseTransfer, MoveWriter, instances
<1>2. CASE WorkStep
  BY <1>2, WorkRetires
<1>3. CASE UNCHANGED vars
  BY <1>3 DEF vars, instances
<1> QED
  BY <1>1, <1>2, <1>3 DEF Next, WorkStep

LEMMA RetiringFitsStep ==
  ASSUME HandoverAssumption, IInv, [Next]_vars
  PROVE  RetiringFits'
<1> USE DEF IInv, TypeOK, HandoverAssumption, InstancesLive, RetiringFits, RetiringIsStandby
<1>1. ASSUME NEW r \in Releases, Move(r) PROVE RetiringFits'
  BY <1>1, MoveIsClean DEF instances
<1>2. ASSUME NEW r \in Releases, Retire(r) PROVE RetiringFits'
  BY <1>2, SlotsAndPhases DEF Retire, Owns, OpenInstances, scope
<1>3. ASSUME NEW i \in Instances, Close(i) PROVE RetiringFits'
  BY <1>3 DEF Close, scope
<1> SUFFICES ASSUME UNCHANGED <<retiring, closed, activeSlot>> PROVE RetiringFits'
  BY <1>1, <1>2, <1>3, RetiringSteps, OnlyMovesMove
<1>4. CASE UNCHANGED phase
  BY <1>4
<1>5. ASSUME NEW r \in Releases,
             \/ Begin(r) \/ StartDrain(r) \/ SwitchRead(r) \/ BeginRetiring(r)
             \/ BeginRollback(r) \/ RetireRollback(r) \/ Abort(r)
      PROVE  RetiringFits'
  BY <1>5 DEF Begin, StartDrain, SwitchRead, BeginRetiring, BeginRollback, RetireRollback,
     Abort, Advance, Enter, Owns, Terminal
<1>6. ASSUME NEW r \in Releases, Complete(r) \/ FinishRollback(r) \/ FinishAbort(r)
      PROVE  RetiringFits'
  <2>1. StandbyClosed
    BY <1>6 DEF Complete, FinishRollback, FinishAbort
  <2>2. retiring \subseteq closed
    <3> SUFFICES ASSUME NEW i \in retiring \ closed PROVE FALSE
      OBVIOUS
    <3>1. i \in registered /\ SlotOf[i] \in Slots /\ SlotOf[i] # activeSlot
      BY DEF Slots
    <3>2. SlotOf[i] = Other(activeSlot)
      BY <3>1 DEF Slots, Other
    <3> QED
      BY <2>1, <3>1, <3>2 DEF StandbyClosed, OpenInstances
  <2> QED
    BY <2>2
<1>7. CASE WorkStep \/ UNCHANGED vars
  BY <1>4, <1>7, WorkKeeps DEF Kept, vars, scope
<1> QED
  BY <1>1, <1>2, <1>5, <1>6, <1>7 DEF Next, WorkStep, ControlStep, Move

LEMMA ActiveRunsConfigStep ==
  ASSUME HandoverAssumption, IInv, [Next]_vars
  PROVE  ActiveRunsConfig'
<1> USE DEF IInv, TypeOK, HandoverAssumption, ActiveRunsConfig, OpenInstances
<1>1. ASSUME NEW r \in Releases, Move(r) PROVE ActiveRunsConfig'
  BY <1>1, MoveIsClean DEF Ready, Available, instances
<1>2. ASSUME NEW i \in Instances, Register(i) PROVE ActiveRunsConfig'
  BY <1>2 DEF Register, ConfigAccepted, scope
<1>3. ASSUME [Next]_vars, \A i \in Instances : ~Register(i)
      PROVE  UNCHANGED registered /\ closed \subseteq closed'
  <2>1. CASE InstanceStep
    BY <1>3, <2>1 DEF InstanceStep, Refresh, Stop, Drain, Close, Crash, Claim, AdmitWriter,
       Enqueue, instances
  <2>2. CASE TicketStep
    BY <2>2 DEF TicketStep, BeginOperation, CheckTicket, SendWrite, LandWrite, EndOperation,
       FailOperation, FinishTicket, LoseFinish, ClaimCleanup, FinishCleanup, instances
  <2>3. CASE CommandStep \/ DiscoverOrphan \/ Recover \/ Expire \/ UNCHANGED vars
    BY <2>3 DEF CommandStep, FinishCommand, DiscoverOrphan, Recover, Expire, vars, instances
  <2>4. CASE ControlStep
    BY <2>4, ControlKeeps
  <2> QED
    BY <1>3, <2>1, <2>2, <2>3, <2>4 DEF Next
<1> QED
  BY <1>1, <1>2, <1>3, OnlyMovesMove

-----------------------------------------------------------------------------
(* Commands and sources.                                                   *)

LEMMA CommandSteps ==
  ASSUME [Next]_vars
  PROVE  \/ UNCHANGED <<commands, tState, cleaner>>
         \/ \E i \in Instances, t \in Tickets : Admission(i, t)
         \/ \E i \in Instances, c \in Commands : Enqueue(i, c)
         \/ \E t \in Tickets : FinishTicket(t)
         \/ \E t \in Tickets, x \in Refs : ClaimCleanup(t, x)
         \/ CommandStep
<1> USE DEF tickets, cleanup
<1>1. CASE ControlStep
  BY <1>1, ControlKeeps
<1>2. CASE InstanceStep
  BY <1>2 DEF InstanceStep, Admission, Register, Refresh, Stop, Drain, Close, Crash
<1>3. CASE TicketStep
  BY <1>3 DEF TicketStep, BeginOperation, CheckTicket, SendWrite, LandWrite, EndOperation,
     FailOperation, LoseFinish, FinishCleanup
<1>4. CASE DiscoverOrphan \/ Recover \/ Expire \/ UNCHANGED vars
  BY <1>4 DEF DiscoverOrphan, Recover, Expire, vars
<1> QED
  BY <1>1, <1>2, <1>3, <1>4 DEF Next

\* claim_command() takes the first of the queue.
LEMMA ClaimTakesHead ==
  ASSUME TypeOK, QueueFits, NEW i \in Instances, NEW t \in Tickets, Claim(i, t)
  PROVE  /\ Head(queue) \in Commands /\ Head(queue) = queue[1]
         /\ cState[Head(queue)] = "QUEUED" /\ cTicket[Head(queue)] = None
         /\ cState' = [cState EXCEPT ![Head(queue)] = "EXECUTING"]
         /\ cTicket' = [cTicket EXCEPT ![Head(queue)] = t]
         /\ tState[t] = "none" /\ tState' = [tState EXCEPT ![t] = "ACTIVE"]
         /\ Len(queue') = Len(queue) - 1
         /\ \A k \in 1..Len(queue') : k + 1 \in 1..Len(queue) /\ queue'[k] = queue[k + 1]
         /\ UNCHANGED cleanup
<1>1. queue \in Seq(Commands) /\ queue # <<>> /\ queue' = Tail(queue)
  BY DEF TypeOK, Claim
<1>2. Head(queue) \in Commands /\ Head(queue) = queue[1] /\ 1 \in 1..Len(queue)
  BY <1>1
<1>3. /\ Len(queue') = Len(queue) - 1
      /\ \A k \in 1..Len(queue') : k + 1 \in 1..Len(queue) /\ queue'[k] = queue[k + 1]
  BY <1>1
<1>4. cState[queue[1]] = "QUEUED" /\ cTicket[queue[1]] = None
  BY <1>2 DEF QueueFits
<1> QED
  BY <1>2, <1>3, <1>4 DEF Claim, Open

LEMMA QueueFitsStep ==
  ASSUME HandoverAssumption, IInv, [Next]_vars
  PROVE  QueueFits'
<1> USE DEF IInv, TypeOK, HandoverAssumption, QueueFits, commands
<1>1. CASE UNCHANGED <<commands, tState>>
  BY <1>1
<1>2. ASSUME NEW i \in Instances, NEW t \in Tickets, Claim(i, t) PROVE QueueFits'
  <2> DEFINE h == Head(queue)
  <2>1. /\ h \in Commands /\ h = queue[1] /\ 1 \in 1..Len(queue)
        /\ cState' = [cState EXCEPT ![h] = "EXECUTING"]
        /\ cTicket' = [cTicket EXCEPT ![h] = t]
        /\ \A c \in Commands : cTicket[c] # t
        /\ tState' = [tState EXCEPT ![t] = "ACTIVE"]
        /\ \A k \in 1..Len(queue') :
               k + 1 \in 1..Len(queue) /\ k + 1 # 1 /\ queue'[k] = queue[k + 1]
    <3>1. \A c \in Commands : cTicket[c] # t
      BY <1>2 DEF Claim, Open
    <3>2. 1 \in 1..Len(queue)
      BY <1>2 DEF Claim
    <3>3. \A k \in 1..Len(queue') : k + 1 # 1
      OBVIOUS
    <3> QED
      BY <1>2, <3>1, <3>2, <3>3, ClaimTakesHead
  <2> HIDE DEF h
  <2>2. /\ Len(queue) \in Nat /\ Len(queue') \in Nat
        /\ \A k \in 1..Len(queue) : queue[k] \in Commands /\ cState[queue[k]] = "QUEUED"
        /\ \A k, l \in 1..Len(queue) : queue[k] = queue[l] => k = l
        /\ cState \in [Commands -> CommandStates]
    BY <2>1
  <2>3. \A k \in 1..Len(queue') : cState'[queue'[k]] = "QUEUED"
    <3> HIDE DEF IInv, QueueFits, TypeOK
    <3> TAKE k \in 1..Len(queue')
    <3>1. k + 1 \in 1..Len(queue) /\ k + 1 # 1 /\ queue'[k] = queue[k + 1]
      BY <2>1
    <3>2. queue'[k] \in Commands /\ queue'[k] # h /\ cState[queue'[k]] = "QUEUED"
      BY <2>1, <2>2, <3>1
    <3> QED
      BY <2>1, <2>2, <3>2
  <2>4. \A k, l \in 1..Len(queue') : queue'[k] = queue'[l] => k = l
    <3> HIDE DEF IInv, QueueFits, TypeOK
    <3> SUFFICES ASSUME NEW k \in 1..Len(queue'), NEW l \in 1..Len(queue'),
                        queue'[k] = queue'[l]
                 PROVE  k = l
      OBVIOUS
    <3>1. /\ k + 1 \in 1..Len(queue) /\ queue'[k] = queue[k + 1]
          /\ l + 1 \in 1..Len(queue) /\ queue'[l] = queue[l + 1]
      BY <2>1
    <3>2. k + 1 = l + 1
      BY <2>2, <3>1
    <3> QED
      BY <2>2, <3>2
  <2>5. \A c \in Commands : cTicket'[c] = None <=> cState'[c] \in {"none", "QUEUED"}
    BY <2>1
  <2>6. \A c, d \in Commands : cTicket'[c] = cTicket'[d] /\ cTicket'[c] # None => c = d
    BY <2>1
  <2>7. \A c \in Commands : cTicket'[c] # None => tState'[cTicket'[c]] # "none"
    BY <2>1
  <2> QED
    BY <2>3, <2>4, <2>5, <2>6, <2>7
<1>3. ASSUME NEW i \in Instances, NEW t \in Tickets, NEW q, AdmitWriter(i, t, q)
      PROVE  QueueFits'
  BY <1>3 DEF AdmitWriter, Open
<1>4. ASSUME NEW i \in Instances, NEW c \in Commands, Enqueue(i, c) PROVE QueueFits'
  <2>1. /\ cState[c] = "none" /\ cState' = [cState EXCEPT ![c] = "QUEUED"]
        /\ queue' = Append(queue, c)
        /\ UNCHANGED <<cTicket, tState>>
    BY <1>4 DEF Enqueue, tickets
  <2>2. /\ Len(queue') = Len(queue) + 1
        /\ \A k \in 1..Len(queue) : queue'[k] = queue[k] /\ queue[k] \in Commands
        /\ queue'[Len(queue) + 1] = c
    BY <2>1
  <2>3. \A k \in 1..Len(queue) : queue[k] # c
    BY <2>1
  <2>4. \A k \in 1..Len(queue') : k \in 1..Len(queue) \/ k = Len(queue) + 1
    BY <2>2
  <2> QED
    BY <2>1, <2>2, <2>3, <2>4
<1>5. ASSUME NEW t \in Tickets, FinishTicket(t) PROVE QueueFits'
  BY <1>5 DEF FinishTicket
<1>6. ASSUME NEW t \in Tickets, NEW x \in Refs, ClaimCleanup(t, x) PROVE QueueFits'
  BY <1>1, <1>6 DEF ClaimCleanup, tickets
<1>7. CASE CommandStep
  <2>1. PICK c \in Commands, s \in {"SUCCEEDED", "FAILED", "UNCERTAIN"} : FinishCommand(c, s)
    BY <1>7 DEF CommandStep
  <2>2. /\ cState[c] = "EXECUTING" /\ cState' = [cState EXCEPT ![c] = s]
        /\ \E z \in {"UNCERTAIN", "COMPLETED"} : tState' = [tState EXCEPT ![cTicket[c]] = z]
        /\ UNCHANGED <<queue, cTicket>>
    BY <2>1 DEF FinishCommand
  <2>3. \A k \in 1..Len(queue) : queue[k] \in Commands /\ queue[k] # c
    BY <2>2
  <2> QED
    BY <2>2, <2>3
<1> QED
  BY <1>1, <1>2, <1>3, <1>4, <1>5, <1>6, <1>7, CommandSteps DEF Admission

\* A command that has been claimed has a ticket of its own.
LEMMA ClaimedTickets ==
  ASSUME TypeOK, QueueFits, NEW c \in Commands, cState[c] \notin {"none", "QUEUED"}
  PROVE  cTicket[c] \in Tickets /\ \A d \in Commands \ {c} : cTicket[d] # cTicket[c]
<1>1. cTicket[c] # None
  BY DEF QueueFits
<1>2. cTicket[c] \in Tickets
  BY <1>1 DEF TypeOK
<1>3. \A d \in Commands : cTicket[d] = cTicket[c] => d = c
  BY <1>1 DEF QueueFits
<1> QED
  BY <1>2, <1>3

\* finish_command() writes both rows; nothing else finishes the ticket of a command.
LEMMA CommandsFitStep ==
  ASSUME HandoverAssumption, IInv, [Next]_vars
  PROVE  CommandsFit'
<1> USE DEF IInv, TypeOK, HandoverAssumption, QueueFits, CommandsFit, CommandStates, commands
<1>1. CASE UNCHANGED <<commands, tState>>
  BY <1>1
<1>2. ASSUME NEW i \in Instances, NEW t \in Tickets, Claim(i, t) PROVE CommandsFit'
  <2>1. /\ Head(queue) \in Commands
        /\ cState' = [cState EXCEPT ![Head(queue)] = "EXECUTING"]
        /\ cTicket' = [cTicket EXCEPT ![Head(queue)] = t]
        /\ tState[t] = "none" /\ tState' = [tState EXCEPT ![t] = "ACTIVE"]
    BY <1>2, ClaimTakesHead
  <2>2. \A c \in Commands : cTicket[c] # t
    BY <2>1
  <2> QED
    BY <2>1, <2>2
<1>3. ASSUME NEW i \in Instances, NEW t \in Tickets, NEW q, AdmitWriter(i, t, q)
      PROVE  CommandsFit'
  BY <1>3 DEF AdmitWriter, Open
<1>4. ASSUME NEW i \in Instances, NEW c \in Commands, Enqueue(i, c) PROVE CommandsFit'
  BY <1>4 DEF Enqueue, tickets
<1>5. ASSUME NEW t \in Tickets, FinishTicket(t) PROVE CommandsFit'
  BY <1>5 DEF FinishTicket, OfCommand
<1>6. ASSUME NEW t \in Tickets, NEW x \in Refs, ClaimCleanup(t, x) PROVE CommandsFit'
  BY <1>1, <1>6 DEF ClaimCleanup, tickets
<1>7. CASE CommandStep
  <2>1. PICK c \in Commands, s \in {"SUCCEEDED", "FAILED", "UNCERTAIN"} : FinishCommand(c, s)
    BY <1>7 DEF CommandStep
  <2>2. /\ cState[c] = "EXECUTING" /\ cState' = [cState EXCEPT ![c] = s]
        /\ tState' = [tState EXCEPT ![cTicket[c]] =
                          IF s = "UNCERTAIN" THEN "UNCERTAIN" ELSE "COMPLETED"]
        /\ UNCHANGED <<queue, cTicket>>
    BY <2>1 DEF FinishCommand
  <2>3. cTicket[c] \in Tickets /\ \A d \in Commands \ {c} : cTicket[d] # cTicket[c]
    BY <2>2, ClaimedTickets
  <2>4. \A d \in Commands \ {c} :
          /\ cState'[d] = cState[d] /\ cTicket'[d] = cTicket[d]
          /\ cTicket[d] \in Tickets => tState'[cTicket[d]] = tState[cTicket[d]]
    BY <2>2, <2>3
  <2>5. /\ cState'[c] = s /\ cTicket'[c] = cTicket[c]
        /\ tState'[cTicket[c]] = IF s = "UNCERTAIN" THEN "UNCERTAIN" ELSE "COMPLETED"
    BY <2>2, <2>3
  <2> SUFFICES ASSUME NEW d \in Commands
               PROVE  /\ cState'[d] = "EXECUTING" => tState'[cTicket'[d]] = "ACTIVE"
                      /\ cState'[d] = "UNCERTAIN" => tState'[cTicket'[d]] = "UNCERTAIN"
                      /\ cState'[d] \in {"SUCCEEDED", "FAILED"}
                           => tState'[cTicket'[d]] = "COMPLETED"
    OBVIOUS
  <2>6. CASE d = c
    BY <2>5, <2>6
  <2>7. CASE d # c
    <3>1. cState[d] \in {"EXECUTING", "UNCERTAIN", "SUCCEEDED", "FAILED"}
            => cTicket[d] \in Tickets
      BY ClaimedTickets
    <3> QED
      BY <2>4, <2>7, <3>1
  <2> QED
    BY <2>6, <2>7
<1> QED
  BY <1>1, <1>2, <1>3, <1>4, <1>5, <1>6, <1>7, CommandSteps DEF Admission

LEMMA CleanupExcludesStep ==
  ASSUME HandoverAssumption, IInv, [Next]_vars
  PROVE  CleanupExcludes'
<1> USE DEF IInv, TypeOK, HandoverAssumption, CleanupExcludes, UnfinishedCommand, CommandStates,
            commands, cleanup
<1>1. CASE UNCHANGED <<cState, cleaner>>
  BY <1>1
<1>2. ASSUME NEW i \in Instances, NEW t \in Tickets, Claim(i, t) PROVE CleanupExcludes'
  <2>1. /\ Head(queue) \in Commands /\ cState[Head(queue)] = "QUEUED"
        /\ cState' = [cState EXCEPT ![Head(queue)] = "EXECUTING"]
        /\ UNCHANGED cleaner
    BY <1>2, ClaimTakesHead
  <2> HIDE DEF IInv
  <2> QED
    BY <2>1 DEF IInv
<1>3. ASSUME NEW i \in Instances, NEW c \in Commands, Enqueue(i, c) PROVE CleanupExcludes'
  BY <1>3 DEF Enqueue
<1>4. ASSUME NEW t \in Tickets, NEW x \in Refs, ClaimCleanup(t, x) PROVE CleanupExcludes'
  BY <1>4 DEF ClaimCleanup, Wanted
<1>5. CASE CommandStep
  BY <1>5 DEF CommandStep, FinishCommand
<1>6. ASSUME NEW i \in Instances, NEW t \in Tickets, NEW q,
             AdmitWriter(i, t, q) \/ FinishTicket(t)
      PROVE  CleanupExcludes'
  BY <1>1, <1>6 DEF AdmitWriter, FinishTicket
<1>7. ASSUME NEW t \in Tickets, FinishTicket(t) PROVE CleanupExcludes'
  BY <1>1, <1>7 DEF FinishTicket
<1> QED
  BY <1>1, <1>2, <1>3, <1>4, <1>5, <1>6, <1>7, CommandSteps DEF Admission

-----------------------------------------------------------------------------
(* The theorems.                                                           *)

LEMMA InitEstablishes == ASSUME HandoverAssumption, Init PROVE IInv
<1> USE DEF Init, HandoverAssumption
<1>1. TypeOK
  <2>1. ScopeTypes
    BY DEF ScopeTypes, Slots, Configs, Phases, Previous
  <2>2. InstanceTypes /\ TicketTypes
    BY DEF InstanceTypes, TicketTypes
  <2>3. CommandTypes
    BY DEF CommandTypes, CommandStates
  <2>4. OtherTypes
    BY DEF OtherTypes
  <2> QED
    BY <2>1, <2>2, <2>3, <2>4, TypeParts
<1>2. TicketsUsed /\ TasksLive /\ WritesOwned /\ WorkIsCurrent
  BY DEF TicketsUsed, TasksLive, WritesOwned, WorkIsCurrent, Unfinished, ActiveOp
<1>3. InstancesLive /\ DrainedIsIdle
  BY DEF InstancesLive, DrainedIsIdle, Unfinished, ActiveOp
<1>4. ScopeFits
  BY DEF ScopeFits, Terminal
<1>5. RetiringFits /\ ActiveRunsConfig
  BY DEF RetiringFits, RetiringIsStandby, ActiveRunsConfig, OpenInstances
<1>6. QueueFits /\ CommandsFit /\ CleanupExcludes
  BY DEF QueueFits, CommandsFit, CleanupExcludes, UnfinishedCommand
<1> QED
  BY <1>1, <1>2, <1>3, <1>4, <1>5, <1>6 DEF IInv

LEMMA StepPreserves == ASSUME HandoverAssumption, IInv, [Next]_vars PROVE IInv'
<1>1. TypeOK'
  BY TypeStep DEF IInv
<1> QED
  BY <1>1, TicketsUsedStep, TasksLiveStep, WritesOwnedStep, WorkIsCurrentStep,
     InstancesLiveStep, DrainedIsIdleStep, ScopeFitsStep, RetiringFitsStep,
     ActiveRunsConfigStep, QueueFitsStep, CommandsFitStep, CleanupExcludesStep DEF IInv

\* The inductive invariant of the tables of a release and of what its instances
\* remember.
THEOREM Inductive == ASSUME HandoverAssumption PROVE Spec => []IInv
<1>1. Init => IInv
  BY InitEstablishes
<1>2. IInv /\ [Next]_vars => IInv'
  BY StepPreserves
<1> QED
  BY <1>1, <1>2, PTL DEF Spec

\* The variables keep their types.
THEOREM TypeCorrect == ASSUME HandoverAssumption PROVE Spec => []TypeOK
<1>1. IInv => TypeOK
  BY DEF IInv
<1> QED
  BY <1>1, Inductive, PTL

\* transfer() and rollback() leave no ticket, operation or request of the side that
\* wrote before.
THEOREM NothingLeftBehind == ASSUME HandoverAssumption PROVE Spec => []WorkIsCurrent
<1>1. IInv => WorkIsCurrent
  BY DEF IInv
<1> QED
  BY <1>1, Inductive, PTL

\* close_instance() finalizes the stores of an instance only when nothing of it is
\* under way, and only standby instances are told to close.
THEOREM ClosingIsSafe ==
  ASSUME HandoverAssumption PROVE Spec => [](DrainedIsIdle /\ RetiringIsStandby)
<1>1. IInv => DrainedIsIdle /\ RetiringIsStandby
  BY DEF IInv, RetiringFits
<1> QED
  BY <1>1, Inductive, PTL

\* register_instance() and the transfers let no other configuration write.
THEOREM OneConfigWrites == ASSUME HandoverAssumption PROVE Spec => []ActiveRunsConfig
<1>1. IInv => ActiveRunsConfig
  BY DEF IInv
<1> QED
  BY <1>1, Inductive, PTL

\* A command is executed under a live ticket and ends as its ticket ends, so that
\* an unknown outcome stays in the way of every transfer.
THEOREM CommandsAreSafe == ASSUME HandoverAssumption PROVE Spec => []CommandsFit
<1>1. IInv => CommandsFit
  BY DEF IInv
<1> QED
  BY <1>1, Inductive, PTL

\* claim_source_cleanup() never takes the source of a command that is accepted and
\* unfinished, and enqueue() accepts none whose source is being cleaned up.
THEOREM SourcesAreKept == ASSUME HandoverAssumption PROVE Spec => []CleanupExcludes
<1>1. IInv => CleanupExcludes
  BY DEF IInv
<1> QED
  BY <1>1, Inductive, PTL

\* A release that ends leaves what it promised or what was there before it.
THEOREM ReleasesEndClean == ASSUME HandoverAssumption PROVE Spec => []EndsClean
<1>1. IInv => EndsClean
  <2> SUFFICES ASSUME IInv, identity # None, phase \in Terminal PROVE EndsClean
    BY DEF EndsClean
  <2>1. owner = None /\ gateOpen
    BY DEF IInv, ScopeFits, Terminal
  <2> QED
    BY <2>1 DEF IInv, ScopeFits, EndsClean, Terminal, BeforeMove, AfterMove, AfterReverse
<1> QED
  BY <1>1, Inductive, PTL

-----------------------------------------------------------------------------
(* One side per epoch, in the history and in the stores.                   *)

LEMMA OneSlotStep ==
  ASSUME HandoverAssumption, IInv, OneSlotPerEpoch, [Next]_vars
  PROVE  OneSlotPerEpoch'
<1> USE DEF IInv, TypeOK, TicketsUsed, OneSlotPerEpoch, tickets
<1>1. CASE UNCHANGED tickets
  BY <1>1
<1>2. ASSUME NEW i \in Instances, NEW t \in Tickets, Admission(i, t) PROVE OneSlotPerEpoch'
  <2>1. /\ tState' = [tState EXCEPT ![t] = "ACTIVE"]
        /\ tInst' = [tInst EXCEPT ![t] = i]
        /\ tEpoch' = [tEpoch EXCEPT ![t] = epoch]
        /\ SlotOf[i] = activeSlot
    BY <1>2, AdmissionIsCurrent DEF Open
  <2>2. \A u \in Tickets :
          u # t => tState'[u] = tState[u] /\ tInst'[u] = tInst[u] /\ tEpoch'[u] = tEpoch[u]
    BY <2>1
  <2>3. tInst'[t] = i /\ tEpoch'[t] = epoch
    BY <2>1
  <2>4. \A u \in Tickets : tState[u] # "none" /\ tEpoch[u] = epoch
                             => SlotOf[tInst[u]] = activeSlot
    OBVIOUS
  <2> SUFFICES ASSUME NEW u \in Tickets, NEW v \in Tickets,
                      tState'[u] # "none", tState'[v] # "none", tEpoch'[u] = tEpoch'[v]
               PROVE  SlotOf[tInst'[u]] = SlotOf[tInst'[v]]
    OBVIOUS
  <2> QED
    BY <2>1, <2>2, <2>3, <2>4
<1>3. ASSUME NEW t \in Tickets, Progress(t) PROVE OneSlotPerEpoch'
  <2>1. UNCHANGED <<tInst, tEpoch>> /\ \A u \in Tickets : tState'[u] # "none" => tState[u] # "none"
    BY <1>3 DEF TasksLive, Progress, BeginOperation, CheckTicket, SendWrite, LandWrite,
       EndOperation, FailOperation, FinishTicket, LoseFinish
  <2> QED
    BY <2>1
<1>4. CASE CommandStep
  <2>1. UNCHANGED <<tInst, tEpoch>> /\ \A u \in Tickets : tState'[u] # "none" => tState[u] # "none"
    BY <1>4 DEF TasksLive, CommandStep, FinishCommand
  <2> QED
    BY <2>1
<1>5. ASSUME NEW i \in Instances, Living(i) PROVE UNCHANGED tickets
  BY <1>5 DEF Living, Register, Stop, Drain, Close, Crash
<1>6. CASE Recover
  BY <1>1, <1>6 DEF Recover
<1> QED
  BY <1>1, <1>2, <1>3, <1>4, <1>5, <1>6, Shapes, MoveIsClean DEF Work

\* admit_writer() and claim_command() never admit two slots in one epoch.
THEOREM OneSideAdmitted == ASSUME HandoverAssumption PROVE Spec => []OneSlotPerEpoch
<1>1. Init => OneSlotPerEpoch
  BY DEF Init, OneSlotPerEpoch
<1>2. IInv /\ OneSlotPerEpoch /\ [Next]_vars => OneSlotPerEpoch'
  BY OneSlotStep
<1> QED
  BY <1>1, <1>2, Inductive, PTL DEF Spec

\* The writes of the module WritingSide.
Writing == {<<SlotOf[tInst[t]], t>> : t \in Sent}

LEMMA WritingUnchanged ==
  ASSUME UNCHANGED tInst, Sent' = Sent PROVE Writing' = Writing
BY DEF Writing

\* Each step of a hand-over is a step of the promise, or changes nothing of it.
LEMMA SideStep ==
  ASSUME HandoverAssumption, IInv, [Next]_vars
  PROVE  [Promise!Next]_Promise!vars
<1> USE DEF IInv, TypeOK, Work, tickets
<1>1. CASE UNCHANGED <<activeSlot, epoch>> /\ Writing' = Writing
  BY <1>1 DEF Promise!vars, Writing
<1>2. ASSUME NEW r \in Releases, Move(r) PROVE Promise!Next
  <2>1. \A t \in Tickets : write[t] # "sent"
    BY <1>2, MoveIsClean DEF DrainEmpty, WritesOwned
  <2>2. Sent = {} /\ Sent' = {}
    BY <1>2, <2>1, MoveIsClean DEF Sent
  <2>3. Writing = {} /\ Writing' = {}
    BY <2>2 DEF Writing
  <2>4. activeSlot' \in {"blue", "green"} \ {activeSlot} /\ epoch' = epoch + 1
    BY <1>2, MoveIsClean, SlotsAndPhases DEF Slots
  <2> QED
    BY <2>3, <2>4 DEF Promise!Next, Promise!Handover, Writing
<1> SUFFICES ASSUME UNCHANGED <<activeSlot, epoch>> PROVE
       /\ \A i \in Instances : Living(i) => Writing' = Writing
       /\ \A i \in Instances, t \in Tickets : Admission(i, t) => Writing' = Writing
       /\ \A t \in Tickets : Progress(t) => Promise!Next \/ Writing' = Writing
       /\ CommandStep => Writing' = Writing
       /\ Recover => Writing' = Writing
  <2>1. ASSUME UNCHANGED Work PROVE Writing' = Writing
    BY <2>1, WritingUnchanged DEF Sent
  <2> QED
    BY <1>1, <1>2, <2>1, Shapes
<1>3. ASSUME NEW i \in Instances, Living(i) PROVE Writing' = Writing
  BY <1>3, WritingUnchanged DEF Living, Register, Stop, Drain, Close, Crash, Sent, memory
<1>4. ASSUME NEW i \in Instances, NEW t \in Tickets, Admission(i, t)
      PROVE  Writing' = Writing
  <2>1. t \notin Sent /\ Sent' = Sent /\ \A u \in Sent : tInst'[u] = tInst[u]
    BY <1>4, AdmissionIsCurrent DEF Open, TicketsUsed, Sent
  <2> QED
    BY <2>1 DEF Writing
<1>5. ASSUME NEW t \in Tickets, SendWrite(t) PROVE Promise!Next
  <2>1. Sent' = Sent \cup {t} /\ UNCHANGED tInst
    BY <1>5 DEF SendWrite, Sent
  <2>2. SlotOf[tInst[t]] = activeSlot
    BY <1>5 DEF SendWrite, WorkIsCurrent
  <2>3. Writing' = Writing \cup {<<activeSlot, t>>}
    BY <2>1, <2>2 DEF Writing
  <2> QED
    BY <2>3 DEF Promise!Next, Promise!Start, Writing
<1>6. ASSUME NEW t \in Tickets, LandWrite(t) PROVE Promise!Next
  <2>1. Sent' = Sent \ {t} /\ UNCHANGED tInst
    BY <1>6 DEF LandWrite, Sent
  <2>2. SlotOf[tInst[t]] = activeSlot
    BY <1>6 DEF LandWrite, WorkIsCurrent
  <2>3. Writing' = Writing \ {<<activeSlot, t>>}
    BY <2>1, <2>2 DEF Writing
  <2> QED
    BY <2>3 DEF Promise!Next, Promise!End, Writing
<1>7. ASSUME NEW t \in Tickets, Progress(t), ~SendWrite(t), ~LandWrite(t)
      PROVE  Writing' = Writing
  BY <1>7, WritingUnchanged DEF Progress, BeginOperation, CheckTicket, EndOperation,
     FailOperation, FinishTicket, LoseFinish, Sent, memory
<1>8. CASE CommandStep \/ Recover
  BY <1>8, WritingUnchanged DEF CommandStep, FinishCommand, Recover, Sent, memory
<1> QED
  BY <1>3, <1>4, <1>5, <1>6, <1>7, <1>8

\* The tables of a release implement the promise to the stores: one side writes, and
\* the side changes only when no request of the last one is under way.
THEOREM HandoverIsSafe == ASSUME HandoverAssumption PROVE Spec => OneSideWrites
<1>1. Init => Promise!Init
  BY DEF Init, Promise!Init, Sent
<1>2. IInv /\ [Next]_vars => [Promise!Next]_Promise!vars
  BY SideStep
<1> QED
  BY <1>1, <1>2, Inductive, PTL DEF Spec, OneSideWrites, Promise!Spec

=============================================================================
