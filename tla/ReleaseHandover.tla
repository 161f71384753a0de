--------------------------- MODULE ReleaseHandover ---------------------------
(***************************************************************************)
(* The durable hand-over of one data scope between two slots, blue and     *)
(* green: the tables and functions of                                      *)
(* release/migrations/001_release.sql, the operator's transactions of      *)
(* release/store.py, and what an instance does around them                 *)
(* (release/runtime.py, executor.py, lifecycle.py).                        *)
(*                                                                         *)
(* Every operator transaction and every function that admits work takes    *)
(* the row of the scope FOR UPDATE, so each is one step.  What an instance *)
(* does between two of them is interleaved.  candidate_slot is always the  *)
(* other slot once a release has begun, and is not kept.                   *)
(*                                                                         *)
(* Of the coordinator (module Coordinator) each ticket has one operation,  *)
(* which ends, or stays behind and fences the workspace until an audit.    *)
(***************************************************************************)
EXTENDS Naturals, FiniteSets, Sequences

CONSTANTS
    Instances,    \* application processes, one per pod
    SlotOf,       \* LIGHTRAG_RELEASE_SLOT of an instance
    ConfigOf,     \* LIGHTRAG_RELEASE_CONFIG_HASH of an instance
    BaseConfig,   \* config_hash the scope was enrolled with
    Releases,     \* release ids
    NewConfig,    \* config_hash in the identity of a release
    Version,      \* its tag, as a number
    Approved,     \* releases an operator has approved a rollback of
    Tickets,      \* ids of admission tickets
    Commands,     \* queued commands (principal and idempotency key)
    Refs,         \* source references: upload sessions and objects
    RefsOf,       \* source_refs of a command's envelope
    Capacity,     \* policy.queue_capacity
    None          \* no release, ticket or instance

ASSUME HandoverAssumption ==
    /\ SlotOf \in [Instances -> {"blue", "green"}]
    /\ None \notin Instances \cup Releases \cup Tickets
    /\ Version \in [Releases -> Nat]
    /\ RefsOf \in [Commands -> SUBSET Refs]
    /\ Approved \subseteq Releases
    /\ Capacity \in Nat \ {0}

VARIABLES
    \* The row of the scope.
    activeSlot, config, epoch, owner, phase, gateOpen,
    identity,     \* the release whose identity is stored
    expired,      \* clock_timestamp() > drain_deadline
    \* releases
    relPhase,     \* "none" before the INSERT
    previous,     \* epoch, active_slot and config_hash before the release
    approval,     \* releases with a rollback_approval
    \* instances
    registered, retiring, closed,
    \* tickets
    tState,       \* "none" before the INSERT
    tInst, tEpoch,
    \* commands
    queue,        \* QUEUED commands in the order of their sequence
    cState,       \* "none" before the INSERT
    cTicket,      \* ticket_id; its instance is the executor
    \* source_cleanup
    cleaner,      \* ticket of the row of a reference
    cleaned,      \* references in the state CLEANED
    \* Coordinator: the operation of a ticket and the fence of the workspace.
    op, fenced,
    \* The instances' own memory, and requests to the business stores.
    life,         \* up, stopping (close_instance), drained, closed or dead
    seen,         \* epoch of scope_state
    halted,       \* instances whose executor has stopped (executor_error)
    running,      \* tickets some task of their instance is using
    write         \* the physical write of a ticket's task

scope == <<activeSlot, config, epoch, owner, phase, gateOpen, identity, expired>>
releases == <<relPhase, previous, approval>>
instances == <<registered, retiring, closed>>
tickets == <<tState, tInst, tEpoch>>
commands == <<queue, cState, cTicket>>
cleanup == <<cleaner, cleaned>>
memory == <<life, seen, halted, running, write>>
vars == <<scope, releases, instances, tickets, commands, cleanup, op, fenced, memory>>

Slots == {"blue", "green"}
Other(s) == IF s = "blue" THEN "green" ELSE "blue"
Configs == {BaseConfig} \cup {NewConfig[r] : r \in Releases}

ForwardPhases == {"PREPARED", "DRAINING", "READ_SWITCHED", "WRITER_SWITCHED", "RETIRING"}
Terminal == {"COMPLETED", "ABORTED", "ROLLED_BACK"}
Phases ==
    {"IDLE", "ABORTING", "ROLLBACK_DRAINING", "ROLLBACK_WRITER_SWITCHED",
     "ROLLBACK_RETIRING"} \cup ForwardPhases \cup Terminal

Previous == [epoch : Nat, slot : Slots, config : Configs]
CommandStates == {"none", "QUEUED", "EXECUTING", "SUCCEEDED", "FAILED", "UNCERTAIN"}

TypeOK ==
    /\ activeSlot \in Slots
    /\ config \in Configs
    /\ epoch \in Nat
    /\ owner \in Releases \cup {None}
    /\ phase \in Phases
    /\ gateOpen \in BOOLEAN
    /\ identity \in Releases \cup {None}
    /\ expired \in BOOLEAN
    /\ relPhase \in [Releases -> {"none"} \cup Phases]
    /\ previous \in [Releases -> Previous]
    /\ approval \subseteq Releases
    /\ registered \subseteq Instances
    /\ retiring \subseteq Instances
    /\ closed \subseteq Instances
    /\ tState \in [Tickets -> {"none", "ACTIVE", "COMPLETED", "UNCERTAIN"}]
    /\ tInst \in [Tickets -> Instances \cup {None}]
    /\ tEpoch \in [Tickets -> Nat]
    /\ queue \in Seq(Commands)
    /\ cState \in [Commands -> CommandStates]
    /\ cTicket \in [Commands -> Tickets \cup {None}]
    /\ cleaner \in [Refs -> Tickets \cup {None}]
    /\ cleaned \subseteq Refs
    /\ op \in [Tickets -> {"none", "running", "done", "stuck", "audited"}]
    /\ fenced \in BOOLEAN
    /\ life \in [Instances -> {"new", "up", "stopping", "drained", "closed", "dead"}]
    /\ seen \in [Instances -> Nat]
    /\ halted \subseteq Instances
    /\ running \subseteq Tickets
    /\ write \in [Tickets -> {"none", "checked", "sent"}]

\* onboard(): an enrolled scope on the blue slot, and nothing else yet.
Init ==
    /\ activeSlot = "blue"
    /\ config = BaseConfig
    /\ epoch = 1
    /\ owner = None
    /\ phase = "IDLE"
    /\ gateOpen = TRUE
    /\ identity = None
    /\ expired = FALSE
    /\ relPhase = [r \in Releases |-> "none"]
    /\ previous = [r \in Releases |-> [epoch |-> 0, slot |-> "blue", config |-> BaseConfig]]
    /\ approval = {}
    /\ registered = {} /\ retiring = {} /\ closed = {}
    /\ tState = [t \in Tickets |-> "none"]
    /\ tInst = [t \in Tickets |-> None]
    /\ tEpoch = [t \in Tickets |-> 0]
    /\ queue = <<>>
    /\ cState = [c \in Commands |-> "none"]
    /\ cTicket = [c \in Commands |-> None]
    /\ cleaner = [x \in Refs |-> None]
    /\ cleaned = {}
    /\ op = [t \in Tickets |-> "none"]
    /\ fenced = FALSE
    /\ life = [i \in Instances |-> "new"]
    /\ seen = [i \in Instances |-> 0]
    /\ halted = {} /\ running = {}
    /\ write = [t \in Tickets |-> "none"]

-----------------------------------------------------------------------------
(* Evidence.                                                               *)

\* A row of coordination.operations in the state 'active'.
ActiveOp(t) == op[t] \in {"running", "stuck"}
Unfinished(t) == tState[t] \in {"ACTIVE", "UNCERTAIN"}
UncertainWork ==
    \/ \E t \in Tickets : tState[t] = "UNCERTAIN"
    \/ \E c \in Commands : cState[c] = "UNCERTAIN"

\* unknown_owners: an active operation of an instance that is closed.
UnknownOwners == \E t \in Tickets : ActiveOp(t) /\ tInst[t] \in closed
\* orphans: an active operation whose owner's session is gone.
Orphans == \E t \in Tickets : ActiveOp(t) /\ life[tInst[t]] \in {"dead", "closed"}

\* Mutant of DrainEmpty: the tickets are not counted.
EmptyWithoutTickets ==
    /\ ~fenced
    /\ \A t \in Tickets : ~ActiveOp(t)
    /\ \A c \in Commands : cState[c] # "UNCERTAIN"
    /\ \A x \in Refs : cleaner[x] = None \/ x \in cleaned

\* collect_drain_evidence().require_empty(): pending writes, claims and locks
\* belong to active operations.
DrainEmpty ==
    /\ ~fenced
    /\ \A t \in Tickets : ~ActiveOp(t) /\ ~Unfinished(t)
    /\ \A c \in Commands : cState[c] # "UNCERTAIN"
    /\ \A x \in Refs : cleaner[x] = None \/ x \in cleaned

\* assert_instance_quiescent().
Quiescent(i) == \A t \in Tickets : tInst[t] = i => ~Unfinished(t) /\ ~ActiveOp(t)

OpenInstances(s) == {i \in registered : SlotOf[i] = s /\ i \notin closed}
\* NOT closed AND NOT retiring, of one slot.
Available(s) == OpenInstances(s) \ retiring

-----------------------------------------------------------------------------
(* Instances.                                                              *)

\* Mutant of ConfigAccepted: any slot may run the candidate's configuration.
AnyConfig(i) == ConfigOf[i] \in {config} \cup {NewConfig[r] : r \in Releases \cap {identity}}
\* The active slot runs the scope's configuration, the other slot that of the
\* stored identity.
ConfigAccepted(i) ==
    IF SlotOf[i] = activeSlot
    THEN ConfigOf[i] = config
    ELSE identity # None /\ ConfigOf[i] = NewConfig[identity]

\* register_instance().
Register(i) ==
    /\ life[i] = "new"
    /\ ConfigAccepted(i)
    /\ registered' = registered \cup {i}
    /\ life' = [life EXCEPT ![i] = "up"]
    /\ seen' = [seen EXCEPT ![i] = epoch]
    /\ UNCHANGED <<scope, releases, retiring, closed, tickets, commands, cleanup, op,
                   fenced, halted, running, write>>

\* refresh(): a read of the scope without the lock; whatever uses it comes later.
Refresh(i) ==
    /\ life[i] \in {"up", "stopping"}
    /\ seen[i] # epoch
    /\ seen' = [seen EXCEPT ![i] = epoch]
    /\ UNCHANGED <<scope, releases, instances, tickets, commands, cleanup, op, fenced,
                   life, halted, running, write>>

\* close_instance(): begin_retire(), the executor and the polling stop.  Its
\* cause is a retirement seen by the controller or a stop of the pod.
Stop(i) ==
    /\ life[i] = "up"
    /\ life' = [life EXCEPT ![i] = "stopping"]
    /\ UNCHANGED <<scope, releases, instances, tickets, commands, cleanup, op, fenced,
                   seen, halted, running, write>>

\* Mutant of Drain: the database is not asked.
DrainLocally(i) ==
    /\ life[i] = "stopping"
    /\ \A t \in running : tInst[t] # i
    /\ life' = [life EXCEPT ![i] = "drained"]
    /\ UNCHANGED <<scope, releases, instances, tickets, commands, cleanup, op, fenced,
                   seen, halted, running, write>>
\* Every local count is zero and the database agrees.
Drain(i) ==
    /\ life[i] = "stopping"
    /\ \A t \in running : tInst[t] # i
    /\ Quiescent(i)
    /\ life' = [life EXCEPT ![i] = "drained"]
    /\ UNCHANGED <<scope, releases, instances, tickets, commands, cleanup, op, fenced,
                   seen, halted, running, write>>

\* Storages are finalized, then the row is closed and the witness ends.
Close(i) ==
    /\ life[i] = "drained"
    /\ Quiescent(i)
    /\ closed' = closed \cup {i}
    /\ retiring' = retiring \cup {i}
    /\ life' = [life EXCEPT ![i] = "closed"]
    /\ UNCHANGED <<scope, releases, registered, tickets, commands, cleanup, op, fenced,
                   seen, halted, running, write>>

\* A write that was sent stays under way.
Crash(i) ==
    /\ life[i] \in {"up", "stopping", "drained"}
    /\ life' = [life EXCEPT ![i] = "dead"]
    /\ running' = {t \in running : tInst[t] # i}
    /\ write' = [t \in Tickets |->
                    IF tInst[t] = i /\ write[t] = "checked" THEN "none" ELSE write[t]]
    /\ UNCHANGED <<scope, releases, instances, tickets, commands, cleanup, op, fenced,
                   seen, halted>>

-----------------------------------------------------------------------------
(* Tickets and what is written under them.                                 *)

LiveParent(i, p) ==
    p # None /\ tState[p] = "ACTIVE" /\ tInst[p] = i /\ tEpoch[p] = seen[i]

\* Mutant of Admissible: the epoch the instance has read is not compared.
AdmissibleAnyEpoch(i, p) ==
    /\ i \notin closed \cup retiring
    /\ SlotOf[i] = activeSlot
    /\ LiveParent(i, p) \/ (gateOpen /\ ~UncertainWork)
\* The guards of admit_writer().  Work below a live ticket passes a closed gate.
Admissible(i, p) ==
    /\ i \notin closed \cup retiring
    /\ SlotOf[i] = activeSlot
    /\ seen[i] = epoch
    /\ LiveParent(i, p) \/ (gateOpen /\ ~UncertainWork)

Open(i, t) ==
    /\ tState[t] = "none"
    /\ tState' = [tState EXCEPT ![t] = "ACTIVE"]
    /\ tInst' = [tInst EXCEPT ![t] = i]
    /\ tEpoch' = [tEpoch EXCEPT ![t] = seen[i]]
    /\ running' = running \cup {t}

\* operation() or cache_fill(): the poller, a background task or a query that
\* fills a cache (p = None), or a task of the ticket p.
AdmitWriter(i, t, p) ==
    /\ life[i] \in {"up", "stopping"}
    /\ p # None => p \in running
    /\ Admissible(i, p)
    /\ Open(i, t)
    /\ UNCHANGED <<scope, releases, instances, commands, cleanup, op, fenced, life,
                   seen, halted, write>>

\* The coordinator admits the operation of the ticket and it is attached.
BeginOperation(t) ==
    /\ t \in running
    /\ op[t] = "none"
    /\ ~fenced /\ ~Orphans
    /\ op' = [op EXCEPT ![t] = "running"]
    /\ UNCHANGED <<scope, releases, instances, tickets, commands, cleanup, fenced, memory>>

\* assert_ticket().
LiveTicket(t) == tState[t] = "ACTIVE" /\ tEpoch[t] = epoch /\ tInst[t] \notin closed

\* physical_write(): the ticket is asserted, the mutation recorded as pending in
\* the coordinator and the request sent; these are two transactions.
CheckTicket(t) ==
    /\ t \in running
    /\ op[t] = "running"
    /\ write[t] = "none"
    /\ LiveTicket(t)
    /\ write' = [write EXCEPT ![t] = "checked"]
    /\ UNCHANGED <<scope, releases, instances, tickets, commands, cleanup, op, fenced,
                   life, seen, halted, running>>
SendWrite(t) ==
    /\ write[t] = "checked"
    /\ op[t] = "running"
    /\ ~fenced
    /\ write' = [write EXCEPT ![t] = "sent"]
    /\ UNCHANGED <<scope, releases, instances, tickets, commands, cleanup, op, fenced,
                   life, seen, halted, running>>
\* A store executes the request, its sender alive or not.
LandWrite(t) ==
    /\ write[t] = "sent"
    /\ write' = [write EXCEPT ![t] = "none"]
    /\ UNCHANGED <<scope, releases, instances, tickets, commands, cleanup, op, fenced,
                   life, seen, halted, running>>

\* Mutant of EndOperation: pending mutations are not looked at.
EndUnconfirmed(t) ==
    /\ t \in running
    /\ op[t] = "running"
    /\ ~fenced
    /\ op' = [op EXCEPT ![t] = "done"]
    /\ UNCHANGED <<scope, releases, instances, tickets, commands, cleanup, fenced, memory>>
\* The operation ends without an error and with every mutation confirmed.
EndOperation(t) ==
    /\ t \in running
    /\ op[t] = "running"
    /\ write[t] = "none"
    /\ ~fenced
    /\ op' = [op EXCEPT ![t] = "done"]
    /\ UNCHANGED <<scope, releases, instances, tickets, commands, cleanup, fenced, memory>>

\* Any exception, cancellation or lost acknowledgement: _mark_uncertain().
FailOperation(t) ==
    /\ t \in running
    /\ op[t] = "running"
    /\ op' = [op EXCEPT ![t] = "stuck"]
    /\ fenced' = TRUE
    /\ write' = [write EXCEPT ![t] = IF @ = "checked" THEN "none" ELSE @]
    /\ UNCHANGED <<scope, releases, instances, tickets, commands, cleanup, life, seen,
                   halted, running>>

OfCommand(t) == \E c \in Commands : cTicket[c] = t

\* The end of operation(): UNCERTAIN when an exception leaves a bound operation.
FinishTicket(t) ==
    /\ t \in running
    /\ op[t] # "running"
    /\ ~OfCommand(t)
    /\ tState' = [tState EXCEPT ![t] = IF op[t] = "stuck" THEN "UNCERTAIN" ELSE "COMPLETED"]
    /\ running' = running \ {t}
    /\ UNCHANGED <<scope, releases, instances, tInst, tEpoch, commands, cleanup, op,
                   fenced, life, seen, halted, write>>

\* finish_ticket() or finish_command() does not reach the database, and is not
\* repeated; the executor stops.
LoseFinish(t) ==
    /\ t \in running
    /\ op[t] # "running"
    /\ running' = running \ {t}
    /\ halted' = IF OfCommand(t) THEN halted \cup {tInst[t]} ELSE halted
    /\ UNCHANGED <<scope, releases, instances, tickets, commands, cleanup, op, fenced,
                   life, seen, write>>

-----------------------------------------------------------------------------
(* Commands and the cleanup of their sources.                              *)

\* Mutant of Wanted: a command that is being executed no longer counts.
WantedQueued(x) == \E c \in Commands : cState[c] = "QUEUED" /\ x \in RefsOf[c]
UnfinishedCommand(c) == cState[c] \in {"QUEUED", "EXECUTING", "UNCERTAIN"}
Wanted(x) == \E c \in Commands : UnfinishedCommand(c) /\ x \in RefsOf[c]

\* enqueue_command(); a repeated key changes nothing.
Enqueue(i, c) ==
    /\ life[i] \in {"up", "stopping"}
    /\ i \in registered \ closed
    /\ cState[c] = "none"
    /\ \A x \in RefsOf[c] : cleaner[x] = None
    /\ Cardinality({d \in Commands : UnfinishedCommand(d)}) < Capacity
    /\ cState' = [cState EXCEPT ![c] = "QUEUED"]
    /\ queue' = Append(queue, c)
    /\ UNCHANGED <<scope, releases, instances, tickets, cTicket, cleanup, op, fenced, memory>>

\* The executor of an instance handles one command at a time.
Executing(i) == \E c \in Commands : cState[c] = "EXECUTING" /\ tInst[cTicket[c]] = i

\* claim_command(), by _consume().
Claim(i, t) ==
    /\ life[i] \in {"up", "stopping"}
    /\ i \notin halted
    /\ ~Executing(i)
    /\ queue # <<>>
    /\ gateOpen
    /\ Admissible(i, None)
    /\ Open(i, t)
    /\ cState' = [cState EXCEPT ![Head(queue)] = "EXECUTING"]
    /\ cTicket' = [cTicket EXCEPT ![Head(queue)] = t]
    /\ queue' = Tail(queue)
    /\ UNCHANGED <<scope, releases, instances, cleanup, op, fenced, life, seen, halted,
                   write>>

\* Mutant of FinishCommand: the ticket is completed whatever the outcome.
FinishCompletes(c, s) ==
    LET t == cTicket[c] IN
    /\ cState[c] = "EXECUTING"
    /\ t \in running
    /\ op[t] # "running"
    /\ cState' = [cState EXCEPT ![c] = s]
    /\ tState' = [tState EXCEPT ![t] = "COMPLETED"]
    /\ running' = running \ {t}
    /\ halted' = IF s = "UNCERTAIN" THEN halted \cup {tInst[t]} ELSE halted
    /\ UNCHANGED <<scope, releases, instances, tInst, tEpoch, queue, cTicket, cleanup,
                   op, fenced, life, seen, write>>
\* finish_command() with the outcome s of execute_command().  A handler that
\* hides the failure of its operation may report any outcome.
FinishCommand(c, s) ==
    LET t == cTicket[c] IN
    /\ cState[c] = "EXECUTING"
    /\ t \in running
    /\ op[t] # "running"
    /\ cState' = [cState EXCEPT ![c] = s]
    /\ tState' = [tState EXCEPT ![t] = IF s = "UNCERTAIN" THEN "UNCERTAIN" ELSE "COMPLETED"]
    /\ running' = running \ {t}
    /\ halted' = IF s = "UNCERTAIN" THEN halted \cup {tInst[t]} ELSE halted
    /\ UNCHANGED <<scope, releases, instances, tInst, tEpoch, queue, cTicket, cleanup,
                   op, fenced, life, seen, write>>

\* claim_source_cleanup(); a row that exists refuses another one.
ClaimCleanup(t, x) ==
    /\ t \in running
    /\ op[t] = "running"
    /\ LiveTicket(t)
    /\ ~Wanted(x)
    /\ cleaner[x] = None
    /\ cleaner' = [cleaner EXCEPT ![x] = t]
    /\ UNCHANGED <<scope, releases, instances, tickets, commands, cleaned, op, fenced, memory>>
\* finish_source_cleanup().
FinishCleanup(t, x) ==
    /\ t \in running
    /\ op[t] = "running"
    /\ LiveTicket(t)
    /\ cleaner[x] = t
    /\ x \notin cleaned
    /\ cleaned' = cleaned \cup {x}
    /\ UNCHANGED <<scope, releases, instances, tickets, commands, cleaner, op, fenced, memory>>

-----------------------------------------------------------------------------
(* The coordinator's fence.                                                *)

\* The next admission finds an operation whose witness is gone.
DiscoverOrphan ==
    /\ Orphans
    /\ ~fenced
    /\ fenced' = TRUE
    /\ UNCHANGED <<scope, releases, instances, tickets, commands, cleanup, op, memory>>

\* recover(), by an operator who has seen the requests in flight finish.  It
\* knows nothing of tickets and commands.
Recover ==
    /\ fenced
    /\ \A t \in Tickets : ActiveOp(t) => life[tInst[t]] \in {"dead", "closed"}
    /\ \A t \in Tickets : write[t] # "sent"
    /\ op' = [t \in Tickets |-> IF ActiveOp(t) THEN "audited" ELSE op[t]]
    /\ fenced' = FALSE
    /\ UNCHANGED <<scope, releases, instances, tickets, commands, cleanup, memory>>

-----------------------------------------------------------------------------
(* The operator's transactions.  Each compares owner, identity, epoch and   *)
(* phase with what its caller expects.                                      *)

Owns(r, ps) == owner = r /\ identity = r /\ phase \in ps
Enter(r, p) ==
    /\ phase' = p
    /\ relPhase' = [relPhase EXCEPT ![r] = p]
    /\ owner' = IF p \in Terminal THEN None ELSE owner

\* begin(); a release that ended, or that owns the scope, is only looked up.
Begin(r) ==
    /\ owner = None
    /\ relPhase[r] = "none"
    /\ gateOpen
    /\ phase \in Terminal \cup {"IDLE"}
    /\ \A q \in Releases : relPhase[q] = "COMPLETED" => Version[q] < Version[r]
    /\ phase' = "PREPARED"
    /\ relPhase' = [relPhase EXCEPT ![r] = "PREPARED"]
    /\ owner' = r
    /\ identity' = r
    /\ previous' = [previous EXCEPT ![r] =
                        [epoch |-> epoch, slot |-> activeSlot, config |-> config]]
    /\ UNCHANGED <<activeSlot, config, epoch, gateOpen, expired, approval, instances,
                   tickets, commands, cleanup, op, fenced, memory>>

\* transition(): the steps that move no writer.
StartDrain(r) ==
    /\ Owns(r, {"PREPARED"})
    /\ Enter(r, "DRAINING")
    /\ gateOpen' = FALSE
    /\ expired' = FALSE
    /\ UNCHANGED <<activeSlot, config, epoch, identity, previous, approval, instances,
                   tickets, commands, cleanup, op, fenced, memory>>
Advance(r, p, q) ==
    /\ Owns(r, {p})
    /\ Enter(r, q)
    /\ UNCHANGED <<activeSlot, config, epoch, gateOpen, identity, expired, previous,
                   approval, instances, tickets, commands, cleanup, op, fenced, memory>>
SwitchRead(r) == Advance(r, "DRAINING", "READ_SWITCHED")
BeginRetiring(r) == Advance(r, "WRITER_SWITCHED", "RETIRING")
StandbyClosed == OpenInstances(Other(activeSlot)) = {}
Complete(r) == StandbyClosed /\ Advance(r, "RETIRING", "COMPLETED")

\* The drain budget, kept as a deadline in the scope, runs out.
Expire ==
    /\ ~gateOpen
    /\ ~expired
    /\ expired' = TRUE
    /\ UNCHANGED <<activeSlot, config, epoch, owner, phase, gateOpen, identity, releases,
                   instances, tickets, commands, cleanup, op, fenced, memory>>

\* What both transfers ask: available instances, all with the configuration f.
Ready(s, f) == Available(s) # {} /\ \A i \in Available(s) : ConfigOf[i] = f

MoveWriter(s, f) ==
    /\ ~gateOpen
    /\ ~expired
    /\ Ready(s, f)
    /\ DrainEmpty
    /\ activeSlot' = s
    /\ config' = f
    /\ epoch' = epoch + 1
    /\ gateOpen' = TRUE
    /\ UNCHANGED <<identity, expired, previous, approval, instances, tickets, commands,
                   cleanup, op, fenced, memory>>

TransferWriter(r) ==
    /\ Owns(r, {"READ_SWITCHED"})
    /\ Enter(r, "WRITER_SWITCHED")
    /\ MoveWriter(Other(activeSlot), NewConfig[r])

\* begin_rollback().
BeginRollback(r) ==
    /\ Owns(r, {"WRITER_SWITCHED"})
    /\ r \in Approved
    /\ Available(previous[r].slot) # {}
    /\ Enter(r, "ROLLBACK_DRAINING")
    /\ gateOpen' = FALSE
    /\ expired' = FALSE
    /\ approval' = approval \cup {r}
    /\ UNCHANGED <<activeSlot, config, epoch, identity, previous, instances, tickets,
                   commands, cleanup, op, fenced, memory>>

\* Mutant of ReverseTransfer: the scope keeps the configuration of the release.
ReverseKeepsConfig(r) ==
    /\ Owns(r, {"ROLLBACK_DRAINING"})
    /\ r \in approval
    /\ Enter(r, "ROLLBACK_WRITER_SWITCHED")
    /\ MoveWriter(previous[r].slot, config)
ReverseTransfer(r) ==
    /\ Owns(r, {"ROLLBACK_DRAINING"})
    /\ r \in approval
    /\ Enter(r, "ROLLBACK_WRITER_SWITCHED")
    /\ MoveWriter(previous[r].slot, previous[r].config)

\* finish_rollback(), called twice.
RetireRollback(r) == Advance(r, "ROLLBACK_WRITER_SWITCHED", "ROLLBACK_RETIRING")
FinishRollback(r) == StandbyClosed /\ Advance(r, "ROLLBACK_RETIRING", "ROLLED_BACK")

\* Mutant of Retire: the slot that writes is told to retire.
RetireActive(r) ==
    /\ Owns(r, {"RETIRING", "ROLLBACK_RETIRING", "ABORTING"})
    /\ retiring' = retiring \cup OpenInstances(activeSlot)
    /\ UNCHANGED <<scope, releases, registered, closed, tickets, commands, cleanup, op,
                   fenced, memory>>
\* retire_old_instances().
Retire(r) ==
    /\ Owns(r, {"RETIRING", "ROLLBACK_RETIRING", "ABORTING"})
    /\ retiring' = retiring \cup OpenInstances(Other(activeSlot))
    /\ UNCHANGED <<scope, releases, registered, closed, tickets, commands, cleanup, op,
                   fenced, memory>>

\* Mutant of Abort: the gate stays closed.
AbortKeepsGate(r) ==
    /\ Owns(r, {"PREPARED", "DRAINING", "READ_SWITCHED"})
    /\ ~UncertainWork /\ ~fenced /\ ~UnknownOwners /\ ~Orphans
    /\ Enter(r, "ABORTING")
    /\ UNCHANGED <<activeSlot, config, epoch, gateOpen, identity, expired, previous,
                   approval, instances, tickets, commands, cleanup, op, fenced, memory>>
\* abort_before_transfer(): writers may go on, uncertain ones may not exist.
Abort(r) ==
    /\ Owns(r, {"PREPARED", "DRAINING", "READ_SWITCHED"})
    /\ ~UncertainWork /\ ~fenced /\ ~UnknownOwners /\ ~Orphans
    /\ Enter(r, "ABORTING")
    /\ gateOpen' = TRUE
    /\ UNCHANGED <<activeSlot, config, epoch, identity, expired, previous, approval,
                   instances, tickets, commands, cleanup, op, fenced, memory>>

\* finish_abort().
FinishAbort(r) ==
    /\ StandbyClosed
    /\ ~UncertainWork /\ ~fenced /\ ~UnknownOwners /\ ~Orphans
    /\ gateOpen
    /\ Advance(r, "ABORTING", "ABORTED")

-----------------------------------------------------------------------------
InstanceStep ==
    \E i \in Instances :
        \/ Register(i) \/ Refresh(i) \/ Stop(i) \/ Drain(i) \/ Close(i) \/ Crash(i)
        \/ \E t \in Tickets :
               \/ Claim(i, t)
               \/ \E p \in Tickets \cup {None} : AdmitWriter(i, t, p)
        \/ \E c \in Commands : Enqueue(i, c)

TicketStep ==
    \E t \in Tickets :
        \/ BeginOperation(t) \/ CheckTicket(t) \/ SendWrite(t) \/ LandWrite(t)
        \/ EndOperation(t) \/ FailOperation(t) \/ FinishTicket(t) \/ LoseFinish(t)
        \/ \E x \in Refs : ClaimCleanup(t, x) \/ FinishCleanup(t, x)

CommandStep ==
    \E c \in Commands, s \in {"SUCCEEDED", "FAILED", "UNCERTAIN"} : FinishCommand(c, s)

ControlStep ==
    \E r \in Releases :
        \/ Begin(r) \/ StartDrain(r) \/ SwitchRead(r) \/ TransferWriter(r)
        \/ BeginRetiring(r) \/ Retire(r) \/ Complete(r)
        \/ BeginRollback(r) \/ ReverseTransfer(r) \/ RetireRollback(r) \/ FinishRollback(r)
        \/ Abort(r) \/ FinishAbort(r)

Next ==
    \/ InstanceStep \/ TicketStep \/ CommandStep \/ ControlStep
    \/ DiscoverOrphan \/ Recover \/ Expire

Spec == Init /\ [][Next]_vars

-----------------------------------------------------------------------------
(* Steps of a system in which nothing fails, for module ReleaseOrchestrator. *)

\* A bound of the model: the commands to come find a ticket.
Spare ==
    Cardinality({t \in Tickets : tState[t] = "none"})
        > Cardinality({c \in Commands : cState[c] \in {"none", "QUEUED"}})

\* Only instances that have been told to retire stop.
Retiring(i) == i \in retiring /\ Stop(i)
\* No outcome is unknown.
Finish(c) == FinishCommand(c, "SUCCEEDED") \/ FinishCommand(c, "FAILED")

-----------------------------------------------------------------------------
(* Properties.                                                             *)

\* Work that is admitted, uncertain or under way in a store belongs to the
\* epoch and to the slot that may write: a hand-over leaves nothing behind, not
\* even a request of an instance that died.
WorkIsCurrent ==
    \A t \in Tickets :
        Unfinished(t) \/ ActiveOp(t) \/ write[t] # "none" =>
            tEpoch[t] = epoch /\ SlotOf[tInst[t]] = activeSlot

\* Whatever was ever admitted in one epoch was admitted for one slot.
OneSlotPerEpoch ==
    \A t, u \in Tickets :
        tState[t] # "none" /\ tState[u] # "none" /\ tEpoch[t] = tEpoch[u] =>
            SlotOf[tInst[t]] = SlotOf[tInst[u]]

\* An instance that finalizes its stores has no ticket, operation or write left.
DrainedIsIdle ==
    \A i \in Instances, t \in Tickets :
        life[i] \in {"drained", "closed"} /\ tInst[t] = i =>
            ~Unfinished(t) /\ ~ActiveOp(t) /\ write[t] = "none" /\ t \notin running

\* An instance that has been told to retire and still runs is never one of the
\* slot that writes.
RetiringIsStandby == \A i \in retiring \ closed : SlotOf[i] # activeSlot

\* Every registered instance of the slot that writes runs the configuration of
\* the scope, those that registered as a candidate of an earlier release too.
ActiveRunsConfig == \A i \in OpenInstances(activeSlot) : ConfigOf[i] = config

\* A release is all or nothing: once it has ended the scope is what the release
\* promised, or the slot and configuration from before it.
EndsClean ==
    identity # None /\ phase \in Terminal =>
        LET p == previous[identity] IN
        /\ owner = None /\ gateOpen
        /\ phase = "COMPLETED" =>
               /\ activeSlot = Other(p.slot) /\ epoch = p.epoch + 1
               /\ config = NewConfig[identity]
        /\ phase = "ABORTED" =>
               activeSlot = p.slot /\ epoch = p.epoch /\ config = p.config
        /\ phase = "ROLLED_BACK" =>
               activeSlot = p.slot /\ epoch = p.epoch + 2 /\ config = p.config

\* A command that is being executed holds a live ticket, and how it ended is how
\* its ticket ended: an outcome nobody knows stays in the way of every transfer.
CommandsFit ==
    \A c \in Commands :
        /\ cState[c] = "EXECUTING" => tState[cTicket[c]] = "ACTIVE"
        /\ cState[c] = "UNCERTAIN" => tState[cTicket[c]] = "UNCERTAIN"
        /\ cState[c] \in {"SUCCEEDED", "FAILED"} => tState[cTicket[c]] = "COMPLETED"

\* A source is never cleaned up under a command that is accepted and unfinished,
\* whichever of the two came first.
CleanupExcludes ==
    \A c \in Commands : UnfinishedCommand(c) => \A x \in RefsOf[c] : cleaner[x] = None

-----------------------------------------------------------------------------
(* The inductive invariant.                                                *)

TicketsUsed ==
    \A t \in Tickets :
        IF tState[t] = "none"
        THEN op[t] = "none" /\ write[t] = "none" /\ t \notin running
        ELSE /\ tInst[t] \in Instances
             /\ tEpoch[t] <= epoch
             /\ tEpoch[t] = epoch => SlotOf[tInst[t]] = activeSlot

\* A task runs in a live process and under a live ticket, and an operation has
\* its task unless the process died.
TasksLive ==
    \A t \in Tickets :
        /\ t \in running =>
               tState[t] = "ACTIVE" /\ life[tInst[t]] \in {"up", "stopping"}
        /\ op[t] = "running" => t \in running \/ life[tInst[t]] = "dead"

WritesOwned ==
    \A t \in Tickets :
        /\ write[t] = "checked" => op[t] = "running" /\ t \in running
        /\ write[t] = "sent" => ActiveOp(t)

InstancesLive ==
    /\ \A i \in Instances :
           /\ i \in registered <=> life[i] # "new"
           /\ i \in closed <=> life[i] = "closed"
    /\ retiring \subseteq registered

BeforeMove == {"PREPARED", "DRAINING", "READ_SWITCHED", "ABORTING", "ABORTED"}
AfterMove == {"WRITER_SWITCHED", "RETIRING", "COMPLETED", "ROLLBACK_DRAINING"}
AfterReverse == {"ROLLBACK_WRITER_SWITCHED", "ROLLBACK_RETIRING", "ROLLED_BACK"}

\* The phase says how the scope differs from what it was before the release.
ScopeFits ==
    /\ gateOpen <=> phase \notin {"DRAINING", "READ_SWITCHED", "ROLLBACK_DRAINING"}
    /\ owner = IF phase \in Terminal \cup {"IDLE"} THEN None ELSE identity
    /\ identity = None <=> phase = "IDLE"
    /\ identity # None =>
          LET p == previous[identity] IN
          /\ phase \in BeforeMove =>
                 activeSlot = p.slot /\ epoch = p.epoch /\ config = p.config
          /\ phase \in AfterMove =>
                 /\ activeSlot = Other(p.slot) /\ epoch = p.epoch + 1
                 /\ config = NewConfig[identity]
          /\ phase \in AfterReverse =>
                 activeSlot = p.slot /\ epoch = p.epoch + 2 /\ config = p.config

\* Only the other slot retires, and only at the end of a release.
RetiringFits ==
    /\ RetiringIsStandby
    /\ phase \notin {"RETIRING", "ROLLBACK_RETIRING", "ABORTING"} => retiring \subseteq closed

QueueFits ==
    /\ \A k \in 1..Len(queue) : cState[queue[k]] = "QUEUED"
    /\ \A k, l \in 1..Len(queue) : queue[k] = queue[l] => k = l
    /\ \A c \in Commands : cTicket[c] = None <=> cState[c] \in {"none", "QUEUED"}
    /\ \A c, d \in Commands : cTicket[c] = cTicket[d] /\ cTicket[c] # None => c = d
    /\ \A c \in Commands : cTicket[c] # None => tState[cTicket[c]] # "none"

IInv ==
    /\ TypeOK
    /\ TicketsUsed /\ TasksLive /\ WritesOwned /\ WorkIsCurrent
    /\ InstancesLive /\ DrainedIsIdle
    /\ ScopeFits /\ RetiringFits /\ ActiveRunsConfig
    /\ QueueFits /\ CommandsFit /\ CleanupExcludes

\* Without a failure an accepted command is executed, by the old side or by the
\* new one, whether the releases meanwhile succeed or are aborted because their
\* drain takes too long.
CommandsEnd ==
    \A c \in Commands : cState[c] = "QUEUED" ~> cState[c] \in {"SUCCEEDED", "FAILED"}

-----------------------------------------------------------------------------
(* The promise of module WritingSide, for the requests to the stores.      *)

Sent == {t \in Tickets : write[t] = "sent"}
Promise == INSTANCE WritingSide WITH
    Writers <- Tickets,
    side <- activeSlot,
    term <- epoch,
    writing <- {<<SlotOf[tInst[t]], t>> : t \in Sent}

\* Every request a store is executing comes from the slot that writes, and the
\* slot changes, together with the epoch, only while no request is under way.
OneSideWrites == Promise!Spec
=============================================================================
