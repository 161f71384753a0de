---------------------------- MODULE Coordinator ----------------------------
(***************************************************************************)
(* PostgresCoordinator (lightrag/distributed/coordinator.py): durable      *)
(* workspace tickets, resource locks, document claims and the journal of   *)
(* uncertain physical writes, for one (deployment, workspace) scope.       *)
(*                                                                         *)
(* Every coordinator method runs one PostgreSQL transaction that first     *)
(* takes the workspace row FOR UPDATE, so a transaction is one atomic step *)
(* of the model.  What happens between two transactions of a process is    *)
(* not atomic: business code, physical writes, cancellation, loss of the   *)
(* witness connection and process death interleave freely.                 *)
(*                                                                         *)
(* A transaction whose response is lost is the committed step followed by  *)
(* Quarantine: the client closes its transports and can use no permit.     *)
(***************************************************************************)
EXTENDS Naturals, FiniteSets

CONSTANTS
    Owners,           \* coordinator instances, one per process (owner_id)
    Ops,              \* operation ids (uuid4), each used at most once
    Tasks,            \* asyncio tasks of a process, as task_id distinguishes them
    Keys,             \* resource keys
    Docs,             \* document ids
    Muts,             \* mutation ids (uuid4), each used at most once
    Manifests,        \* hashes of deployment manifests
    ManifestOf,       \* the manifest each coordinator was configured with
    None,             \* no owner, operation, task, key or manifest
    MaxDepth,         \* bound: nested lock contexts of one task on one key
    MaxGeneration,    \* bound: recoveries
    OperatorVerifies  \* the operator really establishes what recover() asks

ASSUME CoordinatorAssumption ==
    /\ None \notin Owners \cup Ops \cup Tasks \cup Keys \cup Manifests
    /\ ManifestOf \in [Owners -> Manifests]
    /\ MaxDepth \in Nat
    /\ MaxGeneration \in Nat
    /\ OperatorVerifies \in BOOLEAN

VARIABLES
    \* Tables of the lightrag_coordination schema.
    manifest,         \* workspaces.manifest_hash, None before registration
    generation,       \* workspaces.generation
    fenced,           \* workspaces.fenced
    opState,          \* operations.state, "unused" before the INSERT
    opOwner,          \* operations.owner_id (and through it the witness)
    opGeneration,     \* operations.generation
    exclusive,        \* operations.exclusive
    lockOp,           \* resource_locks.operation_id, None when there is no row
    lockTask,         \* resource_locks.task_id
    lockDepth,        \* resource_locks.depth
    claim,            \* document_claims.operation_id, None when there is no row
    mutState,         \* mutations.state, "unused" before the INSERT
    mutOp,            \* mutations.operation_id
    \* The session advisory lock PostgreSQL holds for a witness connection.
    witness,
    \* Client processes.
    status,           \* life of each coordinator object and its process
    open,             \* operations whose "async with operation" body is running
    depth,            \* lock contexts a task of an operation is inside, per key
    mutTask,          \* the task of a mutation context and the resource it
    mutKey,           \* locked for it, None when it needed no lock
    mutPc,            \* progress of the body of each "async with mutation"
    \* The storage behind the physical writes.
    flight,           \* requests sent and neither applied nor lost yet
    applied           \* requests the storage has applied

tickets  == <<opState, opOwner, opGeneration, exclusive>>
locks    == <<lockOp, lockTask, lockDepth>>
journal  == <<mutState, mutOp, mutTask, mutKey>>
storage  == <<flight, applied>>
vars == <<manifest, generation, fenced, tickets, locks, claim, journal, witness,
          status, open, depth, mutPc, storage>>

TypeOK ==
    /\ manifest \in Manifests \cup {None}
    /\ generation \in Nat
    /\ fenced \in BOOLEAN
    /\ opState \in [Ops -> {"unused", "active", "completed", "recovered"}]
    /\ opOwner \in [Ops -> Owners \cup {None}]
    /\ opGeneration \in [Ops -> Nat]
    /\ exclusive \in [Ops -> BOOLEAN]
    /\ lockOp \in [Keys -> Ops \cup {None}]
    /\ lockTask \in [Keys -> Tasks \cup {None}]
    /\ lockDepth \in [Keys -> Nat]
    /\ \A k \in Keys : lockOp[k] = None <=> lockDepth[k] = 0  \* no empty rows
    /\ claim \in [Docs -> Ops \cup {None}]
    /\ mutState \in [Muts -> {"unused", "pending", "ack", "recovered"}]
    /\ mutOp \in [Muts -> Ops \cup {None}]
    /\ mutTask \in [Muts -> Tasks \cup {None}]
    /\ mutKey \in [Muts -> Keys \cup {None}]
    /\ witness \in [Owners -> BOOLEAN]
    /\ status \in [Owners -> {"new", "open", "broken", "dead"}]
    /\ open \in [Ops -> BOOLEAN]
    /\ depth \in [Ops -> [Tasks -> [Keys -> Nat]]]
    /\ mutPc \in [Muts -> {"idle", "published", "sent", "done", "abandoned"}]
    /\ flight \in SUBSET Muts
    /\ applied \in SUBSET Muts

Init ==
    /\ manifest = None
    /\ generation = 1
    /\ fenced = FALSE
    /\ opState = [x \in Ops |-> "unused"]
    /\ opOwner = [x \in Ops |-> None]
    /\ opGeneration = [x \in Ops |-> 0]
    /\ exclusive = [x \in Ops |-> FALSE]
    /\ lockOp = [k \in Keys |-> None]
    /\ lockTask = [k \in Keys |-> None]
    /\ lockDepth = [k \in Keys |-> 0]
    /\ claim = [d \in Docs |-> None]
    /\ mutState = [m \in Muts |-> "unused"]
    /\ mutOp = [m \in Muts |-> None]
    /\ mutTask = [m \in Muts |-> None]
    /\ mutKey = [m \in Muts |-> None]
    /\ witness = [o \in Owners |-> FALSE]
    /\ status = [o \in Owners |-> "new"]
    /\ open = [x \in Ops |-> FALSE]
    /\ depth = [x \in Ops |-> [t \in Tasks |-> [k \in Keys |-> 0]]]
    /\ mutPc = [m \in Muts |-> "idle"]
    /\ flight = {}
    /\ applied = {}

-----------------------------------------------------------------------------
(* Conditions that the transactions test.                                  *)

Active(x) == opState[x] = "active"

\* Mutant: only exclusive tickets are looked at.
OrphanExclusive(x) == Active(x) /\ exclusive[x] /\ ~witness[opOwner[x]]
\* An active operation whose owner no longer holds its advisory lock.
Orphan(x) == Active(x) /\ ~witness[opOwner[x]]

\* _check_scope returns normally.
ScopeOpen == ~fenced /\ \A x \in Ops : ~Orphan(x)

\* Mutant: the orphan query decides alone.
FenceRecomputed == \E x \in Ops : Orphan(x)
\* What a committed _check_scope leaves in workspaces.fenced.
FenceAfterCheck == fenced \/ \E x \in Ops : Orphan(x)

\* _validate up to the fence check: a usable coordinator presents a permit of
\* its own, of the current generation, that is still active.
Permitted(x) ==
    /\ Active(x)
    /\ opGeneration[x] = generation
    /\ status[opOwner[x]] = "open"

Validated(x) == Permitted(x) /\ ScopeOpen

\* Mutant: a shared request ignores an exclusive ticket.
ConflictsOneWay(e) == \E y \in Ops : Active(y) /\ e
\* Another ticket excludes a new one.
Conflicts(e) == \E y \in Ops : Active(y) /\ (e \/ exclusive[y])

\* Mutant: the journal is not consulted.
PendingUnseen(x) == FALSE
Pending(x) == \E m \in Muts : mutOp[m] = x /\ mutState[m] = "pending"
Holding(x) == \E k \in Keys : lockOp[k] = x

\* A task, or a child it still awaits, is inside the body of a mutation context.
InMutation(x, t) ==
    \E m \in Muts : mutOp[m] = x /\ mutTask[m] = t /\ mutPc[m] \in {"published", "sent"}

-----------------------------------------------------------------------------
(* Life of a coordinator object and of its process.                        *)

\* The stored hash is the one this coordinator computed.
ManifestAccepted(o) == manifest' = ManifestOf[o]

\* initialize(): register the scope or compare manifests, take the witness
\* lock, then look for orphans once; a fenced scope stays inspectable.
Initialize(o) ==
    /\ status[o] = "new"
    /\ manifest' = IF manifest = None THEN ManifestOf[o] ELSE manifest
    /\ \/ /\ ManifestAccepted(o)
          /\ status' = [status EXCEPT ![o] = "open"]
          /\ witness' = [witness EXCEPT ![o] = TRUE]
          /\ fenced' = FenceAfterCheck
       \/ \* manifest mismatch, or any failure after the registration
          /\ status' = [status EXCEPT ![o] = "broken"]
          /\ UNCHANGED <<witness, fenced>>
    /\ UNCHANGED <<generation, tickets, locks, claim, journal, open, depth, mutPc,
                   storage>>

\* _quarantine(): a failed or cancelled transaction, a witness seen closed, or
\* close().  The object is unusable for good; its durable rows stay.
Quarantine(o) ==
    /\ status[o] = "open"
    /\ status' = [status EXCEPT ![o] = "broken"]
    /\ UNCHANGED <<manifest, generation, fenced, tickets, locks, claim, journal,
                   witness, open, depth, mutPc, storage>>

\* PostgreSQL drops the advisory lock of a session that ended: some time after
\* the client terminated it or died, or because the connection itself failed.
WitnessLost(o) ==
    /\ witness[o]
    /\ witness' = [witness EXCEPT ![o] = FALSE]
    /\ UNCHANGED <<manifest, generation, fenced, tickets, locks, claim, journal,
                   status, open, depth, mutPc, storage>>

\* The process dies; requests it sent stay in flight.
Crash(o) ==
    /\ status[o] \in {"open", "broken"}
    /\ status' = [status EXCEPT ![o] = "dead"]
    /\ open' = [x \in Ops |-> open[x] /\ opOwner[x] # o]
    /\ mutPc' = [m \in Muts |->
                   IF /\ mutPc[m] \in {"published", "sent"}
                      /\ opOwner[mutOp[m]] = o
                   THEN "abandoned" ELSE mutPc[m]]
    /\ UNCHANGED <<manifest, generation, fenced, tickets, locks, claim, journal,
                   witness, depth, storage>>

\* Any checked transaction that finds an orphan commits the fence and raises
\* (heartbeat, set_phase and assert_claim do nothing else to the control state).
DiscoverOrphan(o) ==
    /\ status[o] = "open"
    /\ ~fenced
    /\ \E x \in Ops : Orphan(x)
    /\ fenced' = TRUE
    /\ UNCHANGED <<manifest, generation, tickets, locks, claim, journal, witness,
                   status, open, depth, mutPc, storage>>

\* Mutant: a fence that cannot be written is given up silently.
MarkUncertainBestEffort(x) ==
    \/ /\ Permitted(x)
       /\ fenced' = TRUE
       /\ UNCHANGED status
    \/ UNCHANGED <<status, fenced>>
\* _mark_uncertain(x): fence the scope; when that cannot be confirmed, or the
\* permit is no longer valid, retire the coordinator instead.
MarkUncertain(x) ==
    \/ /\ Permitted(x)
       /\ fenced' = TRUE
       /\ UNCHANGED status
    \/ /\ status' = [status EXCEPT ![opOwner[x]] =
                        IF @ = "open" THEN "broken" ELSE @]
       /\ UNCHANGED fenced

-----------------------------------------------------------------------------
(* operation(): admission and the two exits of its body.                   *)

Admit(o, x, e) ==
    /\ status[o] = "open"
    /\ ScopeOpen
    /\ opState[x] = "unused"
    /\ ~Conflicts(e)
    /\ opState' = [opState EXCEPT ![x] = "active"]
    /\ opOwner' = [opOwner EXCEPT ![x] = o]
    /\ opGeneration' = [opGeneration EXCEPT ![x] = generation]
    /\ exclusive' = [exclusive EXCEPT ![x] = e]
    /\ open' = [open EXCEPT ![x] = TRUE]
    /\ UNCHANGED <<manifest, generation, fenced, locks, claim, journal, witness,
                   status, depth, mutPc, storage>>

\* Normal exit.  Unfinished children or writes fence the scope and keep the
\* ticket; an invalid permit or a fenced scope keeps the ticket as it is.
Finish(x) ==
    /\ open[x]
    /\ open' = [open EXCEPT ![x] = FALSE]
    /\ IF Validated(x) /\ ~Pending(x) /\ ~Holding(x)
       THEN /\ opState' = [opState EXCEPT ![x] = "completed"]
            /\ claim' = [d \in Docs |-> IF claim[d] = x THEN None ELSE claim[d]]
            /\ UNCHANGED fenced
       ELSE /\ fenced' = (fenced \/ Permitted(x))
            /\ UNCHANGED <<opState, claim>>
    /\ UNCHANGED <<manifest, generation, opOwner, opGeneration, exclusive, locks,
                   journal, witness, status, depth, mutPc, storage>>

\* Exceptional exit, cancellation included.
FailOperation(x) ==
    /\ open[x]
    /\ open' = [open EXCEPT ![x] = FALSE]
    /\ MarkUncertain(x)
    /\ UNCHANGED <<manifest, generation, tickets, locks, claim, journal, witness,
                   depth, mutPc, storage>>

-----------------------------------------------------------------------------
(* lock(): all keys at once, reentrant for the same task only.             *)

\* Mutant: any task of the ticket reenters.
FreeForTicket(x, t, k) == lockOp[k] \in {None, x}
Free(x, t, k) == lockOp[k] = None \/ (lockOp[k] = x /\ lockTask[k] = t)

\* The depth of an acquired row: INSERT 1, ON CONFLICT DO UPDATE depth + 1.
Deeper(n) == n + 1

AcquireLock(x, t, K) ==
    /\ open[x]
    /\ Validated(x)
    /\ K # {}
    /\ \A k \in K : Free(x, t, k)
    /\ \A k \in K : depth[x][t][k] < MaxDepth
    /\ lockOp' = [k \in Keys |-> IF k \in K THEN x ELSE lockOp[k]]
    /\ lockTask' = [k \in Keys |-> IF k \in K THEN t ELSE lockTask[k]]
    /\ lockDepth' = [k \in Keys |-> IF k \in K THEN Deeper(lockDepth[k]) ELSE lockDepth[k]]
    /\ depth' = [depth EXCEPT ![x][t] =
                    [k \in Keys |-> IF k \in K THEN depth[x][t][k] + 1 ELSE depth[x][t][k]]]
    /\ UNCHANGED <<manifest, generation, fenced, tickets, claim, journal, witness,
                   status, open, mutPc, storage>>

\* A task of a live process leaves a context that covers the keys of K.
Leave(x, t, K) ==
    /\ K # {}
    /\ \A k \in K : depth[x][t][k] > 0
    /\ status[opOwner[x]] # "dead"
    /\ depth' = [depth EXCEPT ![x][t] =
                    [k \in Keys |-> IF k \in K THEN depth[x][t][k] - 1 ELSE depth[x][t][k]]]

Emptied(mine) == {k \in mine : lockDepth[k] = 1}

\* Normal exit, the writes of the body awaited: decrement, delete the rows that
\* reach zero.
ReleaseLock(x, t, K) ==
    /\ Leave(x, t, K)
    /\ ~InMutation(x, t)
    /\ IF Validated(x)
       THEN LET mine == {k \in K : lockOp[k] = x /\ lockTask[k] = t}
                last == Emptied(mine)
            IN  /\ lockOp' = [k \in Keys |-> IF k \in last THEN None ELSE lockOp[k]]
                /\ lockTask' = [k \in Keys |-> IF k \in last THEN None ELSE lockTask[k]]
                /\ lockDepth' = [k \in Keys |->
                                   IF k \in mine THEN lockDepth[k] - 1 ELSE lockDepth[k]]
                /\ UNCHANGED fenced
       ELSE /\ fenced' = (fenced \/ Permitted(x))
            /\ UNCHANGED locks
    /\ UNCHANGED <<manifest, generation, tickets, claim, journal, witness, status,
                   open, mutPc, storage>>

\* Exceptional exit: the rows are retained; a sibling may still be writing.
FailLock(x, t, K) ==
    /\ Leave(x, t, K)
    /\ MarkUncertain(x)
    /\ UNCHANGED <<manifest, generation, tickets, locks, claim, journal, witness,
                   open, mutPc, storage>>

-----------------------------------------------------------------------------
(* Document claims.                                                        *)

TryClaimDocument(x, d) ==
    /\ open[x]
    /\ Validated(x)
    /\ claim[d] = None
    /\ claim' = [claim EXCEPT ![d] = x]
    /\ UNCHANGED <<manifest, generation, fenced, tickets, locks, journal, witness,
                   status, open, depth, mutPc, storage>>

ReleaseClaim(x, d) ==
    /\ open[x]
    /\ Validated(x)
    /\ claim[d] = x
    /\ ~Pending(x)
    /\ claim' = [claim EXCEPT ![d] = None]
    /\ UNCHANGED <<manifest, generation, fenced, tickets, locks, journal, witness,
                   status, open, depth, mutPc, storage>>

-----------------------------------------------------------------------------
(* mutation(): the pending row is committed before the physical write.     *)

\* A write of a locked resource, the full read/modify/write running inside
\* lock(), or one that the ticket or a claim alone protects (k = None).
Publish(x, t, k, m) ==
    /\ open[x]
    /\ Validated(x)
    /\ k # None => depth[x][t][k] > 0
    /\ mutState[m] = "unused"
    /\ mutState' = [mutState EXCEPT ![m] = "pending"]
    /\ mutOp' = [mutOp EXCEPT ![m] = x]
    /\ mutTask' = [mutTask EXCEPT ![m] = t]
    /\ mutKey' = [mutKey EXCEPT ![m] = k]
    /\ mutPc' = [mutPc EXCEPT ![m] = "published"]
    /\ UNCHANGED <<manifest, generation, fenced, tickets, locks, claim, witness,
                   status, open, depth, storage>>

\* The physical request: it needs no coordinator, only a live process.
Send(m) ==
    /\ mutPc[m] = "published"
    /\ mutPc' = [mutPc EXCEPT ![m] = "sent"]
    /\ flight' = flight \cup {m}
    /\ UNCHANGED <<manifest, generation, fenced, tickets, locks, claim, journal,
                   witness, status, open, depth, applied>>

\* The storage applies a request, or the request never reaches it.
Apply(m) ==
    /\ m \in flight
    /\ flight' = flight \ {m}
    /\ applied' = applied \cup {m}
    /\ UNCHANGED <<manifest, generation, fenced, tickets, locks, claim, journal,
                   witness, status, open, depth, mutPc>>

Lose(m) ==
    /\ m \in flight
    /\ flight' = flight \ {m}
    /\ UNCHANGED <<manifest, generation, fenced, tickets, locks, claim, journal,
                   witness, status, open, depth, mutPc, applied>>

\* Mutant: a request that was sent counts as done.
ConfirmedWhenSent(m) == m \in flight \cup applied
\* The body returns normally only on a validated response.
Confirmed(m) == m \in applied

\* Normal exit after a validated response: ACK, even in a fenced scope.  When
\* the permit is not valid any more the row is left as it is.
Acknowledge(m) ==
    /\ mutPc[m] = "sent"
    /\ Confirmed(m)
    /\ IF Permitted(mutOp[m])
       THEN /\ mutState' = [mutState EXCEPT ![m] = IF @ = "pending" THEN "ack" ELSE @]
            /\ mutPc' = [mutPc EXCEPT ![m] = "done"]
       ELSE /\ mutPc' = [mutPc EXCEPT ![m] = "abandoned"]
            /\ UNCHANGED mutState
    /\ UNCHANGED <<manifest, generation, fenced, tickets, locks, claim, mutOp,
                   mutTask, mutKey, witness, status, open, depth, storage>>

\* Error, timeout or cancellation, with the request unsent, in flight, applied
\* or lost: the pending row is retained and the scope made unavailable.
FailMutation(m) ==
    /\ mutPc[m] \in {"published", "sent"}
    /\ mutPc' = [mutPc EXCEPT ![m] = "abandoned"]
    /\ MarkUncertain(mutOp[m])
    /\ UNCHANGED <<manifest, generation, tickets, locks, claim, journal, witness,
                   open, depth, storage>>

-----------------------------------------------------------------------------
(* recover(): the operator's audited release of the scope.                 *)

\* What the confirmations writers_stopped and inflight_finished claim.
WritersStopped == \A x \in Ops : Active(x) => status[opOwner[x]] = "dead"
InflightFinished == \A m \in flight : mutState[m] # "pending"

\* Mutant: writes are settled and their tickets forgotten.
SettleWritesOnly ==
    /\ mutState' = [m \in Muts |->
                      IF mutState[m] = "pending" THEN "recovered" ELSE mutState[m]]
    /\ UNCHANGED opState
\* Tickets and pending writes end as recovered, their history is kept.
Settle ==
    /\ mutState' = [m \in Muts |->
                      IF mutState[m] = "pending" THEN "recovered" ELSE mutState[m]]
    /\ opState' = [x \in Ops |-> IF Active(x) THEN "recovered" ELSE opState[x]]

\* Mutant: rows of locks survive the recovery.
DropClaimsOnly ==
    /\ claim' = [d \in Docs |-> None]
    /\ UNCHANGED <<lockOp, lockTask, lockDepth>>
DropOwnership ==
    /\ lockOp' = [k \in Keys |-> None]
    /\ lockTask' = [k \in Keys |-> None]
    /\ lockDepth' = [k \in Keys |-> 0]
    /\ claim' = [d \in Docs |-> None]

Recover ==
    /\ manifest # None
    /\ generation < MaxGeneration
    /\ \A x \in Ops : Active(x) => Orphan(x)
    /\ OperatorVerifies => WritersStopped /\ InflightFinished
    /\ generation' = generation + 1
    /\ fenced' = FALSE
    /\ Settle
    /\ DropOwnership
    /\ UNCHANGED <<manifest, opOwner, opGeneration, exclusive, mutOp, mutTask,
                   mutKey, witness, status, open, depth, mutPc, storage>>

-----------------------------------------------------------------------------
Next ==
    \/ \E o \in Owners : \/ Initialize(o) \/ Quarantine(o) \/ WitnessLost(o)
                         \/ Crash(o) \/ DiscoverOrphan(o)
    \/ \E o \in Owners, x \in Ops, e \in BOOLEAN : Admit(o, x, e)
    \/ \E x \in Ops : Finish(x) \/ FailOperation(x)
    \/ \E x \in Ops, t \in Tasks, K \in SUBSET Keys :
          AcquireLock(x, t, K) \/ ReleaseLock(x, t, K) \/ FailLock(x, t, K)
    \/ \E x \in Ops, d \in Docs : TryClaimDocument(x, d) \/ ReleaseClaim(x, d)
    \/ \E x \in Ops, t \in Tasks, k \in Keys \cup {None}, m \in Muts : Publish(x, t, k, m)
    \/ \E m \in Muts : \/ Send(m) \/ Apply(m) \/ Lose(m) \/ Acknowledge(m)
                       \/ FailMutation(m)
    \/ Recover

Spec == Init /\ [][Next]_vars

\* PostgreSQL ends the session of a connection that was terminated or whose
\* process died, and a coordinator that stays open keeps running checked
\* transactions (every wait polls at poll_interval).
Fairness ==
    /\ \A o \in Owners : WF_vars(status[o] # "open" /\ WitnessLost(o))
    /\ \A o \in Owners : WF_vars(DiscoverOrphan(o))

FairSpec == Spec /\ Fairness

-----------------------------------------------------------------------------
(* Properties.                                                             *)

\* operation(): an exclusive ticket is alone for as long as it is active, also
\* while its owner is gone and nobody has recovered it.
ExclusiveAlone ==
    \A x, y \in Ops : Active(x) /\ exclusive[x] /\ Active(y) => x = y

\* recover(): a ticket of an earlier generation is never active again, and no
\* ticket is admitted under a generation other than the workspace's.
ActiveIsCurrent == \A x \in Ops : Active(x) => opGeneration[x] = generation

\* Lock rows, claims and pending writes are evidence of an active ticket: no
\* completion or recovery leaves one behind that nobody answers for.
EvidenceHasOwner ==
    /\ \A k \in Keys : lockOp[k] # None => Active(lockOp[k])
    /\ \A d \in Docs : claim[d] # None => Active(claim[d])
    /\ \A m \in Muts : mutState[m] = "pending" => Active(mutOp[m])

\* lock(): while a task of an active ticket is inside a context, the row of each
\* key is its own and counts at least the contexts it is inside.
ReentryHolds ==
    \A x \in Ops, t \in Tasks, k \in Keys :
        Active(x) /\ depth[x][t][k] > 0 =>
            /\ lockOp[k] = x
            /\ lockTask[k] = t
            /\ lockDepth[k] >= depth[x][t][k]

\* A write whose body runs, or whose request the storage may still apply.
Writing(m) == mutPc[m] \in {"published", "sent"} \/ m \in flight

\* lock() with mutation(): two writes of one resource are never under way for
\* different holders, through crashes, uncertain exits and recovery (when the
\* operator establishes what recover() asks).
WriteExclusion ==
    \A m, n \in Muts :
        Writing(m) /\ Writing(n) /\ mutKey[m] = mutKey[n] /\ mutKey[m] # None =>
            mutOp[m] = mutOp[n] /\ mutTask[m] = mutTask[n]

\* operation(): a completed ticket promises that the storage applied each write
\* it published.
NoSilentSuccess ==
    \A m \in Muts :
        mutOp[m] # None /\ opState[mutOp[m]] = "completed" =>
            mutState[m] = "ack" /\ m \in applied

\* mutation(), _mark_uncertain(): a write given up while pending has fenced the
\* scope, or its coordinator is unusable and its witness on the way out.
AbandonedIsVisible ==
    \A m \in Muts :
        mutPc[m] = "abandoned" /\ mutState[m] = "pending" =>
            fenced \/ status[opOwner[mutOp[m]]] # "open"

\* initialize(): tickets active together come from coordinators configured with
\* one deployment manifest.
ManifestsAgree ==
    \A x, y \in Ops :
        Active(x) /\ Active(y) => ManifestOf[opOwner[x]] = ManifestOf[opOwner[y]]

\* release_claim(), operation(): a claim leaves a ticket only when every write
\* of the ticket is settled, or by a recovery.
ClaimReleaseSettled ==
    [][\A d \in Docs :
         claim[d] # None /\ claim'[d] # claim[d] =>
             \/ generation' > generation
             \/ ~\E m \in Muts : mutOp[m] = claim[d] /\ mutState[m] = "pending"]_vars

\* _fence(): no exit, restart or late ACK lowers the fence; the recovery that
\* does settles every ticket.
FenceHolds ==
    [][fenced /\ ~fenced' =>
         generation' > generation /\ \A x \in Ops : opState'[x] # "active"]_vars

\* The witness: a ticket left active by its body is sooner or later fenced or
\* recovered, as long as some coordinator stays open.
UnfinishedIsFenced ==
    \A x \in Ops :
        (Active(x) /\ ~open[x]) ~>
            (fenced \/ ~Active(x) \/ \A o \in Owners : status[o] # "open")

-----------------------------------------------------------------------------
(* What else every reachable state satisfies; with the invariants above it *)
(* is inductive.                                                           *)

\* A mutation row is complete, and a body runs only after its row.
Filed(m) ==
    IF mutState[m] = "unused"
    THEN mutOp[m] = None /\ mutPc[m] = "idle"
    ELSE /\ mutOp[m] \in Ops /\ mutTask[m] \in Tasks
         /\ opState[mutOp[m]] # "unused"
         /\ mutPc[m] # "idle"

\* A row exists before anything refers to it.
RowsFirst ==
    /\ \A x \in Ops : opState[x] # "unused" =>
                          opOwner[x] \in Owners /\ status[opOwner[x]] # "new"
    /\ \A x \in Ops : open[x] => opState[x] # "unused"
    /\ \A x \in Ops, t \in Tasks, k \in Keys :
          depth[x][t][k] > 0 => opState[x] # "unused"
    /\ \A m \in Muts : Filed(m)

\* A write's row, its body and the storage tell one story.
Consistent(m) ==
    /\ m \in flight => m \notin applied /\ mutPc[m] \in {"sent", "abandoned"}
    /\ mutPc[m] \in {"idle", "published"} => m \notin applied
    /\ mutPc[m] \in {"published", "sent"} => status[opOwner[mutOp[m]]] # "dead"
    /\ mutPc[m] = "done" => m \in applied
    /\ mutState[m] = "ack" => m \in applied /\ mutPc[m] = "done"
    /\ mutState[m] = "recovered" => opState[mutOp[m]] = "recovered"

WritesConsistent == \A m \in Muts : Consistent(m)

\* A write under way is pending, and its holder has the row of a locked resource.
WritingHolds ==
    \A m \in Muts :
        Writing(m) =>
            /\ mutState[m] = "pending"
            /\ mutKey[m] # None => /\ lockOp[mutKey[m]] = mutOp[m]
                                  /\ lockTask[mutKey[m]] = mutTask[m]

\* initialize() decides it: whoever may work agrees with the registered manifest.
RegisteredAgrees ==
    /\ \A o \in Owners : status[o] = "open" => manifest = ManifestOf[o]
    /\ \A x \in Ops :
          opState[x] # "unused" => opOwner[x] \in Owners /\ manifest = ManifestOf[opOwner[x]]

TicketInv ==
    TypeOK /\ RowsFirst /\ ExclusiveAlone /\ ActiveIsCurrent /\ EvidenceHasOwner
    /\ ReentryHolds /\ WritesConsistent /\ NoSilentSuccess /\ AbandonedIsVisible

\* Only this part rests on what the operator establishes before recover().
IInv == TicketInv /\ (OperatorVerifies => WritingHolds)
=============================================================================
