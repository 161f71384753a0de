------------------------------ MODULE KeyedLocks ------------------------------
(***************************************************************************)
(* The keyed locks of local mode (kg/shared_storage.py): a task locks a    *)
(* list of keys with one KeyedUnifiedLock.  With one worker process a key  *)
(* is an asyncio.Lock that tasks share while any of them refers to it.     *)
(* With several it is only the gate before a lease, a record in a table    *)
(* of the Manager server, which other processes may take over when the     *)
(* process it names is dead.                                               *)
(*                                                                         *)
(* Processes are incarnations: a pid may be used again.  A request to the  *)
(* server blocks the event loop of its process, and is served to its end   *)
(* although the process is killed meanwhile.                               *)
(***************************************************************************)
EXTENDS Naturals, FiniteSets

CONSTANTS
    Procs,        \* incarnations of processes, workers and others of the host
    PidOf,        \* os.getpid()
    Tasks,        \* coroutines that lock
    ProcOf,       \* the process of a task
    Keys,         \* combined keys of a namespace, as numbers in their sort order
    Uses,         \* how often a key is in the list a task locks
    MaxEnters,    \* bound: how often a task locks its list
    None          \* no task, key or process

ASSUME LocksAssumption ==
    /\ IsFiniteSet(Tasks)
    /\ ProcOf \in [Tasks -> Procs]
    /\ Keys \subseteq Nat
    /\ Uses \in [Tasks -> [Keys -> Nat]]
    /\ MaxEnters \in Nat
    /\ None \notin Procs \cup Tasks \cup Keys

VARIABLES
    multi,       \* _is_multiprocess
    proc,        \* new, up or dead
    pc,          \* where a task is
    cur,         \* key of the entry that is not entered yet
    held,        \* keys of the entries that are
    enters,      \* how often the task has locked its list
    \* KeyedUnifiedLock of a process.
    registry,    \* _async_lock: an asyncio.Lock, named by the task that created it
    refs,        \* _async_lock_count
    gate,        \* the lock a task has got for a key
    locked,      \* which task holds an asyncio.Lock
    \* KeyedHolderTable of the server.
    holders,     \* _holders
    call         \* try_acquire() under way for a process

locals == <<cur, held, enters>>
gates == <<registry, refs, gate, locked>>
vars == <<multi, proc, pc, locals, gates, holders, call>>

Leases == Tasks \X Nat
\* start_delta names the process that had the pid when the server looked.
Records == [pid : {PidOf[p] : p \in Procs}, lease : Leases, start : Procs \cup {None}]
Free == [pid |-> None]
Idle == [stage |-> "none"]
Calls ==
    [stage : {"look", "probe", "set"}, task : Tasks, key : Keys, lease : Leases,
     snap : Records \cup {Free}, start : Procs \cup {None}]

TypeOK ==
    /\ multi \in BOOLEAN
    /\ proc \in [Procs -> {"new", "up", "dead"}]
    /\ pc \in [Tasks -> {"idle", "get", "gate", "call", "backoff", "inside", "leave", "dead"}]
    /\ cur \in [Tasks -> Keys \cup {None}]
    /\ held \in [Tasks -> SUBSET Keys]
    /\ enters \in [Tasks -> Nat]
    /\ registry \in [Procs -> [Keys -> Tasks \cup {None}]]
    /\ refs \in [Procs -> [Keys -> Nat]]
    /\ gate \in [Tasks -> [Keys -> Tasks \cup {None}]]
    /\ locked \in [Tasks -> [Keys -> Tasks \cup {None}]]
    /\ holders \in [Keys -> Records \cup {Free}]
    /\ call \in [Procs -> Calls \cup {Idle}]

Init ==
    /\ multi \in BOOLEAN
    /\ proc = [p \in Procs |-> "new"]
    /\ pc = [t \in Tasks |-> "idle"]
    /\ cur = [t \in Tasks |-> None]
    /\ held = [t \in Tasks |-> {}]
    /\ enters = [t \in Tasks |-> 0]
    /\ registry = [p \in Procs |-> [k \in Keys |-> None]]
    /\ refs = [p \in Procs |-> [k \in Keys |-> 0]]
    /\ gate = [t \in Tasks |-> [k \in Keys |-> None]]
    /\ locked = [t \in Tasks |-> [k \in Keys |-> None]]
    /\ holders = [k \in Keys |-> Free]
    /\ call = [p \in Procs |-> Idle]

-----------------------------------------------------------------------------
(* Processes.                                                              *)

\* A pid is given to one process at a time.
Start(p) ==
    /\ proc[p] = "new"
    /\ \A q \in Procs : proc[q] = "up" => PidOf[q] # PidOf[p]
    /\ multi \/ \A q \in Procs : proc[q] = "new"
    /\ proc' = [proc EXCEPT ![p] = "up"]
    /\ UNCHANGED <<multi, pc, locals, gates, holders, call>>

Kill(p) ==
    /\ proc[p] = "up"
    /\ proc' = [proc EXCEPT ![p] = "dead"]
    /\ pc' = [t \in Tasks |-> IF ProcOf[t] = p THEN "dead" ELSE pc[t]]
    /\ UNCHANGED <<multi, locals, gates, holders, call>>

Live(t) == proc[ProcOf[t]] = "up"
\* A task moves while its process lives, waits for no answer of the server, and no
\* other task of it is going from one key to the next, which awaits nothing.
Awake(t) ==
    /\ Live(t)
    /\ call[ProcOf[t]] = Idle
    /\ \A u \in Tasks \ {t} : ProcOf[u] = ProcOf[t] => pc[u] # "get"

-----------------------------------------------------------------------------
(* __aenter__().                                                           *)

Remaining(t) == {k \in Keys : Uses[t][k] > (IF k \in held[t] THEN 1 ELSE 0)}
\* Mutant of NextKey: the list is not sorted.
NextUnsorted(t, k) == k \in Remaining(t)
\* sorted(keys).
NextKey(t, k) == k \in Remaining(t) /\ \A l \in Remaining(t) : k <= l

Enter(t) ==
    /\ Awake(t)
    /\ pc[t] = "idle"
    /\ enters[t] < MaxEnters
    /\ enters' = [enters EXCEPT ![t] = @ + 1]
    /\ pc' = [pc EXCEPT ![t] = "get"]
    /\ UNCHANGED <<multi, proc, cur, held, gates, holders, call>>

\* _get_or_create_async_lock(): a reference to the lock of a key.
Get(t) == \E k \in Keys :
    LET p == ProcOf[t]
        lock == IF registry[p][k] = None THEN t ELSE registry[p][k]
    IN  /\ Awake(t)
        /\ pc[t] = "get"
        /\ NextKey(t, k)
        /\ registry' = [registry EXCEPT ![p][k] = lock]
        /\ refs' = [refs EXCEPT ![p][k] = @ + 1]
        /\ gate' = [gate EXCEPT ![t][k] = lock]
        /\ cur' = [cur EXCEPT ![t] = k]
        /\ pc' = [pc EXCEPT ![t] = "gate"]
        /\ UNCHANGED <<multi, proc, held, enters, locked, holders, call>>

Inside(t) ==
    /\ Awake(t)
    /\ pc[t] = "get"
    /\ Remaining(t) = {}
    /\ pc' = [pc EXCEPT ![t] = "inside"]
    /\ UNCHANGED <<multi, proc, locals, gates, holders, call>>

Lease(t) == <<t, enters[t]>>
\* acquire() of _KeyedLeaseLock: one request.
Request(t) ==
    /\ call' = [call EXCEPT ![ProcOf[t]] =
                   [stage |-> "look", task |-> t, key |-> cur[t], lease |-> Lease(t),
                    snap |-> Free, start |-> None]]
    /\ pc' = [pc EXCEPT ![t] = "call"]

\* The entry of the key has been entered.
Entered(t) ==
    /\ held' = [held EXCEPT ![t] = @ \cup {cur[t]}]
    /\ cur' = [cur EXCEPT ![t] = None]
    /\ pc' = [pc EXCEPT ![t] = "get"]

\* UnifiedLock: the lock of the process, and then the lease if there are more.
Pass(t) ==
    LET k == cur[t] IN
    /\ Awake(t)
    /\ pc[t] = "gate"
    /\ locked[gate[t][k]][k] = None
    /\ locked' = [locked EXCEPT ![gate[t][k]][k] = t]
    /\ IF multi
       THEN Request(t) /\ UNCHANGED <<cur, held>>
       ELSE Entered(t) /\ UNCHANGED call
    /\ UNCHANGED <<multi, proc, enters, registry, refs, gate, holders>>

Retry(t) ==
    /\ Awake(t)
    /\ pc[t] = "backoff"
    /\ Request(t)
    /\ UNCHANGED <<multi, proc, locals, gates, holders>>

\* A task is cancelled where it waits; __aenter__() of the lock gives the gate back.
Cancel(t) ==
    /\ Awake(t)
    /\ pc[t] \in {"gate", "backoff"}
    /\ pc' = [pc EXCEPT ![t] = "leave"]
    /\ locked' = IF pc[t] = "backoff" THEN [locked EXCEPT ![gate[t][cur[t]]][cur[t]] = None]
                                      ELSE locked
    /\ UNCHANGED <<multi, proc, locals, registry, refs, gate, holders, call>>

-----------------------------------------------------------------------------
(* try_acquire(), in the server.                                           *)

\* The process that has a pid now: _pid_alive(), _start_delta().
WhoHas(pid) ==
    IF \E q \in Procs : proc[q] = "up" /\ PidOf[q] = pid
    THEN CHOOSE q \in Procs : proc[q] = "up" /\ PidOf[q] = pid
    ELSE None

\* Mutant of HolderDead: a pid that is in use is alive.
PidDead(rec) == WhoHas(rec.pid) = None
\* _holder_dead(): the pid is gone, or another process has it.  A record without
\* a start counts as alive as long as any process has its pid.
HolderDead(rec) ==
    LET q == WhoHas(rec.pid) IN q = None \/ (rec.start # None /\ q # rec.start)

Step(p, c) == call' = [call EXCEPT ![p] = c]

\* The answer reaches the task if it still exists.
Refuse(p) ==
    LET t == call[p].task IN
    /\ Step(p, Idle)
    /\ pc' = IF Live(t) THEN [pc EXCEPT ![t] = "backoff"] ELSE pc
    /\ UNCHANGED <<multi, proc, locals, gates, holders>>

Look(p) ==
    LET c == call[p] IN
    /\ c.stage = "look"
    /\ Step(p, [c EXCEPT !.stage = "probe", !.snap = holders[c.key]])
    /\ UNCHANGED <<multi, proc, pc, locals, gates, holders>>

\* Outside the lock of the table: the record is probed, and if the key may be had,
\* the start of the requesting process is looked up by its pid.
Probe(p) ==
    LET c == call[p] IN
    /\ c.stage = "probe"
    /\ IF c.snap = Free \/ HolderDead(c.snap)
       THEN /\ Step(p, [c EXCEPT !.stage = "set", !.start = WhoHas(PidOf[p])])
            /\ UNCHANGED <<multi, proc, pc, locals, gates, holders>>
       ELSE Refuse(p)

\* Mutant of Unchanged: the slot is not looked at again.
NotAgain(now, before) == TRUE
\* The slot is still empty, or still has the record that was found dead.
Unchanged(now, before) ==
    \/ now = Free /\ before = Free
    \/ now # Free /\ before # Free /\ now.lease = before.lease

Set(p) ==
    LET c == call[p]
        t == c.task
    IN  /\ c.stage = "set"
        /\ IF Unchanged(holders[c.key], c.snap)
           THEN /\ holders' = [holders EXCEPT ![c.key] =
                                  [pid |-> PidOf[p], lease |-> c.lease, start |-> c.start]]
                /\ Step(p, Idle)
                /\ IF Live(t) THEN Entered(t) ELSE UNCHANGED <<pc, cur, held>>
                /\ UNCHANGED <<multi, proc, enters, gates>>
           ELSE Refuse(p)

-----------------------------------------------------------------------------
(* __aexit__(), and the rollback of an __aenter__() that was cancelled.     *)

\* The body has ended; cancelling the exit does not stop it.
Leave(t) ==
    /\ Awake(t)
    /\ pc[t] = "inside"
    /\ pc' = [pc EXCEPT ![t] = "leave"]
    /\ UNCHANGED <<multi, proc, locals, gates, holders, call>>

\* Mutant of Drop: whoever releases removes the lock.
DropAlways(p, k) ==
    /\ refs' = [refs EXCEPT ![p][k] = 0]
    /\ registry' = [registry EXCEPT ![p][k] = None]
\* _release_async_lock(): the last reference removes the lock.
Drop(p, k) ==
    /\ refs' = [refs EXCEPT ![p][k] = @ - 1]
    /\ registry' = IF refs[p][k] = 1 THEN [registry EXCEPT ![p][k] = None] ELSE registry

\* An entry that was not entered only has its reference.
Abandon(t) ==
    LET k == cur[t] IN
    /\ Awake(t)
    /\ pc[t] = "leave"
    /\ k # None
    /\ Drop(ProcOf[t], k)
    /\ gate' = IF k \in held[t] THEN gate ELSE [gate EXCEPT ![t][k] = None]
    /\ cur' = [cur EXCEPT ![t] = None]
    /\ UNCHANGED <<multi, proc, pc, held, enters, locked, holders, call>>

\* Mutant of Returned: a lease is returned by an exit only, not by a rollback.
ReturnedByExit(t, k) == IF Remaining(t) = {} THEN Free ELSE holders[k]
\* release() of the server: only the lease that is named.
Returned(t, k) ==
    IF holders[k] # Free /\ holders[k].lease = Lease(t) THEN Free ELSE holders[k]

\* The others in reverse order: the lease, the gate, the reference.
Release(t) == \E k \in held[t] :
    /\ Awake(t)
    /\ pc[t] = "leave"
    /\ cur[t] = None
    /\ \A l \in held[t] : l <= k
    /\ holders' = IF multi THEN [holders EXCEPT ![k] = Returned(t, k)] ELSE holders
    /\ locked' = [locked EXCEPT ![gate[t][k]][k] = None]
    /\ Drop(ProcOf[t], k)
    /\ gate' = [gate EXCEPT ![t][k] = None]
    /\ held' = [held EXCEPT ![t] = @ \ {k}]
    /\ UNCHANGED <<multi, proc, pc, cur, enters, call>>

Done(t) ==
    /\ Awake(t)
    /\ pc[t] = "leave"
    /\ cur[t] = None
    /\ held[t] = {}
    /\ pc' = [pc EXCEPT ![t] = "idle"]
    /\ UNCHANGED <<multi, proc, locals, gates, holders, call>>

-----------------------------------------------------------------------------
TaskStep(t) ==
    \/ Get(t) \/ Inside(t) \/ Pass(t) \/ Retry(t) \/ Leave(t)
    \/ Abandon(t) \/ Release(t) \/ Done(t)
ServerStep(p) == Look(p) \/ Probe(p) \/ Set(p)

Next ==
    \/ \E p \in Procs : Start(p) \/ Kill(p) \/ ServerStep(p)
    \/ \E t \in Tasks : Enter(t) \/ Cancel(t) \/ TaskStep(t)

Spec == Init /\ [][Next]_vars

\* The event loops and the server go on, no task is kept from running by others
\* that poll, and no body runs for ever.  Nobody has to start a process, to lock or
\* to cancel.
Fairness ==
    /\ \A t \in Tasks : SF_vars(TaskStep(t))
    /\ \A p \in Procs : WF_vars(ServerStep(p))

FairSpec == Spec /\ Fairness

-----------------------------------------------------------------------------
(* Properties.                                                             *)

Holds(t, k) == Live(t) /\ k \in held[t]

\* Two tasks never hold one key, of whichever processes they are, although
\* holders are killed, cancelled and replaced, and pids are used again.
MutualExclusion ==
    \A t, u \in Tasks, k \in Keys : Holds(t, k) /\ Holds(u, k) => t = u

\* The lease of a living process belongs to a task that holds the key and will
\* return it: no cancellation, rollback or lost race leaves one behind.
NoLeak ==
    \A k \in Keys : holders[k] # Free =>
        LET t == holders[k].lease[1] IN
        Live(t) => k \in held[t] /\ holders[k].lease = Lease(t)

\* Tasks of a process that refer to a key have one and the same lock, and an entry
\* exists exactly as long as there are references.
References(p, k) ==
    {<<t, "entered">> : t \in {t \in Tasks : ProcOf[t] = p /\ k \in held[t]}}
    \cup {<<t, "waiting">> : t \in {t \in Tasks : ProcOf[t] = p /\ cur[t] = k}}
OneGate ==
    \A p \in Procs, k \in Keys : proc[p] = "up" =>
        /\ refs[p][k] = Cardinality(References(p, k))
        /\ refs[p][k] = 0 <=> registry[p][k] = None
        /\ \A t \in Tasks : ProcOf[t] = p /\ (k \in held[t] \/ cur[t] = k)
               => gate[t][k] = registry[p][k]

\* A request was granted to a process that had been killed, and when the server
\* looked, its pid was gone or in use again: its record counts as alive for as
\* long as any process has the pid.
Stranded(k) ==
    /\ holders[k] # Free
    /\ ~Live(holders[k].lease[1])
    /\ holders[k].start # ProcOf[holders[k].lease[1]]

\* Whoever locks gets the locks, is cancelled or dies: holders that are killed do
\* not stand in the way, and lists that overlap do not deadlock.
Served ==
    \A t \in Tasks :
        pc[t] \in {"get", "gate", "call", "backoff"} ~>
            pc[t] \in {"inside", "leave", "dead"} \/ \E k \in Keys : Stranded(k)

-----------------------------------------------------------------------------
(* The promise of module SortedLocks.                                      *)

OwnerOf(k) ==
    IF \E t \in Tasks : Holds(t, k) THEN CHOOSE t \in Tasks : Holds(t, k) ELSE None

Promise == INSTANCE SortedLocks WITH
    Clients <- Tasks, Hosts <- Procs, HostOf <- ProcOf, Nobody <- None,
    owner <- [k \in Keys |-> OwnerOf(k)],
    leaving <- {t \in Tasks : pc[t] = "leave"},
    gone <- {p \in Procs : proc[p] = "dead"}

\* Through kills, cancellations, lost races and takeovers the locks are the sorted,
\* two-phase locks of that module.
LocksInOrder == Promise!Spec

-----------------------------------------------------------------------------
(* The inductive invariant.                                                *)

\* Only a started process has tasks that do anything; between two keys a task
\* refers to none but those it has entered.
TasksFit ==
    \A t \in Tasks :
        /\ pc[t] = "dead" <=> proc[ProcOf[t]] = "dead"
        /\ proc[ProcOf[t]] = "new" => pc[t] = "idle"
        /\ pc[t] = "idle" => held[t] = {}
        /\ pc[t] \in {"gate", "call", "backoff"} => cur[t] # None
        /\ cur[t] # None => pc[t] \in {"gate", "call", "backoff", "leave", "dead"}

PidsApart ==
    \A p, q \in Procs :
        proc[p] = "up" /\ proc[q] = "up" /\ PidOf[p] = PidOf[q] => p = q

\* Without the Manager server there is one process, and neither requests nor leases.
Alone ==
    ~multi =>
        /\ \A p, q \in Procs : proc[p] # "new" /\ proc[q] # "new" => p = q
        /\ \A p \in Procs : call[p] = Idle
        /\ \A t \in Tasks : pc[t] \notin {"call", "backoff"}
        /\ \A k \in Keys : holders[k] = Free

\* A record of a task that lives names its process: it is not found dead.
Named(rec) ==
    LET t == rec.lease[1] IN
    /\ proc[ProcOf[t]] # "new"
    /\ Live(t) => rec.pid = PidOf[ProcOf[t]] /\ rec.start = ProcOf[t]

RecordsNamed == \A k \in Keys : holders[k] # Free => Named(holders[k])

\* A request is about what its task is waiting for, and once it may be granted,
\* the record it replaces has been found dead.
CallsFit ==
    \A p \in Procs : call[p] # Idle =>
        LET c == call[p] IN
        /\ ProcOf[c.task] = p /\ proc[p] # "new"
        /\ c.lease[1] = c.task
        /\ proc[p] = "up" =>
               pc[c.task] = "call" /\ cur[c.task] = c.key /\ c.lease = Lease(c.task)
        /\ c.snap # Free => Named(c.snap)
        /\ c.stage = "set" =>
               /\ proc[p] = "up" => c.start = p
               /\ c.snap # Free => ~Live(c.snap.lease[1])

\* Whoever has a key has its lease.
LeasesHeld ==
    multi => \A t \in Tasks, k \in Keys : Holds(t, k) =>
        holders[k] # Free /\ holders[k].lease = Lease(t)

\* Whoever has a key, or asks for its lease, has the lock of the process.
Gated(t, k) == k \in held[t] \/ (cur[t] = k /\ pc[t] \in {"call", "backoff"})
GatesHeld ==
    \A t \in Tasks :
        /\ \A k \in Keys : Gated(t, k) => locked[gate[t][k]][k] = t
        /\ pc[t] \in {"call", "backoff"} => cur[t] \notin held[t]

\* OneGate, of processes that have not started or are dead as well.
GatesCounted ==
    \A p \in Procs, k \in Keys :
        /\ refs[p][k] = Cardinality(References(p, k))
        /\ refs[p][k] = 0 <=> registry[p][k] = None
        /\ \A t \in Tasks : ProcOf[t] = p /\ (k \in held[t] \/ cur[t] = k)
               => gate[t][k] = registry[p][k]

\* A task that still collects keys waits for the least that is missing, and none that
\* is missing is less than one it has.
ListsSorted ==
    \A t \in Tasks :
        /\ pc[t] \in {"gate", "call", "backoff"} => NextKey(t, cur[t])
        /\ pc[t] \notin {"leave", "dead"} => \A k \in held[t], l \in Remaining(t) : k <= l

IInv ==
    /\ TypeOK /\ TasksFit /\ PidsApart /\ Alone /\ RecordsNamed /\ CallsFit
    /\ LeasesHeld /\ NoLeak /\ GatesHeld /\ GatesCounted /\ ListsSorted
=============================================================================
