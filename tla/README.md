# LightRAG's distributed runtime, specified and verified

LightRAG builds a knowledge graph and vector indexes from documents with the help of a
language model and answers queries from them.  Most of its lines of Python are
storage drivers, parsers, model bindings and prompt logic.  The part whose correctness
depends on the *order* in which things happen is much smaller: the PostgreSQL
coordination of a workspace shared by several processes (`lightrag/distributed`), the
hand-over of a workspace from one release to the next (`lightrag/distributed/release`)
and the shared memory of one host's worker processes (`lightrag/kg/shared_storage.py`).
This development specifies that part.  Paths below are relative to `src/`.

## 1. Inventory

### 1.1 The parts, their state and how they interact

| Part | State it keeps | Operations | Uses / is used by |
|---|---|---|---|
| Coordinator (`distributed/coordinator.py`) | tables `workspaces`, `operations`, `resource_locks`, `document_claims`, `mutations`, `recovery_audit`; one session advisory lock ("witness") per process | `initialize`, `close`, `operation`, `lock`, `try_claim_document`, `release_claim`, `set_phase`, `heartbeat`, `mutation`, `recover` | called by every business write of a distributed deployment |
| Runtime wrappers (`distributed/runtime.py`) | permit of the current asyncio context | `operation`, `lock`, `storage_write`, `physical_write` | wraps each storage backend; calls the coordinator |
| Pipeline control (`distributed/control.py`) | tables `pipeline_control`, `pipeline_requests`, `pipeline_retry_targets` | `pause`, `resume`, `request_retry`, selection, targets, completion, `cancel_requests` | HTTP routes, pipeline; runs in the coordinator's transactions |
| Distributed pipeline (`distributed/pipeline.py`) | per-process lock, observed cancellation epoch, claimed batch | `reset_requests`, `process`, polling | reads and writes the document status store; coordinator tickets and claims |
| Release handover (`distributed/release/store.py`, `migrations/001_release.sql`) | release scope, writer epoch, admission tickets, commands, instances | `begin`, `transition`, `transfer`, `rollback`, `abort`, `finish` | gates every write entry point; driven by the orchestrator |
| Release runtime and transport (`release/runtime.py`, `transport.py`, `executor.py`, `lifecycle.py`) | cached admission, drain progress of one instance | command consumption, drain, `close_instance` | polls the release tables |
| Release orchestrator (`release/orchestrator.py`) | step of a cutover | the state machine of a cutover | calls the release store |
| Shared storage (`kg/shared_storage.py`) | `multiprocessing` locks keyed by namespace, reference counts, shared dictionaries | keyed locks, `pipeline_status` reservations | every local-mode storage |
| Pipeline (local) (`pipeline.py`, `kg/pipeline_ingress.py`) | busy flag, cancellation flag, ingress mailbox | enqueue, batch loop, cancel, retry | shared storage, doc status |
| File-backed stores (`kg/json_*`, `networkx_impl.py`, `nano_vector_db_impl.py`, `faiss_impl.py`, `file_fingerprint.py`) | in-memory index, file, "updated" flags | load, upsert, `index_done_callback` | shared storage flags |
| Remote stores (postgres, opensearch, mongo, milvus, redis, neo4j, qdrant, memgraph, hugegraph, pgtable) | the business data | reads, upserts, deletes | runtime wrappers |
| Extraction and query (`operate.py`, `utils_graph.py`, `rerank.py`, `prompt*.py`, `llm/`) | none across calls but caches | model calls, merge, retrieval | pipeline, routers |
| Parsers, chunkers, sidecar | none across calls | text and layout conversion | pipeline |
| API server, routers, auth | sessions, rate limiter, background jobs | HTTP handlers | everything above |
| Object storage, upload sessions | multipart sessions and their parts | create, put, complete, abort | routers |
| Provisioning, delivery, setup scripts, web UI, tools | files and cluster objects | one-shot jobs | operators |

All the coordination runs through one mechanism: **a transaction that begins with the
workspace row `FOR UPDATE`** (`coordinator.py:296-338`).  Two transactions of a workspace
are therefore never interleaved; everything *between* two transactions of a process is.

### 1.2 What is hard in it

* an asyncio task can be cancelled, and a process killed, between any two transactions;
* the PostgreSQL session that witnesses a process outlives it, or dies before it;
* the response of a commit can be lost: the client then does not know what it owns;
* a remote write that timed out may still be applied later;
* sibling tasks share the permit of their parent operation;
* an audited recovery is a statement by an operator, who may be wrong;
* a manual retry is selected in pages, reset one document at a time and acknowledged
  separately, while the same documents fail again;
* pause and an immediate resume must still stop the batch that was running;
* a release is driven by a process that may stop between any two of its calls, over a route
  whose PATCH may be applied after the next runner has read it;
* a worker process dies while it holds keys, leases, reservations and wake-ups, and its pid
  is given to another process;
* a run decides that nothing is left while others are publishing more.

`PROJECT.json` lists each at the line where it bites, with the properties that cover it.

### 1.3 What makes each part correct

* *Coordinator*: exclusive tickets are alone; evidence of unfinished work (locks, claims,
  pending writes) always belongs to a ticket that is still active; a completed ticket means
  the storage applied its writes; two writers never write one resource together; an owner's
  disappearance fences the workspace and nothing but an audited recovery lowers the fence.
* *Pipeline control*: a retry request resets each failure it selected at most once and no
  failure that is newer than the request; a completed request has left none of the failures
  it promised to retry; a paused workspace starts no document; a document is processed by
  one batch at a time and never while a reset is running.
* *Release handover*: one writing side per epoch; no write of a side that was drained is
  still under way; an accepted command has one known outcome or stops everything; a release
  is all or nothing, and its end leaves a workspace that the entry reaches and someone may
  write.
* *Keyed locks*: a key is held by one task over all worker processes, dead holders stand in
  nobody's way, and a reference count reaches zero exactly when nobody holds or waits.
* *Local pipeline*: of the jobs that write the document status only those run side by side
  that may; what was enqueued is processed and what was asked for is served; the freeze of a
  manual retry ends.

## 2. Plan and modules

| | Module | Subject | State |
|---|---|---|---|
| 1 | `Coordinator`, `CoordinatorProofs` | tickets, locks, claims, write journal, fence and recovery | modelled, checked, proved |
| 2 | `PipelineControl`, `PipelineControlProofs` | pause and resume, manual retry, claimed batches, clear | modelled, checked, proved |
| 3 | `RetryOnce` | what a manual retry promises; `PipelineControl` implements it | checked and proved |
| 4 | `ReleaseHandover`, `ReleaseHandoverProofs` | the release tables, and what an instance does around them | modelled, checked, proved |
| 5 | `WritingSide` | what a hand-over promises to the business stores; `ReleaseHandover` implements it | checked and proved |
| 6 | `ReleaseOrchestrator`, `ReleaseOrchestratorProofs` | composes 4 with the runner of a release and the entry route | modelled, checked, proved |
| 7 | `KeyedLocks`, `KeyedLocksProofs` | the keyed locks of local mode, with leases over processes | modelled, checked, proved |
| 8 | `SortedLocks` | what the keyed locks promise to those who lock lists; `KeyedLocks` implements it | checked and proved |
| 9 | `LocalPipeline`, `LocalPipelineProofs`, `LocalWorkProofs` | reservations of the pipeline status, ingress mailbox and runs of local mode | modelled, checked, proved |
| 10 | file-backed stores; upload sessions; call limiter; scan job leases; purge journal | one module each | open |

Each module `M` has a module `MCM` that gives its constants values, and one `.cfg` per run.
Three of the modules are abstract specifications without code of their own: `WritingSide`,
`SortedLocks` and `RetryOnce`.  A worthwhile one that is not written yet is the queue that the
mailbox of local mode offers to those who publish.

## 3. The module `Coordinator`

### 3.1 Correspondence

| Model | Code |
|---|---|
| `manifest`, `generation`, `fenced` | row of `workspaces` |
| `opState`, `opOwner`, `opGeneration`, `exclusive` | rows of `operations`; "unused" is the absence of a row |
| `lockOp`, `lockTask`, `lockDepth` | rows of `resource_locks` |
| `claim` | rows of `document_claims` |
| `mutState`, `mutOp` | rows of `mutations` |
| `witness` | the session advisory lock that PostgreSQL holds for the witness connection |
| `status` | life of the coordinator object (`_closed`, the quarantine) and of its process |
| `open`, `depth`, `mutPc`, `mutTask`, `mutKey` | the bodies of `async with operation / lock / mutation` that are running |
| `flight`, `applied` | requests to the business stores |

Every coordinator method is one transaction on the locked workspace row and so one action:
`Initialize`, `Admit`, `Finish`, `FailOperation`, `AcquireLock`, `ReleaseLock`, `FailLock`,
`TryClaimDocument`, `ReleaseClaim`, `Publish`, `Acknowledge`, `FailMutation`,
`DiscoverOrphan` (what `heartbeat`, `set_phase` and `assert_claim` do when they meet one)
and `Recover`.  `Send`, `Apply`, `Lose`, `Crash`, `Quarantine` and `WitnessLost` are what
happens outside transactions.  A commit whose response is lost is the committed action
followed by `Quarantine`: the client closes its transports and may use no permit again.

`recover()` cannot check what it asks of the operator (`writers_stopped`,
`inflight_finished`).  `OperatorVerifies` says whether the confirmations are true; with
FALSE the operator may confirm anything.

### 3.2 Runs

| Run | Instance | Question |
|---|---|---|
| `coordinator_writers` | 2 processes configured alike, 2 tickets, 2 writes of one resource, one recovery, `OperatorVerifies = TRUE` | does a request applied late overlap another holder's write? does "completed" mean applied? is an exclusive ticket alone? also the inductive invariant |
| `coordinator_tasks` | 2 processes, 1 ticket, 2 tasks, one key, document and write, depth 2, one recovery, `OperatorVerifies = FALSE`, `FairSpec` | siblings under one permit, reentry by the exact task, evidence and its owner, claims of unsettled writes, a careless operator; does a process discover what its peer left unfinished? |

What survives a careless operator is the point of the second run: the ownership of all
evidence, depths that cover every context their task is inside, and the visibility of abandoned writes hold although the operator
establishes nothing of what `recover()` asks; only the exclusion of the *physical* writes
(`WriteExclusion`) needs the confirmations to be true.  The first generation is 1, so
`MaxGeneration = 2` is one recovery.  Exclusive tickets under a careless operator, two keys
per ticket, a third generation and processes with different manifests (`OneConfiguration`)
are covered by the theorems only.

## 4. The module `PipelineControl`

### 4.1 Correspondence

| Model | Code |
|---|---|
| `paused`, `epoch` | `pipeline_control.paused`, `cancel_epoch` |
| `reqState`, `created`, `cutoff` | rows of `pipeline_requests`; "retired" is the state `completed` reached through `cancel_requests` |
| `target`, `done` | rows of `pipeline_retry_targets` |
| `docState`, `version` | status and `updated_at` of the document status store |
| `ticket`, `claim`, `fenced` | what this part sees of the coordinator's tables |
| `pc`, `request`, `scanned`, `doc` | progress of `process()` and `reset_requests()` |
| `observed`, `cancelling` | `pipeline_cancel_epoch` and `cancellation_requested` in the pipeline status |
| `page`, `todo`, `active` | scheduling page, hydrated documents, documents a worker has started |
| `wanted`, `overtaken`, `attempts` | history that only the properties read |

| Actions | Code |
|---|---|
| `Pause`, `RequestRetry`, `CancelRequests` | `control.py`, called by the routes |
| `ExplicitCall`, `Poll`, `ReadControl` | entry of `process()`, the polling task, `status()` |
| `AdmitReset`, `NextRequest`, `SelectTarget`, `FinishSelection`, `NextTarget`, `ResetTarget`, `FinishTarget` | `reset_requests()` |
| `AdmitBatch`, `FetchPage`, `ClaimOne`, `Hydrate`, `ReleaseClaim`, `EndBatch` | the loop of `process()` |
| `StartDocument`, `CancelDocument`, `AdvanceDocument`, `EndDocument` | the batch workers of `pipeline.py` |
| `AdmitClear`, `DropStores`, `DeleteDocument`, `SubmitDocument` | the document routes |
| `GiveUpAdmission`, `Fail`, `Fence`, `Recover` | busy time-out, failure, fence and audited recovery of the coordinator |

A transaction of the control tables is one step.  The document status store has no
transactions with them: each read and each write of it is a step of its own, so that a
document may change between the selection, the reset and the acknowledgement.

### 4.2 Abstractions

* One clock gives all `updated_at` and cutoff values.  The code compares times written by
  different nodes; the model takes the clocks to agree (a hazard without a property).
* PARSING, ANALYZING and PROCESSING are one state: the scheduler treats them alike.
* Hydration and the consistency repair are one step because the rows are claimed.
* Admission of a batch and the `status()` inside it are one step; a pause between the two
  is the same as a pause before.
* Tickets are reduced: a holder that fails leaves its ticket, the workspace is fenced some
  time later, and only a recovery (with the restart of the failed processes) goes on.
  Module `Coordinator` has the whole of it.
* Whether a document has content or a custom-chunk journal is constant (`Contentless`,
  `Patched`).
* A failed worker step writes FAILED; how the error record is worded is left out.

### 4.3 Runs

| Run | Instance | Question |
|---|---|---|
| `pipeline_batches` | 2 processes, 2 documents of which one has no content, 1 request, 1 pause, clock 2 | can batches share a document, a failed document come back by itself, a pause be missed, "completed" leave something out? also the inductive invariant |
| `pipeline_liveness` | `FairSpec`, 2 processes, 1 document, 1 request, 1 pause, clock 3 | can a replay or a crash give an attempt too many? is an accepted request served though batches compete for admission? also the refinement of `RetryOnce` |

`RetryOnce` is the abstract specification of a manual retry: documents wait, are done or have
failed at some time; a request is about the failures up to a time, gives each of them one
attempt, ends when it owes none or is withdrawn, and nobody else brings a failure or a
processed document back.  `RetriesOnce` is this specification under the mapping *failed at =
`updated_at` of a FAILED row, until = the cutoff, retried = the documents reset for the
request*; targets, pages, acknowledgements, tickets and claims are invisible in it.

Two requests at once, a second document with content and documents with a custom-chunk
journal (`Patched`) are covered by the theorems only.

## 5. The modules `ReleaseHandover`, `WritingSide` and `ReleaseOrchestrator`

A release moves a workspace from the instances of one slot (blue) to those of the other
(green), and may be aborted before the transfer or rolled back after it.

### 5.1 Correspondence

| Model | Code |
|---|---|
| `activeSlot`, `config`, `epoch`, `owner`, `phase`, `gateOpen`, `identity`, `expired` | the row of the scope (`001_release.sql`) |
| `relPhase`, `previous`, `approval` | rows of `releases` and their approval of a rollback |
| `registered`, `retiring`, `closed` | rows of `instances` |
| `tState`, `tInst`, `tEpoch` | admission tickets |
| `queue`, `cState`, `cTicket` | the durable command queue |
| `cleaner`, `cleaned` | `source_cleanup` |
| `op`, `fenced` | what this part sees of the coordinator's tables |
| `life`, `seen`, `halted`, `running`, `write` | memory of the instances and requests under way |
| `runner`, `route`, `delayed`, `delays` (`ReleaseOrchestrator`) | the process that drives the release, the selector of the entry Service, PATCH requests that were not answered |
| `prepared` (`ReleaseOrchestrator`) | how far `prepare()` has come: the digest in `previous` (`capture_baseline`), then the Deployment of the candidate |

Every SQL function and every operator transaction locks the row of the scope and is one
action: `Register`, `AdmitWriter`, `CheckTicket`, `FinishTicket`, `Enqueue`, `Claim`,
`FinishCommand`, `ClaimCleanup`, `FinishCleanup`, `Drain`, `Close`, and on the operator's
side `Begin`, `StartDrain`, `SwitchRead`, `TransferWriter`, `BeginRetiring`, `Retire`,
`Complete`, `BeginRollback`, `ReverseTransfer`, `RetireRollback`, `FinishRollback`, `Abort`,
`FinishAbort`.  Between them an instance reads the epoch (`Refresh`), starts and ends the
operation of a ticket, sends a write and loses its result, stops, or dies.

`ReleaseOrchestrator` EXTENDS `ReleaseHandover`: its steps are steps of the tables, guarded
by what the runner verifies first, and PATCH requests that change the route.  A runner may
return or be killed after any of them; a PATCH whose answer did not come may be applied
later, as long as nobody else has changed the version it names.

`prepare()` is two such steps, `Capture` and `Deploy`, and what they leave decides later
runs.  `expected_slot()` raises for the slot from before the release as long as its artifact
was not captured, so `Verify` and `Verified` contain `Expected`; `wait_closed_and_scale()`
raises when the slot to scale down has no Deployment, so `Complete`, `FinishAbort` and
`FinishRollback` are guarded by `ScaledDown`; and a candidate registers only when the
Deployment of its release exists (`PodsDeployed`).

`WritingSide` is the abstract specification: in each term one of two sides writes, and the
next term begins when no write of the last one is under way.  `OneSideWrites` is this
specification under the mapping *side = active slot, term = epoch, writes under way = the
requests that were sent*.

### 5.2 Abstractions

* Digests are reduced to whether one was captured, and the fields of an approval to the
  constant set `Approved`; evidence reports are left out.
* A ticket has one coordinator operation, which ends or stays behind and fences.  The time
  between the death of a process and the end of its session is module `Coordinator`'s.
* The read operations of queries take no ticket that a hand-over waits for and are left out.
* `candidate_slot` is always the other slot and is not kept; `verify_candidate`, which
  repeats at the transfer what `StartDrain` and the switch of the route have verified, is
  not there a third time.  `Verify` asks for the selector and for `Expected`; that the pods
  behind the route still answer at that moment is left out, so the model takes transactions
  that the code may refuse until they do.  In `route_calm` the pods behind a verified route
  stay up, so that nothing about the end of a release rests on it.
* The replicas of a Deployment and load balancers appear as the instances that are up; the pods of a slot
  that `verified_pods()` sees are the registered instances that are neither closed nor
  retiring.

### 5.3 Runs

| Run | Instance | Question |
|---|---|---|
| `release_handover` | one blue instance, one green candidate, 2 tickets, 1 command about 1 source | does work of an old epoch survive a transfer? do commands and clean-ups exclude each other? also the refinement and the inductive invariant |
| `route` | 4 instances, 2 releases, 2 late PATCH requests, no work | does the entry reach the slot that writes, through aborts, rollbacks, runners that stop and candidates of an earlier release? |
| `route_calm` | 2 instances, 3 tickets, 2 commands, `FairRouteSpec` | without a failure: is the entry served throughout, is every accepted command executed, does a release with a Deployment end? |
| `route_reentry` | 1 late PATCH, `FairRouteSpec`; *violation* | does an abort that was taken up again always end? |

`route_calm` leaves out every failure (crashes, lost results, failed operations, killed
runners) because each of them stops a release until an operator acts, by design.  A runner
ends before its release only by the refusals of the code (`Refused`).  The drain budget may
expire, and the release then turns into an abort.  In `route_calm` a
command to come finds a ticket (`Spare`): tickets are ids that the database invents, and
only the model runs out of them (`Fresh` names the next one).

`ReleasesEnd` is about releases whose candidate has its Deployment.  For the others the code
has no end to promise.  An abort launched before `prepare()` has captured the baseline fails in
`verify_route()` ("Old artifact was not captured before preparation", `transport.py:319-320`)
each time, and only an advance gets further; a runner killed between the capture and the
Deployment leaves a release whose abort enters ABORTING and then fails in
`wait_closed_and_scale()` ("Old deployment unexpectedly disappeared", `transport.py:465-466`)
on every re-entry, as no Deployment is made in that phase.  Without `prepared[r] = "deployed"`
TLC refutes `ReleasesEnd` with the first of these.

*Finding.*  `AbortsEnd` is violated: a runner that advances the release sends
the PATCH from blue to both slots and gets no answer; the next one aborts, finds the route
still on blue and enters ABORTING; then the PATCH is applied and leaves the selector on both
slots.  In the phase ABORTING the route
is verified and never set again, so every later run of the abort refuses, although
`docs/ProdDelivery.md` promises that a failed abort can be run again.

## 6. The module `KeyedLocks`

### 6.1 Correspondence

| Model | Code (`kg/shared_storage.py`) |
|---|---|
| `proc`, `PidOf` | processes of the host and `os.getpid()`; a pid is given out again |
| `pc`, `cur`, `held`, `enters` | where a task is in `_KeyedLockContext.__aenter__` / `__aexit__` |
| `registry`, `refs` | `_async_lock`, `_async_lock_count` of a process |
| `gate`, `locked` | the asyncio.Lock a task has got for a key, and who has it |
| `holders` | `_holders` of `KeyedHolderTable` in the Manager server |
| `call` | a `try_acquire()` under way: `Look`, `Probe`, `Set` |

With `multi = FALSE` (one worker) a key is an asyncio.Lock; with `multi = TRUE` that lock is
only the gate before a lease in the server.  `Cancel` may happen wherever a task waits
without a request under way, `Kill` at any time; the server finishes a request although its
client is dead.

`SortedLocks` is the abstract specification: a key has one owner, a list is locked in
ascending order and given back in descending order, nothing of it before the whole list is
done, and a death frees what its host owned.  `LocksInOrder` is this specification under the
mapping *owner = the task that holds the key, gone = processes that are dead*.  The order is
why tasks whose lists overlap do not wait for each other in a circle.

### 6.2 Abstractions

* A request blocks the event loop of its process, as the code does on purpose, so no other
  task of the process moves meanwhile.
* The FIFO order of `asyncio.Lock` is left to the fairness of the tasks.
* The two reads of the operating system that probe a holder - is the pid alive, when did its
  process start - are one step, as are the parts of `Set` under the lock of the table.
  The leniency on systems without `/proc` is left out.
* The death of the Manager server, which ends the service, is left out; so is a lease whose
  return fails with it (`shared_storage.py:927`, listed as a hazard without a property).
* `Stranded` is what the code cannot repair: a lease that was granted to a process already
  dead and whose pid was in use again when the server looked.  It is exempt from `Served`.

### 6.3 Runs

| Run | Instance | Question |
|---|---|---|
| `locks` | 3 processes of which two share a pid, 3 tasks on two of them, 2 keys, with and without leases | is a key ever held twice, is anything left behind, are lists locked in order, does everybody get it? also the refinement and the inductive invariant |
| `locks_twice` | a list that names a key twice; *violation* | - |

In `locks` the record of a dead holder meets one living contender at a time: the tasks of a
process take turns at its gate, the third process has none, and the pid it takes is what it is
there for.  That two living processes which saw the same record dead do not both get the key
is shown by the theorems only (`CallsFit`).

*Finding.*  `_KeyedLockContext` sorts its keys and keeps duplicates, where the coordinator's
lock drops them (`distributed/coordinator.py:520`).  `adelete_by_relation` and
`aedit_relation` pass `[source, target]`, which may be the same entity: the task then waits
for the lock it holds.

## 7. The module `LocalPipeline`

### 7.1 Correspondence

| Model | Code |
|---|---|
| `status` | `pipeline_status`: `busy` and its owner, `scanning`, pending-enqueue tokens, the phase of a manual drain, `cancellation_requested`, `recovery_required` |
| `mailbox` | `PipelineIngressMailbox`: document channel, rescan flag, FIFO of manual retries |
| `doc` | document status store |
| `pc`, `run` | where a job is, and what a run keeps: its sweep cursor, batch and wake-up |
| `due`, `lapsed`, `faults` | history that only the properties read |

A job is one request: an SDK insert, an upload, a manual retry, a scan, a deletion by the
SDK or a batch deletion by the API.  One action is one critical section of the pipeline
status lock, one request to the mailbox or one write of the document status.  Any job may
become *the run*: `Drive` takes the reservation, `Peek` ... `EndBatch` sweep the documents in
pages while the feeder takes messages, `Decide` is the quiescence decision, `Freeze` ...
`Thaw` the manual drain with its exclusive reset, `Exit` the clean-up of a run that failed or
was cancelled.  Reservations of dead workers are given back by the next reservation
(`Reaped`).

### 7.2 Abstractions

* Parsing, analysis and extraction of a document are one interval between `Begin` and
  `Finish`, which may end either way.
* The admission capacity is off, as it is by default; capacity and terminal ids of the
  manual channel, withdrawal and clearing of the mailbox are left out.
* `recovery_required` is terminal: the administrator's forced reset is not modelled, nor are
  the stall and journal fences, custom chunks, clearing and duplicate documents.
* FAILED rows without content, which a reset skips, are left out.
* `lapsed` says that a fault took away a run that owed work and that none has started since:
  the code has no background loop in local mode, so the next request has to take up the work.
  What is promised is therefore conditional (`Excused`).
* `WritersApart` exempts one pair: a deletion by the SDK rejects only `busy`
  (`lightrag.py:6944`) and may run beside the classification of a scan.

### 7.3 Runs

| Run | Instance | Question |
|---|---|---|
| `local_pipeline` | 4 mixes of 3 jobs on 2 workers, 2 documents, whole sweeps and pages of one, channel of one message, 1 fault (a kill at any point; a failure or a cancellation within a run) | do writers keep apart, is a retry acknowledged early, has everything queued somebody who comes to it, is anything forgotten? |
| `local_drain` | an upload and a retry, no fault; *violation* | does the freeze of a manual retry always end? |

*Finding.*  The upload route drives the pipeline while it still holds its pending-enqueue
token.  If that run picks up a manual retry it freezes the intake and waits until no token is
left - its own included.  `local_pipeline` exempts this state (`WaitsForItself`), and
`local_drain` shows it.

## 8. Bounds, symmetry, deadlock, fairness

*Bounds.*  `MaxDepth` (nested lock contexts), `MaxGeneration` (recoveries), `MaxClock` (no
document is scheduled or submitted after it, so versions are bounded), `MaxPauses`,
`MaxDelayed` (late PATCH requests), `MaxEnters` (how often a task locks its list) and
`MaxFaults` (kills, failures, cancellations) are guards of actions; ids of operations,
writes, requests, tickets, releases and commands are finite sets of values used once, as the
code's `uuid4` and sequences make them.  Every hazard listed needs two actors at most (three
where a pid is used again), one ticket, request or reservation that fails or is replayed, and
one event in between.  Two processes race for every transaction; depth 2 distinguishes a
nested context from the outermost one; a recovery leads to a second generation, in which slow
processes still hold permits of the first; a clock of 3 lets a document fail, be reset, be
removed and submitted and fail again within one request; two releases let the second one start on what the first
left behind; pages of one document on two documents put a page boundary between any two.  In
the modules with theorems the bounds are arbitrary naturals of the proofs, so what is proved
holds for all of them.

*Symmetry.*  Sets whose members no definition tells apart are symmetric.  `Owners` is so only
where all have one manifest, `Docs` nowhere, keys never (they are sorted).  The runs with
liveness properties use no symmetry.

*Deadlock* is not checked (`CHECK_DEADLOCK FALSE`): ids, generations, faults and the clock run
out, a system whose tasks are all done stands still, and a fenced workspace whose operator
never recovers it stands still in the code as well.  That nobody waits for ever is stated as
a liveness property instead.

*Fairness.*

* `Coordinator`: PostgreSQL ends the session of a client that is gone, and a coordinator that
  stays open keeps running checked transactions (waiting for a lock or for admission polls).
* `PipelineControl`: the polling task of a process never ends by itself and admitted work is
  carried on; pauses, client calls, failures, fences and recoveries are never promised.
  Fairness is on each process as a whole, not on each of its actions: a process that always
  finds another thing to do may never do a particular one.
* `ReleaseOrchestrator`: the consumer and control loops of an instance, the end of every task,
  and the retirement of a pod go on, and somebody launches a runner until a release that has
  begun has ended.  Nobody has to begin a release or to enqueue a command, the drain budget
  need not expire, and it is not promised that a launched runner is an advance.
* `KeyedLocks`: strong fairness of each task, since an event loop wakes waiters in FIFO order
  and a poll with back-off meets a free lease again and again; weak fairness of the server.
  It includes that no body runs for ever.  Nobody has to lock, to cancel or to start.
* `LocalPipeline`: weak fairness of each job that was admitted.  Faults and new jobs are not
  promised.

## 9. What is proved

All theorems hold for any number of processes, tickets, tasks, keys, documents, writes,
requests, instances and commands and for all bounds.  They assume only the named assumptions
on the constants (`CoordinatorAssumption`, `PipelineAssumption`, `HandoverAssumption`,
`LocksAssumption`, `MaxDelayedAssumption`, `LocalAssumption`): the null value is no member of the other sets, functions have their
types, bounds are naturals, and what is counted (request ids, the tasks that lock, documents) is finite.

*Coordinator.*  `TypeCorrect`; `TicketSafety` (exclusive tickets are alone, active tickets
are of the current generation, evidence has an owner); `FencePersists`;
`CompletedMeansApplied`; `UncertaintyIsVisible`; `WritesExclude`; `ClaimsSettle`;
`OneConfiguration`.  They come from the inductive invariant `IInv`.  Besides the properties
it needs `RowsFirst` (nothing refers to a row before its INSERT), `WritesConsistent` (row,
body and storage of a write tell one story), `ReentryHolds` (the depth a task remembers is
covered by the row) and `WritingHolds`: a write under way is pending and its holder owns the
row of the resource.  The last is what makes two writers impossible, and the only part that
`recover()` can break; it is conditional on `OperatorVerifies`.  `OneConfiguration` rests on
`RegisteredAgrees`, an invariant of its own.

*Pipeline.*  `TypeCorrect`, `BatchesNeverMeet`, `OneAttempt`, `CompletionIsHonest`,
`ResetsAreDue`, `PauseStopsStarts`, `RevivalIsRequested`, and the refinement
`RequestsAreKept` of `RetryOnce`, from the inductive invariant `IInv`.  In the refinement a
reset that finds its version is a `Retry`, the transaction that completes a request a `Serve`,
and a write of the store that concerns no failure a `Tick`; selecting, replaying and
acknowledging are stutters.  The parts of `IInv`:

* `TicketsFit` - within an operation a process has the ticket it needs;
* `BatchesFit` - a batch owns what it works on, and nothing of it is FAILED;
* `RetriesFit` - the request a process serves is in the state its step expects, which rests
  on resets being exclusive;
* `TimesFit` - targets never exceed the cutoff, and a version at or below the cutoff of a
  selected document *is* the target: later writes have later versions;
* `AttemptsFit` - once reset, the version of the target is gone for good.  This and
  `TimesFit` make at-most-once follow, although selection and reset are replayed freely;
* `SelectionFits` - what has been paged over and is due is a target, what is acknowledged is
  no longer due.  This is why "completed" is honest, also after a crash in mid-page;
* `CommandsFit` - a pause that overtook a batch shows in the epoch, whatever the flag says.

*Release handover.*  `Inductive`, `NothingLeftBehind`, `ClosingIsSafe`, `OneConfigWrites`,
`CommandsAreSafe`, `SourcesAreKept`, `ReleasesEndClean`, `OneSideAdmitted`, and the refinement
`HandoverIsSafe`:
the initial states of `ReleaseHandover` are initial states of `WritingSide` under the mapping,
and every step is a `Start`, an `End`, a `Handover` or a stutter.  The parts of `IInv`:

* `TicketsUsed` - a ticket of the current epoch is of the active slot; this makes tickets of
  one epoch agree without a global argument;
* `TasksLive`, `WritesOwned` - below a request there is an operation, below that a task under
  a live ticket, or a dead process.  So a transfer that finds no active operation and no
  unfinished ticket finds no request either, whoever sent it;
* `WorkIsCurrent` - and therefore nothing of the old side is under way;
* `InstancesLive`, `DrainedIsIdle` - rows and lives of instances agree, and a drained one has
  nothing left;
* `ScopeFits` - in each phase the scope differs from the state before the release exactly as
  the phase says; `EndsClean` is its value at the end;
* `RetiringFits`, `ActiveRunsConfig` - only the other slot retires, and when a release begins
  nothing of the last one is retiring any more: this is why a rollback finds instances of the
  right configuration;
* `QueueFits`, `CommandsFit`, `CleanupExcludes` - a command is queued once, has a ticket of
  its own, and shares its outcome; a source has a cleaner or unfinished commands, never both.

*Keyed locks.*  `KeysExclude`, `NothingLeaks`, `OneLockPerKey`, from `Inductive`, and the
refinement `ListsAreOrdered` of `SortedLocks`: getting a key is an `Acquire`, giving it back
a `Release`, a kill a `Die`, and every other step of a gate, a lease or a request a stutter.
The parts of `IInv`:

* `TasksFit`, `PidsApart`, `Alone` - tasks act in live processes, a pid has one process at a
  time, and one worker uses no leases;
* `RecordsNamed` - the record of a living task names its pid and its start, so it is not found
  dead;
* `CallsFit` - a request is about what its task waits for, and the record it is about to
  replace belonged to somebody dead: that stays true until the slot is looked at again,
  because nobody rises from the dead and a lease is never used twice;
* `LeasesHeld`, `NoLeak` - whoever holds a key has its lease, and the other way round;
* `GatesHeld` - whoever holds a key, or asks for its lease, has the lock of its process;
* `GatesCounted` - the reference count is the number of references, also in processes that
  have died.  With `GatesHeld` it excludes the tasks of one process, without leases;
* `ListsSorted` - a task waits for the least key it has not got, and has got none that is
  greater than one it still lacks.

*Release orchestrator.*  `RunsAreHandovers`: the composition implements `ReleaseHandover` - a
runner only calls transactions, a PATCH changes no table - so all its theorems carry over.
`RouteIsSafe`, `EntryFollowsWriter` and `RetiredAreUnrouted` come from `RouteInv`, which is
inductive relative to `IInv` of `ReleaseHandover`.  Its part `PreparationFits` says that whoever
aborts has captured the artifact to go back to, and whoever closes the gate or moves the
writer has a Deployment to scale down as well; with `ScopeFits` it makes `Expected` hold
wherever an abort has begun.  The other parts say what late requests may still do: from one slot they lead to both, from both to one, and to the
slot that writes where the gate is open.  So a request that is applied late may widen the
route but never leads it away from the writer.
`EntryIsServed` is about `CalmRouteSpec`, in which no instance, operation or command fails,
though PATCH requests may be late and drains may take too long.  Its invariant `CalmInv` adds that nobody stops who was not told to
retire, and that a slot the route or a late request names has an instance that is open.

*Local pipeline.*  `NobodyWritesBeside` and `RetriesAreServed` from `Inductive`, and
`TypeCorrect`; `NothingIsForgotten` from `OwnersStay`.  The parts of `IInv`:

* `JobsHold`, `KindsFit` - where a job is says what it holds of the shared status.  Each step
  is shown to leave to the living what they hold (`Effect`) and to give its own job what it
  needs where it goes (`Lands`); that reservations of dead workers are given back and nobody
  else's are is `ReapedRespects`;
* `IntakeStopped`, `ClassifiesAlone` - who wants to be alone with the document status looked
  at the tokens and flags under the lock, and stays alone from then on: the phase and
  `scanning_exclusive` refuse whoever comes later.  These are weaker than they look, since the
  SDK's deletion of one document is kept from neither;
* `RetriesFit` - what a request still owes is FAILED in the store, whatever batches and
  deletions do meanwhile;
* `ResetsFit` - what it owes lies after the cursor.  `PagesAreWhole` is the lemma about keyset
  pages behind it: between two cursors nothing is left out, and only a page that is not full
  ends the sweep.

`WorkIsOwned` is the safety half of `Served`: what is queued has somebody who looks at the
mailbox before he goes, and a document that is to be processed is in the mailbox, ahead of the
cursor of a run or on the list of a batch.  It is not inductive alone.  `OwnInv`, which is
inductive relative to `IInv`, adds

* `HoldersFit` - a reservation has a holder at a place where he gives it back.  So whoever
  finds the pipeline busy, or fenced by a scan, has found somebody who will still look;
* `BatchesFit` - what a batch has taken in and not finished is on its list, so the rows that
  the next page leaves out as in flight are not lost;
* `NothingLost` - a fault leaves its mark (`lapsed`) until a run begins, which sweeps from the
  first document on.

What makes the steps hold is that a message is taken out of the mailbox only by a run that
sweeps afterwards, and that the look at the empty mailbox and the release of `busy` are one
critical section (`Decide`, `Leave`).

The invariants of `Coordinator`, `PipelineControl`, `ReleaseHandover`, `KeyedLocks` and
`ReleaseOrchestrator` are invariants of a run as well; that of `LocalPipeline` is proved, and
the properties it implies are in the run.

*Only model-checked*: the liveness properties (`UnfinishedIsFenced`, `RequestsServed`,
`CommandsEnd`, `ReleasesEnd`, both `Served`), since liveness under fairness is out of the
prover's reach.  Every invariant and action property of a passing run is a theorem.

## 10. What is not modelled

Of the modelled parts, what the sections above list as abstractions; the context-variable
plumbing of permits; the early return of a nested call that already holds a shared permit; the
gate of a release inside a batch (`can_claim_batch`); read-only status calls.

Hazards of modelled code that no property covers:

* `distributed/pipeline.py:75` - versions are written with one node's clock and compared with
  another's; the model has one clock;
* `kg/shared_storage.py:2992` - a deletion by the SDK during the classification of a scan;
* `pipeline.py:3455` - documents that an interrupted reset left PENDING are processed before
  the reset is repeated, and may be tried twice;
* `kg/shared_storage.py:927` - a lease whose return fails.

Of the rest, `PROJECT.json` names every component with its reason: the modules of the plan
that are open; drivers of external databases, whose state is outside the program; text
processing, whose results depend on a language model; parsers; one-shot jobs and the user
interface.  These make up most of the lines of the repository, and little of them depends on
the order of steps.
