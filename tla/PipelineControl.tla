--------------------------- MODULE PipelineControl ---------------------------
(***************************************************************************)
(* The distributed pipeline (lightrag/distributed/pipeline.py) with its    *)
(* durable control tables (lightrag/distributed/control.py): pause and     *)
(* resume, manual retry of failed documents, claimed batches, clear.       *)
(*                                                                         *)
(* A transaction of the control tables is one step: the coordinator takes  *)
(* the workspace row first (module Coordinator).  The status store of the  *)
(* documents has no such transaction; each read or write of it is a step.  *)
(*                                                                         *)
(* Tickets are reduced to what this module needs of Coordinator: an        *)
(* exclusive ticket is alone, a ticket whose holder failed stays, fences   *)
(* the workspace some time later, and ends by recovery only.               *)
(*                                                                         *)
(* Time: versions (updated_at) and cutoffs are readings of one clock that  *)
(* every status write advances; the clocks of the nodes are taken to       *)
(* agree.                                                                  *)
(***************************************************************************)
EXTENDS Naturals, FiniteSets

CONSTANTS
    Procs,        \* processes that run the pipeline
    Docs,         \* document ids
    Requests,     \* ids of manual retry requests
    Contentless,  \* documents without content, such as error records
    Patched,      \* documents with a custom-chunk journal
    None,         \* no process, request or document
    MaxClock,     \* bound: no document is scheduled or submitted after it
    MaxPauses     \* bound: pauses

ASSUME PipelineAssumption ==
    /\ None \notin Procs \cup Docs \cup Requests
    /\ Contentless \cup Patched \subseteq Docs
    /\ IsFiniteSet(Requests)
    /\ MaxClock \in Nat
    /\ MaxPauses \in Nat

VARIABLES
    \* pipeline_control, pipeline_requests and pipeline_retry_targets.
    paused,
    epoch,        \* cancel_epoch
    reqState,     \* state, "unused" before the INSERT
    created,      \* place of a request in the order of created_at, 0 if unused
    cutoff,       \* target_cutoff_at
    target,       \* version of the target row of a document, 0 when there is none
    done,         \* targets acknowledged
    \* The document status store.
    docState,
    version,      \* updated_at
    clock,
    \* Coordinator tables.
    ticket,       \* each process holds at most one operation
    claim,        \* document_claims
    fenced,
    \* Pipeline processes.
    pc,
    request,      \* the request reset_requests() is working on
    scanned,      \* documents its selection has paged over
    doc,          \* the target it is resetting
    observed,     \* pipeline_cancel_epoch
    page,         \* ids of the scheduling page not yet tried
    todo,         \* hydrated documents of the batch not yet started
    active,       \* documents of the batch that a worker has started
    cancelling,   \* pipeline_status["cancellation_requested"]
    \* Observations for the properties only.
    wanted,       \* the last explicit command that took effect was not a pause
    overtaken,    \* a pause was published after the process's batch began
    attempts      \* resets of a document on behalf of a request

control == <<paused, epoch>>
retries == <<reqState, created, cutoff, target, done>>
store   == <<docState, version, clock>>
reset   == <<request, scanned, doc>>
batch   == <<observed, page, todo, active, cancelling>>
ghosts  == <<wanted, overtaken, attempts>>
vars == <<control, retries, store, ticket, claim, fenced, pc, reset, batch, ghosts>>

DocStates == {"absent", "PENDING", "PROCESSING", "PROCESSED", "FAILED"}
\* _AUTO_RESUME_DOC_STATUSES
Automatic == {"PENDING", "PROCESSING"}
RequestStates == {"unused", "selecting", "resetting", "completed", "retired"}
Modes == {"none", "shared", "exclusive"}

\* Where a process is; within an operation, where in it.
RetryLabels == {"next", "select", "targets", "reset", "ack"}
BatchLabels == {"page", "claiming", "batch"}
Labels ==
    {"idle", "called", "retry", "batches", "clear", "drop", "failed"}
        \cup RetryLabels \cup BatchLabels

ControlTypes == paused \in BOOLEAN /\ epoch \in Nat

RetryTypes ==
    /\ reqState \in [Requests -> RequestStates]
    /\ created \in [Requests -> Nat]
    /\ cutoff \in [Requests -> Nat]
    /\ target \in [Requests -> [Docs -> Nat]]
    /\ done \in [Requests -> SUBSET Docs]

StoreTypes ==
    /\ docState \in [Docs -> DocStates]
    /\ version \in [Docs -> Nat]
    /\ clock \in Nat \ {0}

OperationTypes ==
    /\ ticket \in [Procs -> Modes]
    /\ claim \in [Docs -> Procs \cup {None}]
    /\ fenced \in BOOLEAN
    /\ pc \in [Procs -> Labels]

ResetTypes ==
    /\ request \in [Procs -> Requests \cup {None}]
    /\ scanned \in [Procs -> SUBSET Docs]
    /\ doc \in [Procs -> Docs \cup {None}]

BatchTypes ==
    /\ observed \in [Procs -> Nat]
    /\ page \in [Procs -> SUBSET Docs]
    /\ todo \in [Procs -> SUBSET Docs]
    /\ active \in [Procs -> SUBSET Docs]
    /\ cancelling \in [Procs -> BOOLEAN]

GhostTypes ==
    /\ wanted \in BOOLEAN
    /\ overtaken \in [Procs -> BOOLEAN]
    /\ attempts \in [Requests -> [Docs -> Nat]]

TypeOK ==
    /\ ControlTypes /\ RetryTypes /\ StoreTypes /\ OperationTypes
    /\ ResetTypes /\ BatchTypes /\ GhostTypes

\* Any mix of pending and failed documents that earlier runs left.
Init ==
    /\ paused = FALSE /\ epoch = 0
    /\ reqState = [r \in Requests |-> "unused"]
    /\ created = [r \in Requests |-> 0]
    /\ cutoff = [r \in Requests |-> 0]
    /\ target = [r \in Requests |-> [d \in Docs |-> 0]]
    /\ done = [r \in Requests |-> {}]
    /\ docState \in [Docs -> {"PENDING", "FAILED"}]
    /\ version = [d \in Docs |-> 1]
    /\ clock = 1
    /\ ticket = [p \in Procs |-> "none"]
    /\ claim = [d \in Docs |-> None]
    /\ fenced = FALSE
    /\ pc = [p \in Procs |-> "idle"]
    /\ request = [p \in Procs |-> None]
    /\ scanned = [p \in Procs |-> {}]
    /\ doc = [p \in Procs |-> None]
    /\ observed = [p \in Procs |-> 0]
    /\ page = [p \in Procs |-> {}]
    /\ todo = [p \in Procs |-> {}]
    /\ active = [p \in Procs |-> {}]
    /\ cancelling = [p \in Procs |-> FALSE]
    /\ wanted = TRUE
    /\ overtaken = [p \in Procs |-> FALSE]
    /\ attempts = [r \in Requests |-> [d \in Docs |-> 0]]

-----------------------------------------------------------------------------
(* Shared conditions and effects.                                          *)

Goto(p, label) == pc' = [pc EXCEPT ![p] = label]

Unfinished(r) == reqState[r] \in {"selecting", "resetting"}
PendingRetries == \E r \in Requests : Unfinished(r)

\* status upsert: every write gives the row a new updated_at.
WriteStatus(d, s) ==
    /\ docState' = [docState EXCEPT ![d] = s]
    /\ clock' = clock + 1
    /\ version' = [version EXCEPT ![d] = clock + 1]

Admissible(p, kind) ==
    \A q \in Procs \ {p} :
        IF kind = "exclusive" THEN ticket[q] = "none" ELSE ticket[q] # "exclusive"

-----------------------------------------------------------------------------
(* Control intent, published by any process at any time.                   *)

\* pause(): does not wait for running batches.
Pause ==
    /\ ~fenced
    /\ epoch < MaxPauses
    /\ paused' = TRUE
    /\ epoch' = epoch + 1
    /\ wanted' = FALSE
    /\ overtaken' = [p \in Procs |-> pc[p] \in BatchLabels]
    /\ UNCHANGED <<retries, store, ticket, claim, fenced, pc, reset, batch, attempts>>

\* The INSERT of a request id wins.
Fresh(r) == reqState[r] = "unused"

\* request_retry(): accept and resume in one transaction; a replay only reads.
\* The cutoff was taken from the accepting process's clock some time before.
RequestRetry(r, c) ==
    /\ ~fenced
    /\ IF Fresh(r)
       THEN /\ reqState' = [reqState EXCEPT ![r] = "selecting"]
            /\ created' = [created EXCEPT ![r] = 1 + Cardinality({q \in Requests : created[q] > 0})]
            /\ cutoff' = [cutoff EXCEPT ![r] = c]
            /\ wanted' = TRUE
       ELSE UNCHANGED <<reqState, created, cutoff, wanted>>
    /\ paused' = (paused /\ ~Fresh(r))
    /\ UNCHANGED <<epoch, target, done, store, ticket, claim, fenced, pc, reset, batch,
                   overtaken, attempts>>

\* process(resume=True): an explicit call resumes, and runs unless this process
\* already does.
ExplicitCall(p) ==
    /\ pc[p] # "failed"
    /\ ~fenced
    /\ paused' = FALSE
    /\ wanted' = TRUE
    /\ pc' = [pc EXCEPT ![p] = IF @ = "idle" THEN "called" ELSE @]
    /\ UNCHANGED <<epoch, retries, store, ticket, claim, fenced, reset, batch, overtaken,
                   attempts>>

\* One round of the polling task.
Poll(p) ==
    /\ pc[p] = "idle"
    /\ Goto(p, "called")
    /\ UNCHANGED <<control, retries, store, ticket, claim, fenced, reset, batch, ghosts>>

\* The first status(): nothing runs while paused, retries come before batches.
ReadControl(p) ==
    /\ pc[p] = "called"
    /\ Goto(p, CASE paused -> "idle"
                 [] ~paused /\ PendingRetries -> "retry"
                 [] OTHER -> "batches")
    /\ UNCHANGED <<control, retries, store, ticket, claim, fenced, reset, batch, ghosts>>

-----------------------------------------------------------------------------
(* reset_requests(): one exclusive operation serves every pending request. *)

Release(p) == ticket' = [ticket EXCEPT ![p] = "none"]

\* status() again, then admission; a request may be served by then.
AdmitReset(p) ==
    /\ pc[p] = "retry"
    /\ \/ /\ ~PendingRetries
          /\ Goto(p, "batches")
          /\ UNCHANGED ticket
       \/ /\ PendingRetries
          /\ ~fenced
          /\ Admissible(p, "exclusive")
          /\ ticket' = [ticket EXCEPT ![p] = "exclusive"]
          /\ Goto(p, "next")
    /\ UNCHANGED <<control, retries, store, claim, fenced, reset, batch, ghosts>>

\* CoordinationBusyError: the wait for a conflicting ticket timed out.
GiveUpAdmission(p) ==
    /\ \/ pc[p] = "retry" /\ ~Admissible(p, "exclusive")
       \/ pc[p] = "batches" /\ ~Admissible(p, "shared")
    /\ Goto(p, "idle")
    /\ UNCHANGED <<control, retries, store, ticket, claim, fenced, reset, batch, ghosts>>

\* next_request(): the oldest unfinished one; none ends the operation.
NextRequest(p) ==
    /\ pc[p] = "next"
    /\ ~fenced
    /\ \/ \E r \in Requests :
             /\ Unfinished(r)
             /\ \A q \in Requests : Unfinished(q) => created[r] <= created[q]
             /\ request' = [request EXCEPT ![p] = r]
             /\ Goto(p, IF reqState[r] = "selecting" THEN "select" ELSE "targets")
             /\ UNCHANGED ticket
       \/ /\ ~PendingRetries
          /\ Release(p)
          /\ request' = [request EXCEPT ![p] = None]
          /\ Goto(p, "batches")
    /\ UNCHANGED <<control, retries, store, claim, fenced, scanned, doc, batch, ghosts>>

\* Mutant: the cutoff is not looked at.
SelectedAlways(r, d) == docState[d] = "FAILED"
\* What the selection takes from the row it has just read.
Selected(r, d) ==
    /\ docState[d] = "FAILED"
    /\ d \notin Patched
    /\ version[d] <= cutoff[r]

\* One document of a page: read, filter, add_targets().  Insert once: a repeated
\* selection keeps the first version.
SelectTarget(p, d) ==
    /\ pc[p] = "select"
    /\ ~fenced
    /\ d \notin scanned[p]
    /\ scanned' = [scanned EXCEPT ![p] = @ \cup {d}]
    /\ target' = IF Selected(request[p], d)
                 THEN [target EXCEPT ![request[p]][d] = IF @ = 0 THEN version[d] ELSE @]
                 ELSE target
    /\ UNCHANGED <<control, reqState, created, cutoff, done, store, ticket, claim, fenced, pc,
                   request, doc, batch, ghosts>>

\* Mutant: a failure of the selection is taken for its end.
SelectionStarted(p) == scanned[p] # {}
\* CURSOR_END
SelectionComplete(p) == scanned[p] = Docs

FinishSelection(p) ==
    /\ pc[p] = "select"
    /\ ~fenced
    /\ SelectionComplete(p)
    /\ reqState' = [reqState EXCEPT ![request[p]] = IF @ = "selecting" THEN "resetting" ELSE @]
    /\ scanned' = [scanned EXCEPT ![p] = {}]
    /\ Goto(p, "targets")
    /\ UNCHANGED <<control, created, cutoff, target, done, store, ticket, claim, fenced,
                   request, doc, batch, ghosts>>

\* Mutant: acknowledged targets are returned again.
RemainingForever(r) == {d \in Docs : target[r][d] > 0}
\* Targets of the request that are not done.
Remaining(r) == {d \in Docs : target[r][d] > 0} \ done[r]

\* targets(): the next one, or finish_request().
NextTarget(p) ==
    /\ pc[p] = "targets"
    /\ ~fenced
    /\ LET r == request[p] IN
       \/ \E d \in Remaining(r) :
             /\ doc' = [doc EXCEPT ![p] = d]
             /\ Goto(p, "reset")
             /\ UNCHANGED reqState
       \/ /\ Remaining(r) = {}
          /\ reqState' = [reqState EXCEPT ![r] = IF @ = "resetting" THEN "completed" ELSE @]
          /\ Goto(p, "next")
          /\ UNCHANGED doc
    /\ UNCHANGED <<control, created, cutoff, target, done, store, ticket, claim, fenced,
                   request, scanned, batch, ghosts>>

\* Mutant: any failure of the document will do.
StillSelectedAnyVersion(r, d) == docState[d] = "FAILED"
\* The row is still the failure that was selected, and there is content to reset it
\* with.
StillSelected(r, d) ==
    /\ docState[d] = "FAILED"
    /\ d \notin Contentless \cup Patched
    /\ version[d] = target[r][d]

\* Strict read and status write; a row that changed is only acknowledged.
ResetTarget(p) ==
    /\ pc[p] = "reset"
    /\ ~fenced
    /\ LET r == request[p]
           d == doc[p]
       IN  IF StillSelected(r, d)
           THEN /\ WriteStatus(d, "PENDING")
                /\ attempts' = [attempts EXCEPT ![r][d] = @ + 1]
           ELSE UNCHANGED <<store, attempts>>
    /\ Goto(p, "ack")
    /\ UNCHANGED <<control, retries, ticket, claim, fenced, reset, batch, wanted, overtaken>>

FinishTarget(p) ==
    /\ pc[p] = "ack"
    /\ ~fenced
    /\ done' = [done EXCEPT ![request[p]] = @ \cup {doc[p]}]
    /\ doc' = [doc EXCEPT ![p] = None]
    /\ Goto(p, "targets")
    /\ UNCHANGED <<control, reqState, created, cutoff, target, store, ticket, claim, fenced,
                   request, scanned, batch, ghosts>>

-----------------------------------------------------------------------------
(* process(): claimed batches.                                             *)

\* Admission of a batch, and status() inside its operation: a pause or a retry
\* that was published meanwhile ends the run.
AdmitBatch(p) ==
    /\ pc[p] = "batches"
    /\ ~fenced
    /\ Admissible(p, "shared")
    /\ IF paused \/ PendingRetries
       THEN /\ Goto(p, "idle")
            /\ UNCHANGED <<ticket, observed, overtaken>>
       ELSE /\ ticket' = [ticket EXCEPT ![p] = "shared"]
            /\ observed' = [observed EXCEPT ![p] = epoch]
            /\ overtaken' = [overtaken EXCEPT ![p] = FALSE]
            /\ Goto(p, "page")
    /\ UNCHANGED <<control, retries, store, claim, fenced, reset, page, todo, active,
                   cancelling, wanted, attempts>>

\* _fetch_scheduling_page(): ids only; the rows may change before the claims.
FetchPage(p) ==
    /\ pc[p] = "page"
    /\ page' = [page EXCEPT ![p] =
                   {d \in Docs \ Patched : docState[d] \in Automatic /\ clock <= MaxClock}]
    /\ Goto(p, "claiming")
    /\ UNCHANGED <<control, retries, store, ticket, claim, fenced, reset, observed, todo,
                   active, cancelling, ghosts>>

\* Mutant: the claim of another batch is taken over.
ClaimTaken(p, d) == p
\* try_claim_document(): ON CONFLICT DO NOTHING.
ClaimAfterTry(p, d) == IF claim[d] = None THEN p ELSE claim[d]

ClaimOne(p, d) ==
    /\ pc[p] = "claiming"
    /\ ~fenced
    /\ d \in page[p]
    /\ claim' = [claim EXCEPT ![d] = ClaimAfterTry(p, d)]
    /\ page' = [page EXCEPT ![p] = @ \ {d}]
    /\ todo' = [todo EXCEPT ![p] = IF claim'[d] = p THEN @ \cup {d} ELSE @]
    /\ UNCHANGED <<control, retries, store, ticket, fenced, pc, reset, observed, active,
                   cancelling, ghosts>>

\* Mutant: the ids of the page are trusted.
HydratedFromPage(D) == D
\* _hydrate_scheduling_page(): strict re-read after the claims.
Hydrated(D) == {d \in D : docState[d] \in Automatic}

\* Hydration, and _validate_and_fix_document_consistency(): rows without content are
\* deleted and interrupted ones become pending again.  The claims keep everybody
\* else from these rows, so that this is one step.
Hydrate(p) ==
    /\ pc[p] = "claiming"
    /\ ~fenced
    /\ page[p] = {}
    /\ LET kept        == Hydrated(todo[p]) \ Contentless
           empty       == Hydrated(todo[p]) \cap Contentless
           interrupted == {d \in kept : docState[d] # "PENDING"}
       IN  /\ todo' = [todo EXCEPT ![p] = kept]
           /\ docState' = [d \in Docs |-> CASE d \in empty -> "absent"
                                            [] d \in interrupted -> "PENDING"
                                            [] OTHER -> docState[d]]
           /\ version' = [d \in Docs |-> CASE d \in empty -> 0
                                           [] d \in interrupted -> clock + 1
                                           [] OTHER -> version[d]]
           /\ clock' = IF interrupted = {} THEN clock ELSE clock + 1
    /\ Goto(p, "batch")
    /\ UNCHANGED <<control, retries, ticket, claim, fenced, reset, observed, page, active,
                   cancelling, ghosts>>

\* Mutant: only the pause flag is looked at.
CancelledByFlag(p) == paused
\* _cancellation_requested(): paused, or a pause since the batch was admitted.
Cancelled(p) == paused \/ epoch # observed[p] \/ cancelling[p]

\* A worker takes a document of the batch from its queue and checks for
\* cancellation: that decides; a pause that comes later does not undo the start.
StartDocument(p, d) ==
    /\ pc[p] = "batch"
    /\ d \in todo[p]
    /\ ~Cancelled(p)
    /\ todo' = [todo EXCEPT ![p] = @ \ {d}]
    /\ active' = [active EXCEPT ![p] = @ \cup {d}]
    /\ UNCHANGED <<control, retries, store, ticket, claim, fenced, pc, reset, observed, page,
                   cancelling, ghosts>>

\* The worker sees the cancellation instead: the document fails as cancelled.
CancelDocument(p, d) ==
    /\ pc[p] = "batch"
    /\ ~fenced
    /\ d \in todo[p]
    /\ Cancelled(p)
    /\ todo' = [todo EXCEPT ![p] = @ \ {d}]
    /\ cancelling' = [cancelling EXCEPT ![p] = TRUE]
    /\ WriteStatus(d, "FAILED")
    /\ UNCHANGED <<control, retries, ticket, claim, fenced, pc, reset, observed, page, active,
                   ghosts>>

\* The transitions to PARSING, ANALYZING and PROCESSING.
AdvanceDocument(p, d) ==
    /\ pc[p] = "batch"
    /\ ~fenced
    /\ d \in active[p]
    /\ docState[d] = "PENDING"
    /\ WriteStatus(d, "PROCESSING")
    /\ UNCHANGED <<control, retries, ticket, claim, fenced, pc, reset, batch, ghosts>>

\* A started document is processed, or fails, whenever it is cancelled or goes wrong.
EndDocument(p, d) ==
    /\ pc[p] = "batch"
    /\ ~fenced
    /\ d \in active[p]
    /\ \/ docState[d] = "PROCESSING" /\ WriteStatus(d, "PROCESSED")
       \/ WriteStatus(d, "FAILED")
    /\ active' = [active EXCEPT ![p] = @ \ {d}]
    /\ UNCHANGED <<control, retries, ticket, claim, fenced, pc, reset, observed, page, todo,
                   cancelling, ghosts>>

\* heartbeat() after every worker is joined, then one release after the other.
ReleaseClaim(p, d) ==
    /\ pc[p] = "batch"
    /\ ~fenced
    /\ todo[p] = {} /\ active[p] = {}
    /\ claim[d] = p
    /\ claim' = [claim EXCEPT ![d] = None]
    /\ UNCHANGED <<control, retries, store, ticket, fenced, pc, reset, batch, ghosts>>

\* The operation ends; the run does too when it was cancelled or at CURSOR_END.
\* What this batch observed means nothing to the next one.
EndBatch(p) ==
    /\ pc[p] = "batch"
    /\ ~fenced
    /\ todo[p] = {} /\ active[p] = {}
    /\ \A d \in Docs : claim[d] # p
    /\ Release(p)
    /\ \/ Goto(p, "idle")
       \/ ~cancelling[p] /\ Goto(p, "batches")
    /\ observed' = [observed EXCEPT ![p] = 0]
    /\ cancelling' = [cancelling EXCEPT ![p] = FALSE]
    /\ overtaken' = [overtaken EXCEPT ![p] = FALSE]
    /\ UNCHANGED <<control, retries, store, claim, fenced, reset, page, todo, active, wanted,
                   attempts>>

-----------------------------------------------------------------------------
(* Other document operations, and failure.                                 *)

\* clear: exclusive admission, then the requests, then the stores.
AdmitClear(p) ==
    /\ pc[p] = "idle"
    /\ ~fenced
    /\ Admissible(p, "exclusive")
    /\ ticket' = [ticket EXCEPT ![p] = "exclusive"]
    /\ Goto(p, "clear")
    /\ UNCHANGED <<control, retries, store, claim, fenced, reset, batch, ghosts>>

\* cancel_requests(); "retired" is the state 'completed' reached this way.
CancelRequests(p) ==
    /\ pc[p] = "clear"
    /\ ~fenced
    /\ done' = [r \in Requests |-> IF Unfinished(r) THEN {d \in Docs : target[r][d] > 0}
                                   ELSE done[r]]
    /\ reqState' = [r \in Requests |-> IF Unfinished(r) THEN "retired" ELSE reqState[r]]
    /\ Goto(p, "drop")
    /\ UNCHANGED <<control, created, cutoff, target, store, ticket, claim, fenced, reset,
                   batch, ghosts>>

\* drop() of the status store; the other stores hold nothing modelled here.
DropStores(p) ==
    /\ pc[p] = "drop"
    /\ ~fenced
    /\ docState' = [d \in Docs |-> "absent"]
    /\ version' = [d \in Docs |-> 0]
    /\ Release(p)
    /\ Goto(p, "idle")
    /\ UNCHANGED <<control, retries, clock, claim, fenced, reset, batch, ghosts>>

\* Operations that hold a ticket for one document only: deletion (exclusive),
\* submission and the record of a failed submission (shared, insert-only).
DeleteDocument(d) ==
    /\ ~fenced
    /\ \A p \in Procs : ticket[p] = "none"
    /\ docState[d] # "absent"
    /\ docState' = [docState EXCEPT ![d] = "absent"]
    /\ version' = [version EXCEPT ![d] = 0]
    /\ UNCHANGED <<control, retries, clock, ticket, claim, fenced, pc, reset, batch, ghosts>>

SubmitDocument(d) ==
    /\ ~fenced
    /\ \A p \in Procs : ticket[p] # "exclusive"
    /\ docState[d] = "absent"
    /\ clock < MaxClock
    /\ \E s \in {"PENDING", "FAILED"} : WriteStatus(d, s)
    /\ UNCHANGED <<control, retries, ticket, claim, fenced, pc, reset, batch, ghosts>>

\* A process dies or its operation ends exceptionally: ticket and claims stay,
\* its own variables are gone.  Outside an operation, polling stops on the fence.
Fail(p) ==
    /\ pc[p] # "failed"
    /\ ticket[p] # "none" \/ (fenced /\ pc[p] \in {"retry", "batches"})
    /\ Goto(p, "failed")
    /\ request' = [request EXCEPT ![p] = None]
    /\ scanned' = [scanned EXCEPT ![p] = {}]
    /\ doc' = [doc EXCEPT ![p] = None]
    /\ observed' = [observed EXCEPT ![p] = 0]
    /\ page' = [page EXCEPT ![p] = {}]
    /\ todo' = [todo EXCEPT ![p] = {}]
    /\ active' = [active EXCEPT ![p] = {}]
    /\ cancelling' = [cancelling EXCEPT ![p] = FALSE]
    /\ overtaken' = [overtaken EXCEPT ![p] = FALSE]
    /\ UNCHANGED <<control, retries, store, ticket, claim, fenced, wanted, attempts>>

\* The orphaned ticket is discovered, or the exceptional exit fenced at once.
Fence ==
    /\ ~fenced
    /\ \E p \in Procs : pc[p] = "failed" /\ ticket[p] # "none"
    /\ fenced' = TRUE
    /\ UNCHANGED <<control, retries, store, ticket, claim, pc, reset, batch, ghosts>>

\* Audited recovery, all writers being stopped, and their restart.
Recover ==
    /\ fenced
    /\ \A p \in Procs : ticket[p] # "none" => pc[p] = "failed"
    /\ fenced' = FALSE
    /\ ticket' = [p \in Procs |-> "none"]
    /\ claim' = [d \in Docs |-> None]
    /\ pc' = [p \in Procs |-> IF pc[p] = "failed" THEN "idle" ELSE pc[p]]
    /\ UNCHANGED <<control, retries, store, reset, batch, ghosts>>

-----------------------------------------------------------------------------
Retry(p) ==
    \/ AdmitReset(p) \/ NextRequest(p) \/ FinishSelection(p) \/ NextTarget(p)
    \/ ResetTarget(p) \/ FinishTarget(p)
    \/ \E d \in Docs : SelectTarget(p, d)

Batch(p) ==
    \/ AdmitBatch(p) \/ FetchPage(p) \/ Hydrate(p) \/ EndBatch(p)
    \/ \E d \in Docs : ClaimOne(p, d) \/ StartDocument(p, d) \/ CancelDocument(p, d)
                       \/ AdvanceDocument(p, d) \/ EndDocument(p, d) \/ ReleaseClaim(p, d)

Clear(p) == AdmitClear(p) \/ CancelRequests(p) \/ DropStores(p)

Next ==
    \/ Pause
    \/ \E r \in Requests, c \in {clock - 1, clock} : RequestRetry(r, c)
    \/ \E p \in Procs : \/ ExplicitCall(p) \/ Poll(p) \/ ReadControl(p) \/ GiveUpAdmission(p)
                        \/ Retry(p) \/ Batch(p) \/ Clear(p) \/ Fail(p)
    \/ \E d \in Docs : DeleteDocument(d) \/ SubmitDocument(d)
    \/ Fence
    \/ Recover

Spec == Init /\ [][Next]_vars

\* Polling never ends by itself, admitted work is carried on, and an exclusive
\* operation that was admitted finishes.
Fairness ==
    \A p \in Procs : WF_vars(\/ Poll(p) \/ ReadControl(p) \/ GiveUpAdmission(p) \/ Retry(p)
                             \/ Batch(p) \/ CancelRequests(p) \/ DropStores(p))

FairSpec == Spec /\ Fairness

-----------------------------------------------------------------------------
(* Properties.                                                             *)

\* try_claim_document(), operation(): a document is in one batch at a time, and
\* never in one while a reset, a clear or a deletion may write it.
BatchesExclude ==
    \A p, q \in Procs :
        p # q => /\ active[p] \cap active[q] = {}
                 /\ active[p] # {} => ticket[q] # "exclusive"

\* reset_requests(): a request gives a document one attempt, however often its
\* selection and its reset are interrupted and replayed.
AtMostOneAttempt == \A r \in Requests, d \in Docs : attempts[r][d] <= 1

\* finish_request(): when a request is completed, none of the failures that
\* preceded its cutoff is left as it was.
CompletedRequestServed ==
    \A r \in Requests, d \in Docs \ (Contentless \cup Patched) :
        reqState[r] = "completed" /\ docState[d] = "FAILED" => version[d] > cutoff[r]

\* reset_requests(): a failure newer than the cutoff of a request never gets an
\* attempt from it, and a retired request gives none at all.
OnlyOldFailuresReset ==
    [][\A r \in Requests, d \in Docs :
         attempts'[r][d] > attempts[r][d] =>
             version[d] <= cutoff[r] /\ reqState[r] = "resetting"]_vars

\* process(): FAILED is never picked up automatically and PROCESSED never again,
\* whatever page a batch has read before.
OnlyRequestsRevive ==
    [][\A d \in Docs :
         /\ docState[d] = "FAILED" /\ docState'[d] \notin {"FAILED", "absent"} =>
                \E r \in Requests : attempts'[r][d] > attempts[r][d]
         /\ docState[d] = "PROCESSED" => docState'[d] \in {"PROCESSED", "absent"}]_vars

\* pause(), _cancellation_requested(): a worker starts a document only while the
\* last command that took effect allows it, and never in a batch older than a
\* pause, even one that was resumed at once.
StartsAreWanted ==
    [][\A p \in Procs :
         active'[p] \ active[p] # {} => wanted /\ ~overtaken[p]]_vars

\* request_retry(): an accepted request is served by any process that polls,
\* unless a pause or an unrecovered failure comes first.
RequestsServed ==
    \A r \in Requests :
        Unfinished(r) ~> (~Unfinished(r) \/ paused \/ \E p \in Procs : pc[p] = "failed")

-----------------------------------------------------------------------------
(* The promise of module RetryOnce.                                        *)

Condition(s) ==
    CASE s = "absent" -> "gone"
      [] s = "FAILED" -> "failed"
      [] s = "PROCESSED" -> "done"
      [] s \in Automatic -> "waiting"

Standing(s) ==
    CASE s = "unused" -> "new"
      [] s = "completed" -> "served"
      [] s = "retired" -> "withdrawn"
      [] s \in {"selecting", "resetting"} -> "open"

Conditions == [d \in Docs |-> Condition(docState[d])]
Failures == [d \in Docs |-> IF docState[d] = "FAILED" THEN version[d] ELSE 0]
Standings == [r \in Requests |-> Standing(reqState[r])]
Retried == [r \in Requests |-> {d \in Docs : attempts[r][d] > 0}]

Promise == INSTANCE RetryOnce WITH
    Documents <- Docs,
    Retryable <- Docs \ (Contentless \cup Patched),
    Askers <- Requests,
    condition <- Conditions,
    failedAt <- Failures,
    now <- clock,
    asked <- Standings,
    until <- cutoff,
    retried <- Retried

\* Through selections in pages, resets that are replayed and failures of documents
\* and processes in between, each request is what that module says of it.
RetriesOnce == Promise!Spec

-----------------------------------------------------------------------------
(* What else every reachable state satisfies; with the invariants above it *)
(* is inductive.                                                           *)

\* Inside an operation a process holds the ticket that the operation needs.
TicketsFit ==
    /\ \A p \in Procs : pc[p] \in RetryLabels \cup {"clear", "drop"} => ticket[p] = "exclusive"
    /\ \A p \in Procs : pc[p] \in BatchLabels => ticket[p] = "shared"
    /\ \A p \in Procs : pc[p] \in {"idle", "called", "retry", "batches"} => ticket[p] = "none"
    /\ \A p, q \in Procs : p # q /\ ticket[p] = "exclusive" => ticket[q] = "none"

\* A batch owns what it works on, and works on nothing that waits for a request.
BatchesFit ==
    \A p \in Procs :
        /\ todo[p] # {} => pc[p] \in {"claiming", "batch"}
        /\ active[p] # {} => pc[p] = "batch"
        /\ \A d \in todo[p] \cup active[p] : claim[d] = p
        /\ pc[p] = "batch" =>
              /\ \A d \in todo[p] : docState[d] \in Automatic
              /\ \A d \in active[p] : docState[d] \in Automatic
              /\ todo[p] \cap active[p] = {}

\* The request a process serves is in the state its step expects.
RetriesFit ==
    \A p \in Procs :
        /\ pc[p] \in {"select", "targets", "reset", "ack"} => request[p] \in Requests
        /\ scanned[p] # {} => pc[p] = "select"
        /\ pc[p] = "select" => reqState[request[p]] = "selecting"
        /\ pc[p] \in {"targets", "reset", "ack"} => reqState[request[p]] = "resetting"
        /\ pc[p] \in {"reset", "ack"} => doc[p] \in Docs
        /\ pc[p] \in {"reset", "ack"} => target[request[p]][doc[p]] > 0

\* A write of the status store is later than everything recorded before.
TimesFit ==
    /\ \A d \in Docs : version[d] <= clock /\ (docState[d] = "absent" <=> version[d] = 0)
    /\ \A r \in Requests : cutoff[r] <= clock /\ (done[r] # {} => reqState[r] # "unused")
    /\ \A r \in Requests, d \in Docs :
          /\ target[r][d] <= cutoff[r]
          /\ target[r][d] > 0 => reqState[r] # "unused"
          /\ target[r][d] > 0 /\ 0 < version[d] /\ version[d] <= cutoff[r] =>
                version[d] = target[r][d]

\* An attempt is used up: the version it was made for is gone for good.
AttemptsFit ==
    \A r \in Requests, d \in Docs :
        attempts[r][d] > 0 => target[r][d] > 0 /\ version[d] # target[r][d]

\* A failure that precedes the cutoff.
Due(r, d) ==
    docState[d] = "FAILED" /\ d \notin Contentless \cup Patched /\ version[d] <= cutoff[r]

\* What the selection has paged over is a target, and a target that is not done
\* is still to be reset.
SelectionFits ==
    /\ \A p \in Procs : pc[p] = "select" =>
          \A d \in scanned[p] : Due(request[p], d) => target[request[p]][d] > 0
    /\ \A r \in Requests, d \in Docs :
          reqState[r] = "resetting" /\ Due(r, d) => target[r][d] > 0
    /\ \A r \in Requests : \A d \in done[r] : reqState[r] = "retired" \/ ~Due(r, d)
    /\ \A p \in Procs : pc[p] = "ack" => ~Due(request[p], doc[p])

\* The last command decides, and a pause is visible in the epoch.
CommandsFit ==
    /\ wanted <=> ~paused
    /\ \A p \in Procs : pc[p] \in BatchLabels =>
          observed[p] <= epoch /\ (overtaken[p] => observed[p] < epoch)

IInv ==
    TypeOK /\ TicketsFit /\ BatchesFit /\ RetriesFit /\ TimesFit /\ AttemptsFit
    /\ SelectionFits /\ CommandsFit /\ AtMostOneAttempt /\ CompletedRequestServed
=============================================================================
