---------------------------- MODULE LocalPipeline ----------------------------
(***************************************************************************)
(* The document pipeline of local mode: jobs of several worker processes   *)
(* share pipeline_status, whose flags reserve the writing of doc_status,   *)
(* and a mailbox that wakes the one run that processes documents           *)
(* (kg/shared_storage.py, kg/pipeline_ingress.py, pipeline.py).            *)
(*                                                                         *)
(* One action is one critical section of pipeline_status_lock, one request *)
(* to the mailbox or one write of doc_status.  A worker that dies keeps    *)
(* what it has reserved until another reservation is made.                 *)
(***************************************************************************)
EXTENDS Naturals, SequencesExt

CONSTANTS
    Procs,        \* worker processes
    Jobs,         \* requests, each served by one coroutine; a retry is named by its job
    ProcOf,       \* the process of a job
    Docs,         \* documents, numbered in the order of (created_at, id)
    DocOf,        \* the document that a job enqueues, finds or deletes
    Mixes,        \* what the jobs are asked for: [Jobs -> Kinds]
    PageSizes,    \* values of PIPELINE_SCHEDULING_PAGE_SIZE
    Failed,       \* documents that have failed before, by mix
    DocLimit,     \* capacity of the document channel
    MaxFaults,    \* bound: kills, failures and cancellations
    None          \* no job, or the end of a sweep

Kinds == {"none", "insert", "upload", "retry", "scan", "delete", "batch"}

ASSUME LocalAssumption ==
    /\ IsFiniteSet(Docs) /\ Docs = 1..Cardinality(Docs)
    /\ ProcOf \in [Jobs -> Procs]
    /\ DocOf \in [Jobs -> Docs]
    /\ Mixes \subseteq [Jobs -> Kinds]
    /\ PageSizes \subseteq Nat
    /\ Failed \in [Mixes -> SUBSET Docs]
    /\ DocLimit \in Nat \ {0}
    /\ MaxFaults \in Nat
    /\ None \notin Jobs \cup Nat

VARIABLES
    kind,         \* what a job is asked for
    pageSize,     \* 0: a sweep is one scan
    status,       \* pipeline_status
    mailbox,      \* PipelineIngressMailbox
    doc,          \* doc_status
    pc,           \* where a job is
    run,          \* what a run keeps between two steps
    \* What has happened, for the properties.
    due,          \* failed documents that a retry still has to reset
    lapsed,       \* a fault took away a run that owed work, and none has started since
    faults

settings == <<kind, pageSize>>
vars == <<settings, status, mailbox, doc, pc, run, due, lapsed, faults>>

NoRun == [todo |-> {}, inflight |-> {}, cursor |-> None, wake |-> FALSE]
Runs ==
    [todo : SUBSET Docs,           \* documents of the batch that are not finished
     inflight : SUBSET Docs,       \* those it has taken in
     cursor : Nat \cup {None},     \* of the sweep
     wake : BOOLEAN]               \* uncommitted_wakeup

Statuses ==
    [busy : Jobs \cup {None},                \* busy, busy_owner
     kind : {"none", "processing", "delete", "batch"},
     scanning : Jobs \cup {None},            \* scanning, scanning_owner
     exclusive : BOOLEAN,                    \* scanning_exclusive
     tokens : SUBSET Jobs,                   \* pending_enqueue_tokens
     phase : {"idle", "drain", "reset"},     \* manual_phase; frozen unless idle
     request : Jobs \cup {None},             \* manual_owner
     deferred : BOOLEAN,                     \* scan_deferred_processing
     cancel : BOOLEAN,                       \* cancellation_requested
     recovery : BOOLEAN]                     \* recovery_required
Mailboxes == [docs : SUBSET Docs, auto : BOOLEAN, manual : Seq(Jobs)]

\* Where a job holds busy.
Reserving ==
    {"hold", "quiet", "delete", "leave", "handoff", "peek", "freeze", "page",
     "validate", "work", "decide", "documents", "wait", "confirm", "reset", "ack",
     "thaw", "exit"}
Places ==
    {"start", "write", "unreserve", "publish", "release", "request", "claim",
     "narrow", "giveup", "unscan", "again", "drive", "done", "dead"} \cup Reserving

TypeOK ==
    /\ kind \in Mixes
    /\ pageSize \in PageSizes
    /\ status \in Statuses
    /\ mailbox \in Mailboxes
    /\ doc \in [Docs -> {"none", "pending", "processing", "processed", "failed"}]
    /\ pc \in [Jobs -> Places]
    /\ run \in [Jobs -> Runs]
    /\ due \in [Jobs -> SUBSET Docs]
    /\ lapsed \in BOOLEAN
    /\ faults \in Nat

Init ==
    /\ kind \in Mixes
    /\ pageSize \in PageSizes
    /\ status = [busy |-> None, kind |-> "none", scanning |-> None, exclusive |-> FALSE,
                 tokens |-> {}, phase |-> "idle", request |-> None,
                 deferred |-> FALSE, cancel |-> FALSE, recovery |-> FALSE]
    /\ mailbox = [docs |-> {}, auto |-> FALSE, manual |-> <<>>]
    /\ doc = [d \in Docs |-> IF d \in Failed[kind] THEN "failed" ELSE "none"]
    /\ pc = [j \in Jobs |-> IF kind[j] = "none" THEN "done" ELSE "start"]
    /\ run = [j \in Jobs |-> NoRun]
    /\ due = [j \in Jobs |-> {}]
    /\ lapsed = FALSE
    /\ faults = 0

Sweep == [NoRun EXCEPT !.cursor = 0]
Goto(j, l) == pc' = [pc EXCEPT ![j] = l]
Keep(j, r) == run' = [run EXCEPT ![j] = r]
Rows(states) == {d \in Docs : doc[d] \in states}
AutoResume == {"pending", "processing"}
\* Mutant of Armed: who is turned away leaves nothing behind.
Unarmed(m) == m
Armed(m) == [m EXCEPT !.auto = TRUE]

-----------------------------------------------------------------------------
(* Reservations.                                                           *)

Unfrozen(s) == [s EXCEPT !.phase = "idle", !.request = None]
Released(s) == [Unfrozen(s) EXCEPT !.busy = None, !.kind = "none"]
\* What dead workers hold is given back; only a run can simply be run again.
DeadBusy(s) ==
    IF s.busy = None \/ pc[s.busy] # "dead" THEN s
    ELSE [Released(s) EXCEPT !.recovery = @ \/ s.kind # "processing"]
DeadScan(s) ==
    IF s.scanning = None \/ pc[s.scanning] # "dead" THEN s
    ELSE [s EXCEPT !.scanning = None, !.exclusive = FALSE]
DeadTokens(s) == [s EXCEPT !.tokens = {j \in @ : pc[j] # "dead"}]
Reaped == DeadTokens(DeadScan(DeadBusy(status)))

\* Mutant of Enqueuing: nobody is waited for.
NobodyEnqueues == FALSE
Enqueuing == status.tokens # {}     \* pending_enqueues > 0
Enqueues(j) == kind[j] \in {"insert", "upload"}
Refused(j, s) ==
    \/ s.recovery
    \/ Enqueues(j) /\ (s.exclusive \/ s.kind = "batch" \/ s.phase # "idle")
    \/ kind[j] = "retry" /\ s.kind = "batch"
    \/ kind[j] \in {"scan", "delete", "batch"} /\ s.busy # None
    \/ kind[j] \in {"scan", "batch"} /\ (s.scanning # None \/ s.tokens # {})
    \/ kind[j] = "scan" /\ (s.phase # "idle" \/ mailbox.manual # <<>>)

\* request_manual_retry(): FIFO.
Publish(m, j) == [m EXCEPT !.manual = Append(@, j)]
Request(j) ==
    /\ mailbox' = Publish(mailbox, j)
    /\ due' = [due EXCEPT ![j] = Rows({"failed"})]

Admit(j) ==
    LET s == Reaped IN
    /\ pc[j] = "start"
    /\ \/ /\ Refused(j, s)
          /\ status' = s
          /\ Goto(j, "done")
          /\ UNCHANGED <<mailbox, due>>
       \/ /\ ~Refused(j, s) /\ Enqueues(j)
          /\ status' = [s EXCEPT !.tokens = @ \cup {j}]
          /\ Goto(j, "write")
          /\ UNCHANGED <<mailbox, due>>
       \/ /\ ~Refused(j, s) /\ kind[j] = "retry"
          /\ status' = s
          /\ Request(j)
          /\ Goto(j, "drive")
       \/ /\ ~Refused(j, s) /\ kind[j] = "scan"
          /\ status' = [s EXCEPT !.scanning = j, !.exclusive = TRUE]
          /\ Goto(j, "request")
          /\ UNCHANGED <<mailbox, due>>
       \/ /\ ~Refused(j, s) /\ kind[j] \in {"delete", "batch"}
          /\ status' = [s EXCEPT !.busy = j, !.kind = kind[j],
                                 !.cancel = @ /\ kind[j] = "batch"]
          /\ Goto(j, "delete")
          /\ UNCHANGED <<mailbox, due>>
    /\ UNCHANGED <<settings, doc, run, lapsed, faults>>

-----------------------------------------------------------------------------
(* Enqueueing: an SDK insert gives its token back before it wakes the run,  *)
(* an upload of the API holds it until its drive has returned.  Documents   *)
(* are new, except that a scan may find one that is there already.          *)

Write(j) ==
    LET d == DocOf[j]
        new == doc[d] = "none"
        next == CASE kind[j] = "insert" -> "unreserve"
                  [] kind[j] = "scan" /\ ~new -> "narrow"
                  [] OTHER -> "publish"
    IN  /\ pc[j] = "write"
        /\ new \/ kind[j] = "scan"
        /\ doc' = IF new THEN [doc EXCEPT ![d] = "pending"] ELSE doc
        /\ Goto(j, next)
        /\ UNCHANGED <<settings, status, mailbox, run, due, lapsed, faults>>

Unreserve(j) ==
    /\ pc[j] \in {"unreserve", "release"}
    /\ status' = [status EXCEPT !.tokens = @ \ {j}]
    /\ Goto(j, IF pc[j] = "unreserve" THEN "publish" ELSE "done")
    /\ UNCHANGED <<settings, mailbox, doc, run, due, lapsed, faults>>

\* A full channel arms the rescan instead.
PutDocument(j) ==
    /\ pc[j] = "publish"
    /\ mailbox' = IF Cardinality(mailbox.docs) < DocLimit
                  THEN [mailbox EXCEPT !.docs = @ \cup {DocOf[j]}]
                  ELSE Armed(mailbox)
    /\ Goto(j, IF kind[j] = "scan" THEN "narrow" ELSE "drive")
    /\ UNCHANGED <<settings, status, doc, run, due, lapsed, faults>>

\* Where a job goes on when its drive has returned.
Returned(j) ==
    CASE kind[j] = "upload" -> "release"
      [] kind[j] = "scan" /\ status.scanning = j -> "unscan"
      [] OTHER -> "done"

-----------------------------------------------------------------------------
(* A scan: its own retry first, then it enqueues what it finds, then a run. *)

RequestOwn(j) ==
    /\ pc[j] = "request"
    /\ Request(j)
    /\ Goto(j, "claim")
    /\ UNCHANGED <<settings, status, doc, run, lapsed, faults>>

\* apipeline_reset_failed_for_scan() takes busy inside the fence of the scan.
Claim(j) ==
    LET s == Reaped
        free == ~s.recovery /\ s.busy = None
    IN  /\ pc[j] = "claim"
        /\ status' = IF free THEN [s EXCEPT !.busy = j, !.kind = "processing",
                                            !.cancel = FALSE]
                             ELSE s
        /\ mailbox' = IF s.busy = None THEN mailbox ELSE Armed(mailbox)
        /\ Goto(j, IF free THEN "hold" ELSE "giveup")
        /\ UNCHANGED <<settings, doc, run, due, lapsed, faults>>

Hold(j) ==
    /\ pc[j] = "hold"
    /\ status' = [status EXCEPT !.phase = "drain", !.request = j]
    /\ Goto(j, "quiet")
    /\ UNCHANGED <<settings, mailbox, doc, run, due, lapsed, faults>>

\* _confirm_scan_drain_idle(), and the phase of _run_exclusive_failed_reset().
Quiet(j) ==
    /\ pc[j] = "quiet"
    /\ status' = IF Enqueuing THEN status ELSE [status EXCEPT !.phase = "reset"]
    /\ Keep(j, Sweep)
    /\ Goto(j, IF Enqueuing THEN "exit" ELSE "reset")
    /\ UNCHANGED <<settings, mailbox, doc, due, lapsed, faults>>

Classifying(j) == status.scanning = j /\ status.exclusive

Narrow(j) ==
    /\ pc[j] = "narrow"
    /\ status' = [status EXCEPT !.exclusive = @ /\ status.scanning # j]
    /\ Goto(j, "drive")
    /\ UNCHANGED <<settings, mailbox, doc, run, due, lapsed, faults>>

\* A scan that was given up drives the queue itself, the others if their fence
\* has turned a drive away.
Unscan(j) ==
    /\ pc[j] \in {"giveup", "unscan"}
    /\ status' = IF status.scanning = j
                 THEN [status EXCEPT !.scanning = None, !.exclusive = FALSE]
                 ELSE status
    /\ Goto(j, IF pc[j] = "giveup" THEN "drive" ELSE "again")
    /\ UNCHANGED <<settings, mailbox, doc, run, due, lapsed, faults>>

Again(j) ==
    /\ pc[j] = "again"
    /\ Goto(j, IF status.deferred THEN "drive" ELSE "done")
    /\ UNCHANGED <<settings, status, mailbox, doc, run, due, lapsed, faults>>

-----------------------------------------------------------------------------
(* Deletions: of one document by the SDK, and of a batch by the API.       *)

Delete(j) ==
    /\ pc[j] = "delete"
    /\ doc' = [doc EXCEPT ![DocOf[j]] = "none"]
    /\ due' = [r \in Jobs |-> due[r] \ {DocOf[j]}]
    /\ Goto(j, "leave")
    /\ UNCHANGED <<settings, status, mailbox, run, lapsed, faults>>

\* Mutant of HasWork: the document channel is the only one.
HasDocuments == mailbox.docs # {}
HasWork == mailbox.docs # {} \/ mailbox.auto \/ mailbox.manual # <<>>

Leave(j) ==
    LET held == HasWork /\ kind[j] = "delete"
        next == IF held THEN "handoff" ELSE IF HasWork THEN "drive" ELSE "done"
    IN  /\ pc[j] = "leave"
        /\ status' = [(IF held THEN status ELSE Released(status)) EXCEPT !.cancel = FALSE]
        /\ Goto(j, next)
        /\ UNCHANGED <<settings, mailbox, doc, run, due, lapsed, faults>>

-----------------------------------------------------------------------------
(* A run: apipeline_process_enqueue_documents().                           *)

\* acquire_processing_reservation().
Drive(j) ==
    LET s == Reaped
        held == pc[j] = "handoff"
        fenced == s.exclusive /\ ~held
        taken == s.busy # None /\ ~held
    IN  /\ pc[j] \in {"drive", "handoff"}
        /\ \/ /\ s.recovery
              /\ status' = s
              /\ Goto(j, IF held THEN "exit" ELSE Returned(j))
              /\ UNCHANGED <<mailbox, lapsed>>
           \/ /\ ~s.recovery /\ fenced
              /\ status' = [s EXCEPT !.deferred = TRUE]
              /\ Goto(j, Returned(j))
              /\ UNCHANGED <<mailbox, lapsed>>
           \/ /\ ~s.recovery /\ ~fenced /\ taken
              /\ status' = s
              /\ mailbox' = Armed(mailbox)
              /\ Goto(j, Returned(j))
              /\ UNCHANGED lapsed
           \/ /\ ~s.recovery /\ ~fenced /\ ~taken
              /\ status' = [s EXCEPT !.busy = j, !.kind = "processing",
                                     !.deferred = FALSE, !.cancel = FALSE]
              /\ lapsed' = FALSE
              /\ Goto(j, "peek")
              /\ UNCHANGED mailbox
        /\ UNCHANGED <<settings, doc, run, due, faults>>

Peek(j) ==
    /\ pc[j] = "peek"
    /\ IF mailbox.manual # <<>>
       THEN Goto(j, "freeze") /\ UNCHANGED <<mailbox, run>>
       ELSE /\ mailbox' = [mailbox EXCEPT !.auto = FALSE]
            /\ Keep(j, [Sweep EXCEPT !.wake = mailbox.auto])
            /\ Goto(j, "page")
    /\ UNCHANGED <<settings, status, doc, due, lapsed, faults>>

\* _begin_manual_drain().
Freeze(j) ==
    /\ pc[j] = "freeze"
    /\ status' = IF status.busy = j
                 THEN [status EXCEPT !.phase = "drain", !.request = Head(mailbox.manual)]
                 ELSE status
    /\ Keep(j, Sweep)
    /\ Goto(j, "page")
    /\ UNCHANGED <<settings, mailbox, doc, due, lapsed, faults>>

\* A keyset page of S, and the cursor after it; a full page is never the last one.
Page(S, c) ==
    LET rest == {d \in S : d > c} IN
    IF pageSize = 0 THEN S ELSE {d \in rest : Cardinality({e \in rest : e < d}) < pageSize}
\* Mutant of NextCursor: one page is all there is.
OnePage(page) == None
NextCursor(page) ==
    IF pageSize = 0 \/ Cardinality(page) < pageSize
    THEN None
    ELSE CHOOSE d \in page : \A e \in page : e <= d

Fetch(j) ==
    LET page == Page(Rows(AutoResume), run[j].cursor) IN
    /\ pc[j] = "page"
    /\ Keep(j, [todo |-> page, inflight |-> page, cursor |-> NextCursor(page),
                wake |-> run[j].wake /\ page # {}])
    /\ Goto(j, IF page = {} THEN "decide" ELSE "validate")
    /\ UNCHANGED <<settings, status, mailbox, doc, due, lapsed, faults>>

\* The top of the loop, and _validate_and_fix_document_consistency(): documents of
\* runs that were interrupted are pending again.
Validate(j) ==
    /\ pc[j] = "validate"
    /\ IF status.cancel
       THEN Goto(j, "exit") /\ UNCHANGED <<doc, run>>
       ELSE /\ doc' = [d \in Docs |-> IF d \in run[j].todo /\ doc[d] = "processing"
                                      THEN "pending" ELSE doc[d]]
            /\ Keep(j, [run[j] EXCEPT !.wake = FALSE])
            /\ Goto(j, "work")
    /\ UNCHANGED <<settings, status, mailbox, due, lapsed, faults>>

\* The workers of a batch; a cancelled batch fails what it has not begun.
Begin(j, d) ==
    /\ pc[j] = "work"
    /\ d \in run[j].todo
    /\ doc[d] = "pending"
    /\ doc' = [doc EXCEPT ![d] = IF status.cancel THEN "failed" ELSE "processing"]
    /\ Keep(j, IF status.cancel THEN [run[j] EXCEPT !.todo = @ \ {d}] ELSE run[j])
    /\ UNCHANGED <<settings, status, mailbox, pc, due, lapsed, faults>>

Finish(j, d) ==
    /\ pc[j] = "work"
    /\ d \in run[j].todo
    /\ doc[d] = "processing"
    /\ \E end \in {"processed", "failed"} : doc' = [doc EXCEPT ![d] = end]
    /\ Keep(j, [run[j] EXCEPT !.todo = @ \ {d}])
    /\ UNCHANGED <<settings, status, mailbox, pc, due, lapsed, faults>>

\* The feeder takes a message; what is not pending or is in the batch is dropped.
Feed(j, d) ==
    LET r == run[j]
        new == IF doc[d] = "pending" THEN {d} \ r.inflight ELSE {}
    IN  /\ pc[j] = "work"
        /\ d \in mailbox.docs
        /\ ~status.cancel /\ mailbox.manual = <<>>
        /\ IF pageSize = 0 THEN ~mailbox.auto ELSE Cardinality(r.inflight) < pageSize
        /\ mailbox' = [mailbox EXCEPT !.docs = @ \ {d}]
        /\ Keep(j, [r EXCEPT !.todo = @ \cup new, !.inflight = @ \cup new])
        /\ UNCHANGED <<settings, status, doc, pc, due, lapsed, faults>>

EndBatch(j) ==
    /\ pc[j] = "work"
    /\ run[j].todo = {}
    /\ Goto(j, "decide")
    /\ UNCHANGED <<settings, status, mailbox, doc, run, due, lapsed, faults>>

-----------------------------------------------------------------------------
(* _decide_pipeline_next_step(), and the steps it leads to.                 *)

Decision(j) ==
    IF status.cancel THEN "exit"
    ELSE IF status.phase = "idle" /\ mailbox.manual # <<>> THEN "freeze"
    ELSE IF run[j].cursor # None THEN "page"
    ELSE IF mailbox.auto THEN "auto"
    ELSE IF mailbox.docs # {} THEN "documents"
    ELSE IF status.phase = "idle" THEN "release"
    ELSE IF Enqueuing THEN "wait"
    ELSE "confirm"

Decide(j) ==
    /\ pc[j] = "decide"
    /\ \/ /\ Decision(j) \notin {"auto", "release"}
          /\ Goto(j, Decision(j))
          /\ UNCHANGED <<status, mailbox, run>>
       \/ /\ Decision(j) = "auto"
          /\ mailbox' = [mailbox EXCEPT !.auto = FALSE]
          /\ Keep(j, [Sweep EXCEPT !.wake = TRUE])
          /\ Goto(j, "page")
          /\ UNCHANGED status
       \/ /\ Decision(j) = "release"
          /\ status' = [status EXCEPT !.busy = None, !.kind = "none"]
          /\ Keep(j, NoRun)
          /\ Goto(j, Returned(j))
          /\ UNCHANGED mailbox
    /\ UNCHANGED <<settings, doc, due, lapsed, faults>>

\* The messages are taken before the sweep that finds their rows.
Drain(j) ==
    /\ pc[j] = "documents"
    /\ mailbox' = [mailbox EXCEPT !.docs = {}]
    /\ Keep(j, [Sweep EXCEPT !.wake = TRUE])
    /\ Goto(j, "page")
    /\ UNCHANGED <<settings, status, doc, due, lapsed, faults>>

Wait(j) ==
    /\ pc[j] = "wait"
    /\ status' = Reaped
    /\ Goto(j, "decide")
    /\ UNCHANGED <<settings, mailbox, doc, run, due, lapsed, faults>>

\* _confirm_auto_drained(): the drain goes on, or the reset begins.
Confirm(j) ==
    LET page == Page(Rows(AutoResume), 0) IN
    /\ pc[j] = "confirm"
    /\ IF page # {}
       THEN /\ Keep(j, [NoRun EXCEPT !.todo = page, !.inflight = page,
                                     !.cursor = NextCursor(page)])
            /\ Goto(j, "validate")
            /\ UNCHANGED status
       ELSE /\ status' = [status EXCEPT !.phase = "reset"]
            /\ Keep(j, Sweep)
            /\ Goto(j, "reset")
    /\ UNCHANGED <<settings, mailbox, doc, due, lapsed, faults>>

\* A page of _run_exclusive_failed_reset(), written by the owner only.
Reset(j) ==
    LET page == Page(Rows({"failed"}), run[j].cursor)
        owns == status.busy = j
        next == NextCursor(page)
    IN  /\ pc[j] = "reset"
        /\ doc' = [d \in Docs |-> IF owns /\ d \in page THEN "pending" ELSE doc[d]]
        /\ due' = [r \in Jobs |-> IF owns THEN due[r] \ page ELSE due[r]]
        /\ Keep(j, [run[j] EXCEPT !.cursor = next])
        /\ Goto(j, IF ~owns THEN "exit" ELSE IF next = None THEN "ack" ELSE "reset")
        /\ UNCHANGED <<settings, status, mailbox, lapsed, faults>>

Acked(s, r) ==
    IF \E i \in DOMAIN s : s[i] = r THEN RemoveAt(s, CHOOSE i \in DOMAIN s : s[i] = r) ELSE s
Ack(j) ==
    /\ pc[j] = "ack"
    /\ mailbox' = [mailbox EXCEPT !.manual = Acked(@, status.request)]
    /\ Goto(j, "thaw")
    /\ UNCHANGED <<settings, status, doc, run, due, lapsed, faults>>

\* _end_manual_drain(); a scan gives busy back as well and goes on to discover.
Thaw(j) ==
    /\ pc[j] = "thaw"
    /\ status' = CASE status.busy # j -> status
                   [] Classifying(j) -> Released(status)
                   [] OTHER -> Unfrozen(status)
    /\ Keep(j, IF Classifying(j) THEN NoRun ELSE Sweep)
    /\ Goto(j, IF Classifying(j) THEN "write" ELSE "page")
    /\ UNCHANGED <<settings, mailbox, doc, due, lapsed, faults>>

\* The finally of a run that was cancelled or has failed.
Exit(j) ==
    /\ pc[j] = "exit"
    /\ status' = IF status.busy # j THEN status
                 ELSE [Released(status) EXCEPT !.cancel = @ /\ Classifying(j)]
    /\ mailbox' = IF run[j].wake THEN Armed(mailbox) ELSE mailbox
    /\ Keep(j, NoRun)
    /\ Goto(j, IF Classifying(j) THEN "giveup" ELSE Returned(j))
    /\ UNCHANGED <<settings, doc, due, lapsed, faults>>

-----------------------------------------------------------------------------
(* Faults.                                                                 *)

Running == {"peek", "freeze", "page", "validate", "work", "decide", "documents",
            "wait", "confirm", "reset", "ack", "thaw", "hold", "quiet"}

Fault ==
    /\ faults < MaxFaults
    /\ faults' = faults + 1
    /\ lapsed' = TRUE

\* A storage or a request fails; a sweep that goes on arms the rescan.
Fail(j) ==
    /\ Fault
    /\ pc[j] \in Running
    /\ mailbox' = IF pc[j] = "page" /\ run[j].cursor # 0 THEN Armed(mailbox) ELSE mailbox
    /\ Goto(j, "exit")
    /\ UNCHANGED <<settings, status, doc, run, due>>

Cancel ==
    /\ Fault
    /\ status.busy # None
    /\ status' = [status EXCEPT !.cancel = TRUE]
    /\ UNCHANGED <<settings, mailbox, doc, pc, run, due>>

Kill(p) ==
    /\ Fault
    /\ pc' = [j \in Jobs |-> IF ProcOf[j] = p /\ pc[j] # "done" THEN "dead" ELSE pc[j]]
    /\ run' = [j \in Jobs |-> IF ProcOf[j] = p THEN NoRun ELSE run[j]]
    /\ UNCHANGED <<settings, status, mailbox, doc, due>>

-----------------------------------------------------------------------------
RunStep(j) ==
    \/ Peek(j) \/ Freeze(j) \/ Fetch(j) \/ Validate(j) \/ EndBatch(j)
    \/ Decide(j) \/ Drain(j) \/ Wait(j) \/ Confirm(j) \/ Reset(j) \/ Ack(j)
    \/ Thaw(j) \/ Exit(j)
    \/ \E d \in Docs : Begin(j, d) \/ Finish(j, d) \/ Feed(j, d)
JobStep(j) ==
    \/ Write(j) \/ Unreserve(j) \/ PutDocument(j)
    \/ RequestOwn(j) \/ Claim(j) \/ Hold(j) \/ Quiet(j) \/ Narrow(j)
    \/ Unscan(j) \/ Again(j) \/ Delete(j) \/ Leave(j) \/ Drive(j)

Next ==
    \/ \E j \in Jobs : Admit(j) \/ JobStep(j) \/ RunStep(j) \/ Fail(j)
    \/ \E p \in Procs : Kill(p)
    \/ Cancel

Spec == Init /\ [][Next]_vars

\* Every coroutine of a living worker goes on.  Nobody has to ask for anything.
Fairness == \A j \in Jobs : WF_vars(JobStep(j) \/ RunStep(j))
FairSpec == Spec /\ Fairness

-----------------------------------------------------------------------------
(* Properties.                                                             *)

Processes(j) == pc[j] \in {"validate", "work"}
Classifies(j) == Classifying(j) /\ pc[j] \in {"write", "publish", "narrow"}
Stores(j) == Enqueues(j) /\ pc[j] \in {"write", "unreserve"}
Deletes(j) == pc[j] = "delete"
Resets(j) == pc[j] = "reset"

\* Of the jobs that write doc_status, only those work side by side that may: a
\* batch or a deletion of the SDK and those that enqueue.  The classification of
\* a scan is not kept from the SDK's deletion of one document, nor from the run
\* to which that hands its reservation.
WritersApart ==
    \A j, k \in Jobs : j # k =>
        /\ Processes(j) => ~Processes(k) /\ ~Deletes(k) /\ ~Resets(k)
        /\ Resets(j) => ~Resets(k) /\ ~Deletes(k) /\ ~Stores(k)
        /\ Deletes(j) => ~Deletes(k)
        /\ Stores(j) => ~Classifies(k) /\ ~(Deletes(k) /\ kind[k] = "batch")
        /\ Classifies(j) =>
             /\ ~Classifies(k)
             /\ Processes(k) \/ Deletes(k) \/ Resets(k) => kind[k] = "delete"

\* A retry is acknowledged only when every document that had failed when it was
\* asked for has been made pending or deleted, in however many attempts, pages
\* and runs.
Waits(r) == \E i \in DOMAIN mailbox.manual : mailbox.manual[i] = r
AckedIsReset == [][\A r \in Jobs : Waits(r) /\ ~Waits(r)' => due[r] = {}]_vars

\* A run reads the whole queue of PENDING rows again, or its sweep or its batch
\* still has to come to the document.
WillRead(j, d) ==
    \/ pc[j] \in {"peek", "freeze", "documents", "confirm", "reset", "ack", "thaw"}
    \/ /\ pc[j] \in {"page", "validate", "work", "decide"}
       /\ run[j].cursor # None /\ run[j].cursor < d
    \/ pc[j] \in {"validate", "work"} /\ d \in run[j].todo
\* A job that will ask for a run of its own.
WillDrive(j) ==
    \/ pc[j] \in {"write", "unreserve", "publish", "request", "claim", "narrow",
                  "giveup", "drive", "handoff", "hold", "quiet"}
    \/ Classifying(j) /\ pc[j] \in {"reset", "ack", "thaw", "exit"}
WillLook(j) == WillDrive(j) \/ pc[j] \in Reserving \ {"exit"}

Queued == mailbox.docs # {} \/ mailbox.auto \/ \E r \in Jobs : Waits(r)

\* Unless a fault took away the run that owed it, what is queued has somebody who
\* comes to it: whoever has found the pipeline busy or fenced, and every message
\* that was taken out of the mailbox or dropped, has left a run, a job that will
\* drive one, or a flag that one of them looks at before it goes.
WorkIsOwned ==
    ~lapsed /\ ~status.recovery =>
        /\ Queued => \E j \in Jobs : WillLook(j)
        /\ \A d \in Rows(AutoResume) :
              \/ mailbox.auto \/ (doc[d] = "pending" /\ d \in mailbox.docs)
              \/ \E j \in Jobs : WillDrive(j) \/ WillRead(j, d)

-----------------------------------------------------------------------------
(* The inductive invariant.                                                *)

Frozen == {"confirm", "reset", "ack", "thaw"}

\* Where a job is says what it holds.
JobsHold ==
    \A j \in Jobs :
        /\ pc[j] \in Reserving => status.busy = j
        /\ pc[j] \in Frozen => status.phase # "idle"
        /\ Stores(j) => j \in status.tokens
        /\ pc[j] \in {"request", "claim"} => status.scanning = j

KindsFit ==
    /\ status.scanning # None => kind[status.scanning] = "scan"
    /\ \A j \in Jobs :
           /\ pc[j] = "delete" => kind[j] \in {"delete", "batch"} /\ status.kind = kind[j]
           /\ pc[j] = "handoff" => kind[j] = "delete"
           /\ pc[j] = "unreserve" => kind[j] = "insert"

\* Who wants to be alone with doc_status is, from its admission on.
IntakeStopped ==
    \A j, k \in Jobs :
        Stores(k) =>
            /\ pc[j] \notin Frozen
            /\ ~Classifies(j)
            /\ ~(Deletes(j) /\ kind[j] = "batch")
ClassifiesAlone ==
    \A j, k \in Jobs :
        Classifies(j) /\ pc[k] \in Reserving => kind[k] = "delete"

\* A request was made before it is served, and names what is still failed.
RetriesFit ==
    /\ \A r \in Jobs : Waits(r) \/ status.request = r => pc[r] \notin {"start", "request"}
    /\ \A r \in Jobs : due[r] \subseteq Rows({"failed"})
    /\ \A j \in Jobs : pc[j] = "freeze" => mailbox.manual # <<>>

\* What a reset has paged over is not due any more.
ResetsFit ==
    \A j, r \in Jobs :
        /\ pc[j] = "reset" =>
               /\ run[j].cursor \in Nat
               /\ status.request = r => \A d \in due[r] : run[j].cursor < d
        /\ pc[j] = "ack" /\ status.request = r => due[r] = {}

IInv ==
    /\ TypeOK
    /\ JobsHold /\ KindsFit /\ IntakeStopped /\ ClassifiesAlone
    /\ RetriesFit /\ ResetsFit

\* What is reserved is held by a job at one of these places, or by a dead one.
HoldersFit ==
    /\ status.busy # None => pc[status.busy] \in Reserving \cup {"dead"}
    /\ status.exclusive =>
           /\ status.scanning # None
           /\ pc[status.scanning] \in
                {"request", "claim", "hold", "quiet", "reset", "ack", "thaw", "exit",
                 "write", "publish", "narrow", "giveup", "dead"}
    /\ \A j \in Jobs : pc[j] \in {"request", "claim", "hold", "quiet"} => Classifying(j)

\* A document that a batch has taken in and not finished is one of its todo.
BatchesFit ==
    \A j \in Jobs :
        pc[j] \in {"validate", "work"} =>
            \A d \in run[j].inflight :
                doc[d] # "none" /\ (doc[d] \in AutoResume => d \in run[j].todo)

\* Since a run has started nothing has failed.
NothingLost ==
    ~lapsed /\ ~status.recovery =>
        /\ ~status.cancel
        /\ status.busy # None => pc[status.busy] # "dead"
        /\ status.scanning # None => pc[status.scanning] # "dead"
        /\ \A j \in Jobs : pc[j] = "exit" => Classifying(j)

OwnInv == HoldersFit /\ BatchesFit /\ NothingLost /\ WorkIsOwned

\* A run of an upload waits for the token of its own upload.
WaitsForItself ==
    status.phase = "drain" /\ status.busy \in status.tokens

\* Whatever is enqueued is processed and every retry is served, unless a fault
\* took away the run that owed it and nobody has asked for another.
Excused == lapsed \/ status.recovery \/ WaitsForItself
Served ==
    /\ \A d \in Docs : doc[d] \in AutoResume ~> doc[d] \notin AutoResume \/ Excused
    /\ \A r \in Jobs : Waits(r) ~> ~Waits(r) \/ Excused

\* The freeze in which uploads are refused comes to an end.
DrainEnds == status.phase = "drain" ~> status.phase # "drain" \/ lapsed
=============================================================================
