------------------------- MODULE ReleaseOrchestrator -------------------------
(***************************************************************************)
(* The run of a release: module ReleaseHandover composed with the runner   *)
(* of release/orchestrator.py and delivery.py and the entry route that     *)
(* release/transport.py switches between the slots.                        *)
(*                                                                         *)
(* One runner exists at a time (a session lock), it may stop between any   *)
(* two of its calls, and the next one reads the phase and the route again. *)
(* The selector of the Service is changed by PATCH requests that name the  *)
(* version they replace.  One whose answer does not come in time may still *)
(* be applied.                                                             *)
(***************************************************************************)
EXTENDS ReleaseHandover

CONSTANTS
    MaxDelayed    \* bound: PATCH requests that are not answered in time

ASSUME MaxDelayedAssumption == MaxDelayed \in Nat

VARIABLES
    runner,     \* action of the runner, or "none"
    route,      \* slot in the selector of the Service, or "both"
    delayed,    \* slots that late requests would set; they name the current version
    delays,     \* how many were delayed so far
    prepared    \* how far the preparation of a release has come

routing == <<runner, route, delayed, delays, prepared>>
allVars == <<vars, routing>>

Actions == {"advance", "abort", "rollback"}

RouteTypeOK ==
    /\ runner \in Actions \cup {"none"}
    /\ route \in Slots \cup {"both"}
    /\ delayed \subseteq Slots \cup {"both"}
    /\ delays \in 0..MaxDelayed
    /\ prepared \in [Releases -> {"no", "captured", "deployed"}]

RouteInit ==
    /\ Init
    /\ runner = "none"
    /\ route = "blue"
    /\ delayed = {}
    /\ delays = 0
    /\ prepared = [r \in Releases |-> "no"]

-----------------------------------------------------------------------------
(* The runner.                                                             *)

Launch(a) ==
    /\ runner = "none"
    /\ runner' = a
    /\ UNCHANGED <<vars, route, delayed, delays, prepared>>

\* The runner returns, fails or is killed; whatever it did stays.
Exit ==
    /\ runner # "none"
    /\ runner' = "none"
    /\ UNCHANGED <<vars, route, delayed, delays, prepared>>

\* Mutant of GiveUp: the wrong phase is looked at.
GiveUpDraining ==
    /\ runner = "advance"
    /\ phase = "DRAINING" /\ expired
    /\ runner' = "abort"
    /\ UNCHANGED <<vars, route, delayed, delays, prepared>>
\* run(): a drain that took too long turns into an abort.
GiveUp ==
    /\ runner = "advance"
    /\ phase = "READ_SWITCHED" /\ expired
    /\ runner' = "abort"
    /\ UNCHANGED <<vars, route, delayed, delays, prepared>>

-----------------------------------------------------------------------------
(* The route.                                                              *)

\* verified_pods(): every pod of a slot is ready, with the configuration f.
VerifiedPods(s, f) ==
    /\ Ready(s, f)
    /\ \A i \in Available(s) : life[i] = "up" /\ i \notin halted
    /\ ~fenced /\ ~Orphans
    /\ \A c \in Commands : cState[c] # "UNCERTAIN"

\* expected_slot(): what the slot from before the release should run is known only
\* when its artifact was captured.
Expected(s) ==
    /\ identity # None
    /\ s = previous[identity].slot => prepared[identity] # "no"
Verified(s) ==
    /\ Expected(s)
    /\ VerifiedPods(s, IF s = previous[identity].slot THEN previous[identity].config
                                                      ELSE NewConfig[identity])

\* verify_candidate() and verify_rollback_candidate(): both slots, that their
\* commands and authentication can be compared.
VerifiedCandidate(s) == Verified(s) /\ Verified(activeSlot)

\* prepare(): the artifact of the active slot is observed and recorded.
Capture(r) ==
    /\ runner = "advance"
    /\ Owns(r, {"PREPARED"})
    /\ VerifiedPods(activeSlot, config)
    /\ prepared[r] = "no"
    /\ prepared' = [prepared EXCEPT ![r] = "captured"]
    /\ UNCHANGED <<vars, runner, route, delayed, delays>>
\* Then the Deployment of the candidate is created, or given the candidate's pods.
Deploy(r) ==
    /\ runner = "advance"
    /\ Owns(r, {"PREPARED"})
    /\ prepared[r] = "captured"
    /\ prepared' = [prepared EXCEPT ![r] = "deployed"]
    /\ UNCHANGED <<vars, runner, route, delayed, delays>>

\* A slot gets its Deployment at the enrolment or from a release, and keeps it.
HasDeployment(s) ==
    s = "blue" \/ \E q \in Releases : prepared[q] = "deployed" /\ previous[q].slot # s
\* Candidates are pods of the Deployment of their release.
PodsDeployed ==
    \A i \in registered' \ registered : SlotOf[i] # activeSlot => prepared[identity] = "deployed"

\* The slot to which the runner switches the route, in the phases in which it does.
Wants(s) ==
    \/ /\ runner = "advance" /\ phase = "DRAINING"
       /\ s = Other(activeSlot) /\ VerifiedCandidate(s)
    \/ /\ runner = "abort" /\ phase \in {"PREPARED", "DRAINING", "READ_SWITCHED"}
       /\ s = activeSlot
    \/ /\ runner = "rollback" /\ phase = "ROLLBACK_DRAINING"
       /\ s = Other(activeSlot) /\ VerifiedCandidate(s) /\ DrainEmpty /\ ~expired

\* The selector to set next; it names both slots before it names one.
Step(s) == IF route = "both" THEN s ELSE "both"

\* switch_read_route(): from both slots to one only when both are served.
Patch(s) ==
    /\ Wants(s)
    /\ route # s
    /\ route = "both" => Verified("blue") /\ Verified("green")
    /\ \/ /\ route' = Step(s)
          /\ delayed' = {}
          /\ UNCHANGED <<runner, delays>>
       \/ /\ delays < MaxDelayed
          /\ delayed' = delayed \cup {Step(s)}
          /\ delays' = delays + 1
          /\ runner' = "none"
          /\ UNCHANGED route
    /\ UNCHANGED <<vars, prepared>>

\* A late request changes the selector whose version it names, and by that makes
\* every other late request obsolete.
LandPatch(to) ==
    /\ to \in delayed
    /\ route' = to
    /\ delayed' = {}
    /\ UNCHANGED <<vars, runner, delays, prepared>>

-----------------------------------------------------------------------------
(* The transactions of a run.                                              *)

\* Mutant of Verify: only the selector of the Service is read.
VerifySelector(s) == route = s
\* verify_route(); that its pods answer is asked again by what follows.
Verify(s) == route = s /\ Expected(s)

\* wait_closed_and_scale(): a Deployment that does not exist is a conflict, on every
\* entry; that the instances have closed is asked again by what follows.
ScaledDown == HasDeployment(Other(activeSlot))

\* Mutant of AbortRun: the route is not verified.
AbortUnverified(r) ==
    \/ Abort(r)
    \/ phase = "ABORTING" /\ Retire(r)
    \/ ScaledDown /\ FinishAbort(r)

\* abort_before_transfer() and, in the phase ABORTING, advance().
AbortRun(r) ==
    /\ Verify(activeSlot)
    /\ \/ Abort(r)
       \/ phase = "ABORTING" /\ Retire(r)
       \/ ScaledDown /\ FinishAbort(r)

\* advance().
AdvanceRun(r) ==
    \/ prepared[r] = "deployed" /\ VerifiedCandidate(Other(activeSlot)) /\ StartDrain(r)
    \/ Verify(Other(activeSlot)) /\ (SwitchRead(r) \/ TransferWriter(r))
    \/ /\ Verify(activeSlot)
       /\ \/ BeginRetiring(r)
          \/ phase = "RETIRING" /\ Retire(r)
          \/ ScaledDown /\ Complete(r)
    \/ phase = "ABORTING" /\ AbortRun(r)

\* rollback_after_transfer().
RollbackRun(r) ==
    \/ BeginRollback(r)
    \/ Verify(Other(activeSlot)) /\ ReverseTransfer(r)
    \/ /\ Verify(activeSlot)
       /\ \/ RetireRollback(r)
          \/ phase = "ROLLBACK_RETIRING" /\ Retire(r)
          \/ ScaledDown /\ FinishRollback(r)

Proceed(r) ==
    /\ \/ runner = "advance" /\ AdvanceRun(r)
       \/ runner = "abort" /\ AbortRun(r)
       \/ runner = "rollback" /\ RollbackRun(r)
    /\ UNCHANGED routing
Start(r) ==
    /\ runner \in {"advance", "abort"}
    /\ Begin(r)
    /\ UNCHANGED routing

System ==
    /\ InstanceStep \/ TicketStep \/ CommandStep \/ DiscoverOrphan \/ Recover \/ Expire
    /\ PodsDeployed
    /\ UNCHANGED routing

RouteNext ==
    \/ System
    \/ \E a \in Actions : Launch(a)
    \/ Exit \/ GiveUp
    \/ \E s \in Slots : Patch(s)
    \/ \E s \in Slots \cup {"both"} : LandPatch(s)
    \/ \E r \in Releases : Start(r) \/ Capture(r) \/ Deploy(r) \/ Proceed(r)

RouteSpec == RouteInit /\ [][RouteNext]_allVars

-----------------------------------------------------------------------------
(* Runs without a failure: no instance crashes, no operation fails, every   *)
(* result reaches the database, and a runner that was launched ends before  *)
(* its release only when a request of it was not answered or the code      *)
(* refuses.  Releases begin at any time, and their drain may take too long. *)

\* A bound of the model: tickets are interchangeable until they are opened.
Fresh(t) ==
    tState[t] = "none" /\ t = CHOOSE u \in Tickets : tState[u] = "none"

CalmSystem ==
    /\ \/ \E i \in Instances :
              \/ Register(i) \/ Refresh(i) \/ Retiring(i) \/ Drain(i) \/ Close(i)
              \/ \E t \in Tickets :
                     Fresh(t) /\ (Claim(i, t) \/ (Spare /\ AdmitWriter(i, t, None)))
              \/ \E c \in Commands : Enqueue(i, c)
       \/ \E t \in Tickets : BeginOperation(t) \/ EndOperation(t) \/ FinishTicket(t)
       \/ \E c \in Commands : Finish(c)
       \/ Expire
    /\ PodsDeployed
    /\ UNCHANGED routing

\* The runner fails: an abort, because no artifact was captured to go back to; an
\* advance(), because the pods were not ready before its budget ended.
Refused ==
    /\ phase = "PREPARED"
    /\ \/ runner = "abort" /\ ~Expected(activeSlot)
       \/ runner = "advance" /\ ~VerifiedCandidate(Other(activeSlot))
    /\ runner' = "none"
    /\ UNCHANGED <<vars, route, delayed, delays, prepared>>

\* A later runner continues a release that has begun, or aborts it.
CalmRun ==
    \/ \E a \in {"advance", "abort"} : Launch(a)
    \/ GiveUp \/ Refused
    \/ \E s \in Slots : Patch(s)
    \/ \E r \in Releases : Start(r) \/ Capture(r) \/ Deploy(r) \/ Proceed(r)

CalmRouteNext == CalmSystem \/ CalmRun \/ \E s \in Slots \cup {"both"} : LandPatch(s)

\* Somebody launches a runner until the release has ended.  The loops _consume()
\* and _control(), the end of every task and the retirement of a pod go
\* on; nobody has to begin a release or to enqueue a command.
RunGoesOn == owner # None /\ CalmRun

RouteFairness ==
    /\ \A i \in Instances :
           /\ WF_allVars(Register(i) /\ PodsDeployed /\ UNCHANGED routing)
           /\ WF_allVars(Refresh(i) /\ UNCHANGED routing)
           /\ WF_allVars((\E t \in Tickets : Fresh(t) /\ Claim(i, t)) /\ UNCHANGED routing)
           /\ WF_allVars((Retiring(i) \/ Drain(i) \/ Close(i)) /\ UNCHANGED routing)
    /\ \A t \in Tickets :
           WF_allVars((EndOperation(t) \/ FinishTicket(t)) /\ UNCHANGED routing)
    /\ \A c \in Commands : WF_allVars(Finish(c) /\ UNCHANGED routing)
    /\ WF_allVars(RunGoesOn)

CalmRouteSpec == RouteInit /\ [][CalmRouteNext]_allVars
FairRouteSpec == CalmRouteSpec /\ RouteFairness

-----------------------------------------------------------------------------
(* Properties.                                                             *)

\* While writes are admitted the entry leads to the slot that writes, through
\* every abort, rollback and restart of the runner.  Until a request is answered
\* late it leads nowhere else.
RouteReachesWriter == gateOpen => route \in {activeSlot, "both"}
RouteIsWriter == delays = 0 /\ gateOpen => route = activeSlot

\* An instance that was told to retire gets no requests of the entry.
RetiringUnrouted ==
    delays = 0 => \A i \in retiring \ closed : route = Other(SlotOf[i])

\* The gate is closed, and the writer moved, only by a release that can take both
\* back: it knows the artifact before it and its candidate has a Deployment.  An
\* abort knows the artifact.
PreparationFits ==
    /\ phase \in (ForwardPhases \ {"PREPARED"})
                \cup {"ROLLBACK_DRAINING", "ROLLBACK_WRITER_SWITCHED", "ROLLBACK_RETIRING"}
          => prepared[identity] = "deployed"
    /\ phase = "ABORTING" => prepared[identity] # "no"

\* The inductive invariant: late requests lead to both slots, or, from there, to one.
RouteInv ==
    /\ RouteTypeOK /\ PreparationFits
    /\ RouteReachesWriter /\ RouteIsWriter /\ RetiringUnrouted
    /\ route \in Slots => delayed \subseteq {"both"}
    /\ route = "both" => delayed \subseteq Slots
    /\ route = "both" /\ gateOpen => delayed \subseteq {activeSlot}
    /\ delays = 0 => delayed = {}

\* As long as nothing fails, the entry leads to an instance that takes requests.
EntryServed ==
    (\E i \in registered : SlotOf[i] = "blue") =>
        \E s \in Slots :
            /\ route \in {s, "both"}
            /\ \E i \in Available(s) : life[i] = "up"

\* A release whose preparation has got as far as the Deployment of its candidate ends,
\* completed or aborted, and the gate it closed is open again.  Before that the code
\* promises no end: an abort is refused, or finds no Deployment to scale down, each
\* time it is launched.
ReleasesEnd ==
    \A r \in Releases : owner = r /\ prepared[r] = "deployed" ~> owner # r /\ gateOpen

\* An abort that failed midway is taken up again and ends (docs/ProdDelivery.md).
\* A request of an earlier runner that is applied after the gate was opened
\* contradicts it: in the phase ABORTING the route is verified and never set.
AbortsEnd == phase = "ABORTING" ~> phase # "ABORTING"
=============================================================================
