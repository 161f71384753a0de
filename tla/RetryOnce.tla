------------------------------ MODULE RetryOnce ------------------------------
(***************************************************************************)
(* What a manual retry promises to whoever asks for it: each failure that  *)
(* is older than the request and can be repeated gets one more attempt     *)
(* from it, or goes away by itself; no failure gets two from one request,  *)
(* none gets one from a request that is older than it, and nobody else     *)
(* repeats a failure or anything that is done.                             *)
(***************************************************************************)
EXTENDS Naturals

CONSTANTS
    Documents,
    Retryable,  \* documents with something to repeat
    Askers      \* requests

VARIABLES
    condition,  \* of a document: gone, waiting, failed or done
    failedAt,   \* when a document that has failed did so, else 0
    now,
    asked,      \* of a request: new, open, served or withdrawn
    until,      \* the time of the last failure that a request is about
    retried     \* documents that have had their attempt from a request

vars == <<condition, failedAt, now, asked, until, retried>>

Init ==
    /\ condition \in [Documents -> {"waiting", "failed"}]
    /\ failedAt = [d \in Documents |-> IF condition[d] = "failed" THEN now ELSE 0]
    /\ now = 1
    /\ asked = [r \in Askers |-> "new"]
    /\ until = [r \in Askers |-> 0]
    /\ retried = [r \in Askers |-> {}]

Submit(d) ==
    /\ condition[d] = "gone"
    /\ condition' = [condition EXCEPT ![d] = "waiting"]
    /\ UNCHANGED <<failedAt, asked, until, retried>>

Process(d) ==
    /\ condition[d] = "waiting"
    /\ condition' = [condition EXCEPT ![d] = "done"]
    /\ UNCHANGED <<failedAt, asked, until, retried>>

\* Of a document that waits, or of its submission.
Fail(d) ==
    /\ condition[d] \in {"gone", "waiting"}
    /\ now' > now
    /\ condition' = [condition EXCEPT ![d] = "failed"]
    /\ failedAt' = [failedAt EXCEPT ![d] = now']
    /\ UNCHANGED <<asked, until, retried>>

Remove(D) ==
    /\ condition' = [d \in Documents |-> IF d \in D THEN "gone" ELSE condition[d]]
    /\ failedAt' = [d \in Documents |-> IF d \in D THEN 0 ELSE failedAt[d]]
    /\ UNCHANGED <<asked, until, retried>>

Ask(r) ==
    /\ asked[r] = "new"
    /\ asked' = [asked EXCEPT ![r] = "open"]
    /\ until'[r] <= now
    /\ until' = [until EXCEPT ![r] = until'[r]]
    /\ UNCHANGED <<condition, failedAt, retried>>

Owed(r, d) == d \in Retryable /\ condition[d] = "failed" /\ failedAt[d] <= until[r]

Retry(r, d) ==
    /\ asked[r] = "open"
    /\ Owed(r, d)
    /\ d \notin retried[r]
    /\ condition' = [condition EXCEPT ![d] = "waiting"]
    /\ failedAt' = [failedAt EXCEPT ![d] = 0]
    /\ retried' = [retried EXCEPT ![r] = @ \cup {d}]
    /\ UNCHANGED <<asked, until>>

Serve(r) ==
    /\ asked[r] = "open"
    /\ \A d \in Documents : ~Owed(r, d)
    /\ asked' = [asked EXCEPT ![r] = "served"]
    /\ UNCHANGED <<condition, failedAt, until, retried>>

\* All that are open.
Withdraw ==
    /\ asked' = [r \in Askers |-> IF asked[r] = "open" THEN "withdrawn" ELSE asked[r]]
    /\ UNCHANGED <<condition, failedAt, until, retried>>

\* Time passes, with steps that are nobody's concern here.
Tick == UNCHANGED <<condition, failedAt, asked, until, retried>>

Next ==
    /\ now' >= now
    /\ \/ Tick
       \/ \E d \in Documents : Submit(d) \/ Process(d) \/ Fail(d)
       \/ \E D \in SUBSET Documents : Remove(D)
       \/ \E r \in Askers : Ask(r) \/ Serve(r) \/ \E d \in Documents : Retry(r, d)
       \/ Withdraw

Spec == Init /\ [][Next]_vars
=============================================================================
