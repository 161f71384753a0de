--------------------------- MODULE MCLocalPipeline ---------------------------
(* Small instances of LocalPipeline for TLC.                               *)
EXTENDS LocalPipeline, TLC

CONSTANTS p1, p2, a, b, c

\* Two jobs of the first worker and one of the second; the first two are about
\* the first document, the third about the second one.
Process == [j \in Jobs |-> IF j = c THEN p2 ELSE p1]
Document == [j \in Jobs |-> IF j = c THEN 2 ELSE 1]

Mix(x, y, z) == [j \in Jobs |-> IF j = a THEN x ELSE IF j = b THEN y ELSE z]
Threes ==
    {Mix("upload", "delete", "retry"), Mix("insert", "batch", "scan"),
     Mix("retry", "delete", "scan"), Mix("insert", "none", "upload")}
OneRetry == {Mix("upload", "none", "retry")}

\* Where nobody else enqueues a document, it may have failed before.
FailedBefore ==
    [m \in Mixes |-> {d \in Docs : \A j \in Jobs :
                        m[j] \in {"insert", "upload"} => DocOf[j] # d}
                     \ (IF m[b] = "batch" THEN {2} ELSE {})]
=============================================================================
