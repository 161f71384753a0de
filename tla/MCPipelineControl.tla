-------------------------- MODULE MCPipelineControl --------------------------
(* Small instances of PipelineControl for TLC.                             *)
EXTENDS PipelineControl, TLC

\* Processes are interchangeable, and so are requests, and documents that all have
\* content.
ProcsDocsAndRequests ==
    Permutations(Procs) \cup Permutations(Docs) \cup Permutations(Requests)
ProcsAndRequests == Permutations(Procs) \cup Permutations(Requests)
=============================================================================
