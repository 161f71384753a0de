------------------------ MODULE PipelineControlProofs ------------------------
(***************************************************************************)
(* Theorems about PipelineControl for every set of processes, documents    *)
(* and retry requests, and every bound.                                    *)
(***************************************************************************)
EXTENDS PipelineControl, FiniteSetTheorems, TLAPS

-----------------------------------------------------------------------------
(* Type correctness, one group of variables after the other.               *)

\* pause(), request_retry(), process(resume=True): the control row.
LEMMA ControlTypesStep ==
  ASSUME PipelineAssumption, ControlTypes, [Next]_vars
  PROVE  ControlTypes'
<1> USE DEF ControlTypes, control, retries, store, reset, batch, ghosts
<1>1. ASSUME Pause PROVE ControlTypes'
  BY <1>1 DEF Pause
<1>2. ASSUME NEW r \in Requests, NEW c \in {clock - 1, clock}, RequestRetry(r, c)
      PROVE  ControlTypes'
  BY <1>2 DEF RequestRetry, Fresh
<1>3. ASSUME NEW p \in Procs, ExplicitCall(p) PROVE ControlTypes'
  BY <1>3 DEF ExplicitCall
<1>4. ASSUME UNCHANGED control PROVE ControlTypes'
  BY <1>4
<1>5. ASSUME NEW p \in Procs, Poll(p) \/ ReadControl(p) \/ GiveUpAdmission(p) \/ AdmitReset(p)
             \/ NextRequest(p) \/ FinishSelection(p) \/ NextTarget(p) \/ ResetTarget(p) \/
             FinishTarget(p) \/ AdmitBatch(p) \/ FetchPage(p) \/ Hydrate(p) \/ EndBatch(p) \/
             AdmitClear(p) \/ CancelRequests(p) \/ DropStores(p) \/ Fail(p) PROVE
             ControlTypes'
  BY <1>4, <1>5 DEF Poll, Goto, ReadControl, GiveUpAdmission, AdmitReset, NextRequest,
     Release, FinishSelection, NextTarget, ResetTarget, WriteStatus, FinishTarget, AdmitBatch,
     FetchPage, Hydrate, EndBatch, AdmitClear, CancelRequests, DropStores, Fail
<1>6. ASSUME NEW p \in Procs, NEW d \in Docs,
             \/ SelectTarget(p, d) \/ ClaimOne(p, d) \/ StartDocument(p, d)
             \/ CancelDocument(p, d) \/ AdvanceDocument(p, d) \/ EndDocument(p, d)
             \/ ReleaseClaim(p, d)
      PROVE  ControlTypes'
  BY <1>4, <1>6 DEF SelectTarget, ClaimOne, StartDocument, CancelDocument, WriteStatus,
     AdvanceDocument, EndDocument, ReleaseClaim
<1>7. ASSUME NEW d \in Docs, DeleteDocument(d) \/ SubmitDocument(d) PROVE ControlTypes'
  BY <1>4, <1>7 DEF DeleteDocument, SubmitDocument, WriteStatus
<1>8. ASSUME Fence \/ Recover PROVE ControlTypes'
  BY <1>4, <1>8 DEF Fence, Recover
<1>9. ASSUME UNCHANGED vars PROVE ControlTypes'
  BY <1>4, <1>9 DEF vars
<1> QED
  BY <1>1, <1>2, <1>3, <1>5, <1>6, <1>7, <1>8, <1>9 DEF Next, Retry, Batch, Clear

\* A cutoff is a reading of the clock.
LEMMA CutoffRange ==
  ASSUME StoreTypes, NEW c \in {clock - 1, clock} PROVE c \in Nat /\ c <= clock
BY DEF StoreTypes

\* The request and target tables.
LEMMA RetryTypesStep ==
  ASSUME PipelineAssumption, RetryTypes, StoreTypes, ResetTypes, RetriesFit, [Next]_vars
  PROVE  RetryTypes'
<1> USE DEF PipelineAssumption, RetryTypes, StoreTypes, ResetTypes, RetriesFit, RequestStates,
            control, retries, store, reset, batch, ghosts
<1>1. ASSUME NEW r \in Requests, NEW c \in {clock - 1, clock}, RequestRetry(r, c)
      PROVE  RetryTypes'
  <2>1. 1 + Cardinality({q \in Requests : created[q] > 0}) \in Nat
    <3>1. IsFiniteSet({q \in Requests : created[q] > 0})
      BY FS_Subset
    <3> QED
      BY <3>1, FS_CardinalityType
  <2>2. CASE reqState[r] = "unused"
    <3> DEFINE place == 1 + Cardinality({q \in Requests : created[q] > 0})
    <3>1. c \in Nat /\ place \in Nat
      BY <2>1, CutoffRange
    <3>2. /\ reqState' = [reqState EXCEPT ![r] = "selecting"]
          /\ created' = [created EXCEPT ![r] = place]
          /\ cutoff' = [cutoff EXCEPT ![r] = c]
          /\ UNCHANGED <<target, done>>
      BY <1>1, <2>2 DEF RequestRetry, Fresh
    <3> HIDE DEF place
    <3> QED
      BY <3>1, <3>2
  <2>3. CASE reqState[r] # "unused"
    BY <1>1, <2>3 DEF RequestRetry, Fresh
  <2> QED
    BY <2>2, <2>3
<1>2. ASSUME NEW p \in Procs, FinishSelection(p) PROVE RetryTypes'
  BY <1>2 DEF FinishSelection, Goto, SelectionComplete
<1>3. ASSUME NEW p \in Procs, NextTarget(p) PROVE RetryTypes'
  BY <1>3 DEF NextTarget, Goto, Remaining
<1>4. ASSUME NEW p \in Procs, FinishTarget(p) PROVE RetryTypes'
  BY <1>4 DEF FinishTarget, Goto
<1>5. ASSUME NEW p \in Procs, CancelRequests(p) PROVE RetryTypes'
  BY <1>5 DEF CancelRequests, Goto
<1>6. ASSUME NEW p \in Procs, NEW d \in Docs, SelectTarget(p, d) PROVE RetryTypes'
  BY <1>6 DEF SelectTarget, Selected
<1>7. ASSUME UNCHANGED retries PROVE RetryTypes'
  BY <1>7
<1>8. ASSUME NEW p \in Procs,
             \/ ExplicitCall(p) \/ Poll(p) \/ ReadControl(p) \/ GiveUpAdmission(p)
             \/ AdmitReset(p) \/ NextRequest(p) \/ ResetTarget(p) \/ AdmitBatch(p)
             \/ FetchPage(p) \/ Hydrate(p) \/ EndBatch(p) \/ AdmitClear(p) \/ DropStores(p)
             \/ Fail(p)
      PROVE  RetryTypes'
  BY <1>7, <1>8 DEF ExplicitCall, Poll, Goto, ReadControl, GiveUpAdmission, AdmitReset,
     NextRequest, Release, ResetTarget, WriteStatus, AdmitBatch, FetchPage, Hydrate, EndBatch,
     AdmitClear, DropStores, Fail
<1>9. ASSUME NEW p \in Procs, NEW d \in Docs,
             \/ ClaimOne(p, d) \/ StartDocument(p, d) \/ CancelDocument(p, d)
             \/ AdvanceDocument(p, d) \/ EndDocument(p, d) \/ ReleaseClaim(p, d)
      PROVE  RetryTypes'
  BY <1>7, <1>9 DEF ClaimOne, StartDocument, CancelDocument, WriteStatus, AdvanceDocument,
     EndDocument, ReleaseClaim
<1>10. ASSUME NEW d \in Docs, DeleteDocument(d) \/ SubmitDocument(d) PROVE RetryTypes'
  BY <1>7, <1>10 DEF DeleteDocument, SubmitDocument, WriteStatus
<1>11. ASSUME Pause \/ Fence \/ Recover PROVE RetryTypes'
  BY <1>7, <1>11 DEF Pause, Fence, Recover
<1>12. ASSUME UNCHANGED vars PROVE RetryTypes'
  BY <1>7, <1>12 DEF vars
<1> QED
  BY <1>1, <1>2, <1>3, <1>4, <1>5, <1>6, <1>8, <1>9, <1>10, <1>11, <1>12 DEF Next, Retry,
     Batch, Clear

\* The document status store.
LEMMA StoreTypesStep ==
  ASSUME PipelineAssumption, StoreTypes, [Next]_vars
  PROVE  StoreTypes'
<1> USE DEF StoreTypes, DocStates, control, retries, store, reset, batch, ghosts
<1>1. ASSUME NEW p \in Procs, ResetTarget(p) PROVE StoreTypes'
  BY <1>1 DEF ResetTarget, Goto, StillSelected, WriteStatus
<1>2. ASSUME NEW p \in Procs, Hydrate(p) PROVE StoreTypes'
  BY <1>2 DEF Hydrate, Goto, Hydrated
<1>3. ASSUME NEW p \in Procs, DropStores(p) PROVE StoreTypes'
  BY <1>3 DEF DropStores, Goto, Release
<1>4. ASSUME NEW p \in Procs, NEW d \in Docs, CancelDocument(p, d) PROVE StoreTypes'
  BY <1>4 DEF CancelDocument, Cancelled, WriteStatus
<1>5. ASSUME NEW p \in Procs, NEW d \in Docs, AdvanceDocument(p, d) PROVE StoreTypes'
  BY <1>5 DEF AdvanceDocument, WriteStatus
<1>6. ASSUME NEW p \in Procs, NEW d \in Docs, EndDocument(p, d) PROVE StoreTypes'
  BY <1>6 DEF EndDocument, WriteStatus
<1>7. ASSUME NEW d \in Docs, DeleteDocument(d) PROVE StoreTypes'
  BY <1>7 DEF DeleteDocument
<1>8. ASSUME NEW d \in Docs, SubmitDocument(d) PROVE StoreTypes'
  BY <1>8 DEF SubmitDocument, WriteStatus
<1>9. ASSUME UNCHANGED store PROVE StoreTypes'
  BY <1>9
<1>10. ASSUME NEW p \in Procs,
              \/ ExplicitCall(p) \/ Poll(p) \/ ReadControl(p) \/ GiveUpAdmission(p)
              \/ AdmitReset(p) \/ NextRequest(p) \/ FinishSelection(p) \/ NextTarget(p)
              \/ FinishTarget(p) \/ AdmitBatch(p) \/ FetchPage(p) \/ EndBatch(p) \/ AdmitClear(p)
              \/ CancelRequests(p) \/ Fail(p)
       PROVE  StoreTypes'
  BY <1>9, <1>10 DEF ExplicitCall, Poll, Goto, ReadControl, GiveUpAdmission, AdmitReset,
     NextRequest, Release, FinishSelection, NextTarget, FinishTarget, AdmitBatch, FetchPage,
     EndBatch, AdmitClear, CancelRequests, Fail
<1>11. ASSUME NEW p \in Procs, NEW d \in Docs,
              \/ SelectTarget(p, d) \/ ClaimOne(p, d) \/ StartDocument(p, d) \/ ReleaseClaim(p, d)
       PROVE  StoreTypes'
  BY <1>9, <1>11 DEF SelectTarget, ClaimOne, StartDocument, ReleaseClaim
<1>12. ASSUME NEW r \in Requests, NEW c \in {clock - 1, clock}, RequestRetry(r, c)
       PROVE  StoreTypes'
  BY <1>9, <1>12 DEF RequestRetry
<1>13. ASSUME Pause \/ Fence \/ Recover PROVE StoreTypes'
  BY <1>9, <1>13 DEF Pause, Fence, Recover
<1>14. ASSUME UNCHANGED vars PROVE StoreTypes'
  BY <1>9, <1>14 DEF vars
<1> QED
  BY <1>1, <1>2, <1>3, <1>4, <1>5, <1>6, <1>7, <1>8, <1>10, <1>11, <1>12, <1>13, <1>14 DEF
     Next, Retry, Batch, Clear

\* Tickets, claims, fence and the place of each process.
LEMMA OperationTypesStep ==
  ASSUME PipelineAssumption, OperationTypes, [Next]_vars
  PROVE  OperationTypes'
<1> USE DEF OperationTypes, Modes, Labels, RetryLabels, BatchLabels, control, retries, store,
            reset, batch, ghosts
<1>1. ASSUME NEW p \in Procs, ExplicitCall(p) PROVE OperationTypes'
  BY <1>1 DEF ExplicitCall
<1>2. ASSUME NEW p \in Procs, Poll(p) PROVE OperationTypes'
  BY <1>2 DEF Poll, Goto
<1>3. ASSUME NEW p \in Procs, ReadControl(p) PROVE OperationTypes'
  BY <1>3 DEF ReadControl, Goto
<1>4. ASSUME NEW p \in Procs, GiveUpAdmission(p) PROVE OperationTypes'
  BY <1>4 DEF GiveUpAdmission, Goto, Admissible
<1>5. ASSUME NEW p \in Procs, AdmitReset(p) PROVE OperationTypes'
  BY <1>5 DEF AdmitReset, Goto, Admissible
<1>6. ASSUME NEW p \in Procs, NextRequest(p) PROVE OperationTypes'
  BY <1>6 DEF NextRequest, Goto, Release
<1>7. ASSUME NEW p \in Procs, FinishSelection(p) PROVE OperationTypes'
  BY <1>7 DEF FinishSelection, Goto, SelectionComplete
<1>8. ASSUME NEW p \in Procs, NextTarget(p) PROVE OperationTypes'
  BY <1>8 DEF NextTarget, Goto, Remaining
<1>9. ASSUME NEW p \in Procs, ResetTarget(p) PROVE OperationTypes'
  BY <1>9 DEF ResetTarget, Goto, StillSelected, WriteStatus
<1>10. ASSUME NEW p \in Procs, FinishTarget(p) PROVE OperationTypes'
  BY <1>10 DEF FinishTarget, Goto
<1>11. ASSUME NEW p \in Procs, AdmitBatch(p) PROVE OperationTypes'
  BY <1>11 DEF AdmitBatch, Goto, Admissible
<1>12. ASSUME NEW p \in Procs, FetchPage(p) PROVE OperationTypes'
  BY <1>12 DEF FetchPage, Goto
<1>13. ASSUME NEW p \in Procs, Hydrate(p) PROVE OperationTypes'
  BY <1>13 DEF Hydrate, Goto, Hydrated
<1>14. ASSUME NEW p \in Procs, EndBatch(p) PROVE OperationTypes'
  BY <1>14 DEF EndBatch, Goto, Release
<1>15. ASSUME NEW p \in Procs, AdmitClear(p) PROVE OperationTypes'
  BY <1>15 DEF AdmitClear, Goto, Admissible
<1>16. ASSUME NEW p \in Procs, CancelRequests(p) PROVE OperationTypes'
  BY <1>16 DEF CancelRequests, Goto
<1>17. ASSUME NEW p \in Procs, DropStores(p) PROVE OperationTypes'
  BY <1>17 DEF DropStores, Goto, Release
<1>18. ASSUME NEW p \in Procs, Fail(p) PROVE OperationTypes'
  BY <1>18 DEF Fail, Goto
<1>19. ASSUME NEW p \in Procs, NEW d \in Docs, ClaimOne(p, d) PROVE OperationTypes'
  BY <1>19 DEF ClaimOne, ClaimAfterTry
<1>20. ASSUME NEW p \in Procs, NEW d \in Docs, ReleaseClaim(p, d) PROVE OperationTypes'
  BY <1>20 DEF ReleaseClaim
<1>21. ASSUME Fence PROVE OperationTypes'
  BY <1>21 DEF Fence
<1>22. ASSUME Recover PROVE OperationTypes'
  BY <1>22 DEF Recover
<1>23. ASSUME UNCHANGED <<ticket, claim, fenced, pc>> PROVE OperationTypes'
  BY <1>23 DEF vars
<1>24. ASSUME NEW p \in Procs, NEW d \in Docs,
              \/ SelectTarget(p, d) \/ StartDocument(p, d) \/ CancelDocument(p, d)
              \/ AdvanceDocument(p, d) \/ EndDocument(p, d)
       PROVE  OperationTypes'
  BY <1>23, <1>24 DEF SelectTarget, StartDocument, CancelDocument, WriteStatus,
     AdvanceDocument, EndDocument
<1>25. ASSUME NEW d \in Docs, DeleteDocument(d) \/ SubmitDocument(d) PROVE OperationTypes'
  BY <1>23, <1>25 DEF DeleteDocument, SubmitDocument, WriteStatus
<1>26. ASSUME NEW r \in Requests, NEW c \in {clock - 1, clock}, RequestRetry(r, c)
       PROVE  OperationTypes'
  BY <1>23, <1>26 DEF RequestRetry
<1>27. ASSUME Pause PROVE OperationTypes'
  BY <1>23, <1>27 DEF Pause
<1>28. ASSUME UNCHANGED vars PROVE OperationTypes'
  BY <1>23, <1>28 DEF vars
<1> QED
  BY <1>1, <1>2, <1>3, <1>4, <1>5, <1>6, <1>7, <1>8, <1>9, <1>10, <1>11, <1>12, <1>13, <1>14,
     <1>15, <1>16, <1>17, <1>18, <1>19, <1>20, <1>21, <1>22, <1>24, <1>25, <1>26, <1>27, <1>28
     DEF Next, Retry, Batch, Clear

\* What a process resets.
LEMMA ResetTypesStep ==
  ASSUME PipelineAssumption, ResetTypes, [Next]_vars
  PROVE  ResetTypes'
<1> USE DEF ResetTypes, control, retries, store, reset, batch, ghosts
<1>1. ASSUME NEW p \in Procs, NextRequest(p) PROVE ResetTypes'
  BY <1>1 DEF NextRequest, Goto, Release
<1>2. ASSUME NEW p \in Procs, FinishSelection(p) PROVE ResetTypes'
  BY <1>2 DEF FinishSelection, Goto, SelectionComplete
<1>3. ASSUME NEW p \in Procs, NextTarget(p) PROVE ResetTypes'
  BY <1>3 DEF NextTarget, Goto, Remaining
<1>4. ASSUME NEW p \in Procs, FinishTarget(p) PROVE ResetTypes'
  BY <1>4 DEF FinishTarget, Goto
<1>5. ASSUME NEW p \in Procs, Fail(p) PROVE ResetTypes'
  BY <1>5 DEF Fail, Goto
<1>6. ASSUME NEW p \in Procs, NEW d \in Docs, SelectTarget(p, d) PROVE ResetTypes'
  BY <1>6 DEF SelectTarget, Selected
<1>7. ASSUME UNCHANGED reset PROVE ResetTypes'
  BY <1>7
<1>8. ASSUME NEW p \in Procs,
             \/ ExplicitCall(p) \/ Poll(p) \/ ReadControl(p) \/ GiveUpAdmission(p)
             \/ AdmitReset(p) \/ ResetTarget(p) \/ AdmitBatch(p) \/ FetchPage(p) \/ Hydrate(p)
             \/ EndBatch(p) \/ AdmitClear(p) \/ CancelRequests(p) \/ DropStores(p)
      PROVE  ResetTypes'
  BY <1>7, <1>8 DEF ExplicitCall, Poll, Goto, ReadControl, GiveUpAdmission, AdmitReset,
     ResetTarget, WriteStatus, AdmitBatch, FetchPage, Hydrate, EndBatch, Release, AdmitClear,
     CancelRequests, DropStores
<1>9. ASSUME NEW p \in Procs, NEW d \in Docs,
             \/ ClaimOne(p, d) \/ StartDocument(p, d) \/ CancelDocument(p, d)
             \/ AdvanceDocument(p, d) \/ EndDocument(p, d) \/ ReleaseClaim(p, d)
      PROVE  ResetTypes'
  BY <1>7, <1>9 DEF ClaimOne, StartDocument, CancelDocument, WriteStatus, AdvanceDocument,
     EndDocument, ReleaseClaim
<1>10. ASSUME NEW d \in Docs, DeleteDocument(d) \/ SubmitDocument(d) PROVE ResetTypes'
  BY <1>7, <1>10 DEF DeleteDocument, SubmitDocument, WriteStatus
<1>11. ASSUME NEW r \in Requests, NEW c \in {clock - 1, clock}, RequestRetry(r, c)
       PROVE  ResetTypes'
  BY <1>7, <1>11 DEF RequestRetry
<1>12. ASSUME Pause \/ Fence \/ Recover PROVE ResetTypes'
  BY <1>7, <1>12 DEF Pause, Fence, Recover
<1>13. ASSUME UNCHANGED vars PROVE ResetTypes'
  BY <1>7, <1>13 DEF vars
<1> QED
  BY <1>1, <1>2, <1>3, <1>4, <1>5, <1>6, <1>8, <1>9, <1>10, <1>11, <1>12, <1>13 DEF Next,
     Retry, Batch, Clear

\* The batch of a process.
LEMMA BatchTypesStep ==
  ASSUME PipelineAssumption, ControlTypes, BatchTypes, [Next]_vars
  PROVE  BatchTypes'
<1> USE DEF ControlTypes, BatchTypes, control, retries, store, reset, batch, ghosts
<1>1. ASSUME NEW p \in Procs, AdmitBatch(p) PROVE BatchTypes'
  BY <1>1 DEF AdmitBatch, Goto, Admissible
<1>2. ASSUME NEW p \in Procs, FetchPage(p) PROVE BatchTypes'
  BY <1>2 DEF FetchPage, Goto
<1>3. ASSUME NEW p \in Procs, Hydrate(p) PROVE BatchTypes'
  BY <1>3 DEF Hydrate, Goto, Hydrated
<1>4. ASSUME NEW p \in Procs, EndBatch(p) PROVE BatchTypes'
  BY <1>4 DEF EndBatch, Goto, Release
<1>5. ASSUME NEW p \in Procs, Fail(p) PROVE BatchTypes'
  BY <1>5 DEF Fail, Goto
<1>6. ASSUME NEW p \in Procs, NEW d \in Docs, ClaimOne(p, d) PROVE BatchTypes'
  BY <1>6 DEF ClaimOne, ClaimAfterTry
<1>7. ASSUME NEW p \in Procs, NEW d \in Docs, StartDocument(p, d) PROVE BatchTypes'
  BY <1>7 DEF StartDocument, Cancelled
<1>8. ASSUME NEW p \in Procs, NEW d \in Docs, CancelDocument(p, d) PROVE BatchTypes'
  BY <1>8 DEF CancelDocument, Cancelled, WriteStatus
<1>9. ASSUME NEW p \in Procs, NEW d \in Docs, EndDocument(p, d) PROVE BatchTypes'
  BY <1>9 DEF EndDocument, WriteStatus
<1>10. ASSUME UNCHANGED batch PROVE BatchTypes'
  BY <1>10
<1>11. ASSUME NEW p \in Procs,
              \/ ExplicitCall(p) \/ Poll(p) \/ ReadControl(p) \/ GiveUpAdmission(p)
              \/ AdmitReset(p) \/ NextRequest(p) \/ FinishSelection(p) \/ NextTarget(p)
              \/ ResetTarget(p) \/ FinishTarget(p) \/ AdmitClear(p) \/ CancelRequests(p)
              \/ DropStores(p)
       PROVE  BatchTypes'
  BY <1>10, <1>11 DEF ExplicitCall, Poll, Goto, ReadControl, GiveUpAdmission, AdmitReset,
     NextRequest, Release, FinishSelection, NextTarget, ResetTarget, WriteStatus,
     FinishTarget, AdmitClear, CancelRequests, DropStores
<1>12. ASSUME NEW p \in Procs, NEW d \in Docs,
              \/ SelectTarget(p, d) \/ AdvanceDocument(p, d) \/ ReleaseClaim(p, d)
       PROVE  BatchTypes'
  BY <1>10, <1>12 DEF SelectTarget, AdvanceDocument, WriteStatus, ReleaseClaim
<1>13. ASSUME NEW d \in Docs, DeleteDocument(d) \/ SubmitDocument(d) PROVE BatchTypes'
  BY <1>10, <1>13 DEF DeleteDocument, SubmitDocument, WriteStatus
<1>14. ASSUME NEW r \in Requests, NEW c \in {clock - 1, clock}, RequestRetry(r, c)
       PROVE  BatchTypes'
  BY <1>10, <1>14 DEF RequestRetry
<1>15. ASSUME Pause \/ Fence \/ Recover PROVE BatchTypes'
  BY <1>10, <1>15 DEF Pause, Fence, Recover
<1>16. ASSUME UNCHANGED vars PROVE BatchTypes'
  BY <1>10, <1>16 DEF vars
<1> QED
  BY <1>1, <1>2, <1>3, <1>4, <1>5, <1>6, <1>7, <1>8, <1>9, <1>11, <1>12, <1>13, <1>14, <1>15,
     <1>16 DEF Next, Retry, Batch, Clear

\* The observations.
LEMMA GhostTypesStep ==
  ASSUME PipelineAssumption, GhostTypes, [Next]_vars
  PROVE  GhostTypes'
<1> USE DEF GhostTypes, control, retries, store, reset, batch, ghosts
<1>1. ASSUME Pause PROVE GhostTypes'
  <2>1. overtaken' \in [Procs -> BOOLEAN]
    <3>1. \A p \in Procs : (pc[p] \in BatchLabels) \in BOOLEAN
      OBVIOUS
    <3> QED
      BY <1>1, <3>1, Zenon DEF Pause
  <2> QED
    BY <1>1, <2>1 DEF Pause
<1>2. ASSUME NEW r \in Requests, NEW c \in {clock - 1, clock}, RequestRetry(r, c)
      PROVE  GhostTypes'
  BY <1>2 DEF RequestRetry, Fresh
<1>3. ASSUME NEW p \in Procs, ExplicitCall(p) PROVE GhostTypes'
  BY <1>3 DEF ExplicitCall
<1>4. ASSUME NEW p \in Procs, ResetTarget(p) PROVE GhostTypes'
  <2>1. CASE StillSelected(request[p], doc[p])
    BY <1>4, <2>1 DEF ResetTarget
  <2>2. CASE ~StillSelected(request[p], doc[p])
    BY <1>4, <2>2 DEF ResetTarget
  <2> QED
    BY <2>1, <2>2
<1>5. ASSUME NEW p \in Procs, AdmitBatch(p) PROVE GhostTypes'
  BY <1>5 DEF AdmitBatch, Goto, Admissible
<1>6. ASSUME NEW p \in Procs, EndBatch(p) PROVE GhostTypes'
  BY <1>6 DEF EndBatch, Goto, Release
<1>7. ASSUME NEW p \in Procs, Fail(p) PROVE GhostTypes'
  BY <1>7 DEF Fail, Goto
<1>8. ASSUME UNCHANGED ghosts PROVE GhostTypes'
  BY <1>8
<1>9. ASSUME NEW p \in Procs, Poll(p) \/ ReadControl(p) \/ GiveUpAdmission(p) \/ AdmitReset(p)
             \/ NextRequest(p) \/ FinishSelection(p) \/ NextTarget(p) \/ FinishTarget(p) \/
             FetchPage(p) \/ Hydrate(p) \/ AdmitClear(p) \/ CancelRequests(p) \/ DropStores(p)
             PROVE GhostTypes'
  BY <1>8, <1>9 DEF Poll, Goto, ReadControl, GiveUpAdmission, AdmitReset, NextRequest,
     Release, FinishSelection, NextTarget, FinishTarget, FetchPage, Hydrate, AdmitClear,
     CancelRequests, DropStores
<1>10. ASSUME NEW p \in Procs, NEW d \in Docs,
              \/ SelectTarget(p, d) \/ ClaimOne(p, d) \/ StartDocument(p, d)
              \/ CancelDocument(p, d) \/ AdvanceDocument(p, d) \/ EndDocument(p, d)
              \/ ReleaseClaim(p, d)
       PROVE  GhostTypes'
  BY <1>8, <1>10 DEF SelectTarget, ClaimOne, StartDocument, CancelDocument, WriteStatus,
     AdvanceDocument, EndDocument, ReleaseClaim
<1>11. ASSUME NEW d \in Docs, DeleteDocument(d) \/ SubmitDocument(d) PROVE GhostTypes'
  BY <1>8, <1>11 DEF DeleteDocument, SubmitDocument, WriteStatus
<1>12. ASSUME Fence \/ Recover PROVE GhostTypes'
  BY <1>8, <1>12 DEF Fence, Recover
<1>13. ASSUME UNCHANGED vars PROVE GhostTypes'
  BY <1>8, <1>13 DEF vars
<1> QED
  BY <1>1, <1>2, <1>3, <1>4, <1>5, <1>6, <1>7, <1>9, <1>10, <1>11, <1>12, <1>13 DEF Next,
     Retry, Batch, Clear

\* Every transaction, status write and process step keeps the state well typed.
LEMMA TypeStep ==
  ASSUME PipelineAssumption, TypeOK, RetriesFit, [Next]_vars
  PROVE  TypeOK'
BY ControlTypesStep, RetryTypesStep, StoreTypesStep, OperationTypesStep, ResetTypesStep,
   BatchTypesStep, GhostTypesStep DEF TypeOK

-----------------------------------------------------------------------------
(* The parts of the inductive invariant.                                   *)

\* operation(): admission, exit, failure and recovery keep the tickets apart.
LEMMA TicketsFitStep ==
  ASSUME PipelineAssumption, OperationTypes, TicketsFit, [Next]_vars
  PROVE  TicketsFit'
<1> USE DEF OperationTypes, TicketsFit, RetryLabels, BatchLabels, control, retries, store,
            reset, batch, ghosts
<1>1. ASSUME NEW p \in Procs, ExplicitCall(p) PROVE TicketsFit'
  BY <1>1 DEF ExplicitCall
<1>2. ASSUME NEW p \in Procs, Poll(p) PROVE TicketsFit'
  BY <1>2 DEF Poll, Goto
<1>3. ASSUME NEW p \in Procs, ReadControl(p) PROVE TicketsFit'
  BY <1>3 DEF ReadControl, Goto
<1>4. ASSUME NEW p \in Procs, GiveUpAdmission(p) PROVE TicketsFit'
  BY <1>4 DEF GiveUpAdmission, Goto, Admissible
<1>5. ASSUME NEW p \in Procs, AdmitReset(p) PROVE TicketsFit'
  BY <1>5 DEF AdmitReset, Goto, Admissible
<1>6. ASSUME NEW p \in Procs, NextRequest(p) PROVE TicketsFit'
  BY <1>6 DEF NextRequest, Goto, Release
<1>7. ASSUME NEW p \in Procs, FinishSelection(p) PROVE TicketsFit'
  BY <1>7 DEF FinishSelection, Goto, SelectionComplete
<1>8. ASSUME NEW p \in Procs, NextTarget(p) PROVE TicketsFit'
  BY <1>8 DEF NextTarget, Goto, Remaining
<1>9. ASSUME NEW p \in Procs, ResetTarget(p) PROVE TicketsFit'
  BY <1>9 DEF ResetTarget, Goto, StillSelected, WriteStatus
<1>10. ASSUME NEW p \in Procs, FinishTarget(p) PROVE TicketsFit'
  BY <1>10 DEF FinishTarget, Goto
<1>11. ASSUME NEW p \in Procs, AdmitBatch(p) PROVE TicketsFit'
  BY <1>11 DEF AdmitBatch, Goto, Admissible
<1>12. ASSUME NEW p \in Procs, FetchPage(p) PROVE TicketsFit'
  BY <1>12 DEF FetchPage, Goto
<1>13. ASSUME NEW p \in Procs, Hydrate(p) PROVE TicketsFit'
  BY <1>13 DEF Hydrate, Goto, Hydrated
<1>14. ASSUME NEW p \in Procs, EndBatch(p) PROVE TicketsFit'
  BY <1>14 DEF EndBatch, Goto, Release
<1>15. ASSUME NEW p \in Procs, AdmitClear(p) PROVE TicketsFit'
  BY <1>15 DEF AdmitClear, Goto, Admissible
<1>16. ASSUME NEW p \in Procs, CancelRequests(p) PROVE TicketsFit'
  BY <1>16 DEF CancelRequests, Goto
<1>17. ASSUME NEW p \in Procs, DropStores(p) PROVE TicketsFit'
  BY <1>17 DEF DropStores, Goto, Release
<1>18. ASSUME NEW p \in Procs, Fail(p) PROVE TicketsFit'
  BY <1>18 DEF Fail, Goto
<1>19. ASSUME Recover PROVE TicketsFit'
  BY <1>19 DEF Recover
<1>20. ASSUME UNCHANGED <<ticket, pc>> PROVE TicketsFit'
  BY <1>20
<1>21. ASSUME NEW p \in Procs, NEW d \in Docs,
              \/ SelectTarget(p, d) \/ ClaimOne(p, d) \/ StartDocument(p, d)
              \/ CancelDocument(p, d) \/ AdvanceDocument(p, d) \/ EndDocument(p, d)
              \/ ReleaseClaim(p, d)
       PROVE  TicketsFit'
  BY <1>20, <1>21 DEF SelectTarget, ClaimOne, StartDocument, CancelDocument, WriteStatus,
     AdvanceDocument, EndDocument, ReleaseClaim
<1>22. ASSUME NEW d \in Docs, DeleteDocument(d) \/ SubmitDocument(d) PROVE TicketsFit'
  BY <1>20, <1>22 DEF DeleteDocument, SubmitDocument, WriteStatus
<1>23. ASSUME NEW r \in Requests, NEW c \in {clock - 1, clock}, RequestRetry(r, c)
       PROVE  TicketsFit'
  BY <1>20, <1>23 DEF RequestRetry
<1>24. ASSUME Pause \/ Fence PROVE TicketsFit'
  BY <1>20, <1>24 DEF Pause, Fence
<1>25. ASSUME UNCHANGED vars PROVE TicketsFit'
  BY <1>20, <1>25 DEF vars
<1> QED
  BY <1>1, <1>2, <1>3, <1>4, <1>5, <1>6, <1>7, <1>8, <1>9, <1>10, <1>11, <1>12, <1>13, <1>14,
     <1>15, <1>16, <1>17, <1>18, <1>19, <1>21, <1>22, <1>23, <1>24, <1>25 DEF Next, Retry,
     Batch, Clear

\* A claim keeps every writer but its batch from the row.
LEMMA BatchesFitStep ==
  ASSUME PipelineAssumption, OperationTypes, BatchTypes, StoreTypes, TicketsFit, BatchesFit,
         [Next]_vars
  PROVE  BatchesFit'
<1> USE DEF OperationTypes, BatchTypes, StoreTypes, TicketsFit, BatchesFit, Automatic,
            RetryLabels, BatchLabels, control, retries, store, reset, batch, ghosts
<1>1. ASSUME NEW p \in Procs, ExplicitCall(p) PROVE BatchesFit'
  BY <1>1 DEF ExplicitCall
<1>2. ASSUME NEW p \in Procs, Poll(p) PROVE BatchesFit'
  BY <1>2 DEF Poll, Goto
<1>3. ASSUME NEW p \in Procs, ReadControl(p) PROVE BatchesFit'
  BY <1>3 DEF ReadControl, Goto
<1>4. ASSUME NEW p \in Procs, GiveUpAdmission(p) PROVE BatchesFit'
  BY <1>4 DEF GiveUpAdmission, Goto, Admissible
<1>5. ASSUME NEW p \in Procs, AdmitReset(p) PROVE BatchesFit'
  BY <1>5 DEF AdmitReset, Goto, Admissible
<1>6. ASSUME NEW p \in Procs, NextRequest(p) PROVE BatchesFit'
  BY <1>6 DEF NextRequest, Goto, Release
<1>7. ASSUME NEW p \in Procs, FinishSelection(p) PROVE BatchesFit'
  BY <1>7 DEF FinishSelection, Goto, SelectionComplete
<1>8. ASSUME NEW p \in Procs, NextTarget(p) PROVE BatchesFit'
  BY <1>8 DEF NextTarget, Goto, Remaining
<1>9. ASSUME NEW p \in Procs, ResetTarget(p) PROVE BatchesFit'
  BY <1>9 DEF ResetTarget, Goto, StillSelected, WriteStatus
<1>10. ASSUME NEW p \in Procs, FinishTarget(p) PROVE BatchesFit'
  BY <1>10 DEF FinishTarget, Goto
<1>11. ASSUME NEW p \in Procs, AdmitBatch(p) PROVE BatchesFit'
  BY <1>11 DEF AdmitBatch, Goto, Admissible
<1>12. ASSUME NEW p \in Procs, FetchPage(p) PROVE BatchesFit'
  BY <1>12 DEF FetchPage, Goto
<1>13. ASSUME NEW p \in Procs, Hydrate(p) PROVE BatchesFit'
  BY <1>13 DEF Hydrate, Goto, Hydrated
<1>14. ASSUME NEW p \in Procs, EndBatch(p) PROVE BatchesFit'
  BY <1>14 DEF EndBatch, Goto, Release
<1>15. ASSUME NEW p \in Procs, AdmitClear(p) PROVE BatchesFit'
  BY <1>15 DEF AdmitClear, Goto, Admissible
<1>16. ASSUME NEW p \in Procs, CancelRequests(p) PROVE BatchesFit'
  BY <1>16 DEF CancelRequests, Goto
<1>17. ASSUME NEW p \in Procs, DropStores(p) PROVE BatchesFit'
  BY <1>17 DEF DropStores, Goto, Release
<1>18. ASSUME NEW p \in Procs, Fail(p) PROVE BatchesFit'
  BY <1>18 DEF Fail, Goto
<1>19. ASSUME NEW p \in Procs, NEW d \in Docs, ClaimOne(p, d) PROVE BatchesFit'
  BY <1>19 DEF ClaimOne, ClaimAfterTry
<1>20. ASSUME NEW p \in Procs, NEW d \in Docs, StartDocument(p, d) PROVE BatchesFit'
  BY <1>20 DEF StartDocument, Cancelled
<1>21. ASSUME NEW p \in Procs, NEW d \in Docs, CancelDocument(p, d) PROVE BatchesFit'
  BY <1>21 DEF CancelDocument, Cancelled, WriteStatus
<1>22. ASSUME NEW p \in Procs, NEW d \in Docs, AdvanceDocument(p, d) PROVE BatchesFit'
  BY <1>22 DEF AdvanceDocument, WriteStatus
<1>23. ASSUME NEW p \in Procs, NEW d \in Docs, EndDocument(p, d) PROVE BatchesFit'
  BY <1>23 DEF EndDocument, WriteStatus
<1>24. ASSUME NEW p \in Procs, NEW d \in Docs, ReleaseClaim(p, d) PROVE BatchesFit'
  BY <1>24 DEF ReleaseClaim
<1>25. ASSUME NEW d \in Docs, DeleteDocument(d) PROVE BatchesFit'
  BY <1>25 DEF DeleteDocument
<1>26. ASSUME NEW d \in Docs, SubmitDocument(d) PROVE BatchesFit'
  BY <1>26 DEF SubmitDocument, WriteStatus
<1>27. ASSUME Recover PROVE BatchesFit'
  BY <1>27 DEF Recover
<1>28. ASSUME UNCHANGED <<todo, active, claim, docState, pc>> PROVE BatchesFit'
  BY <1>28
<1>29. ASSUME NEW p \in Procs, NEW d \in Docs, SelectTarget(p, d)
       PROVE  BatchesFit'
  BY <1>28, <1>29 DEF SelectTarget
<1>30. ASSUME NEW r \in Requests, NEW c \in {clock - 1, clock}, RequestRetry(r, c)
       PROVE  BatchesFit'
  BY <1>28, <1>30 DEF RequestRetry
<1>31. ASSUME Pause \/ Fence PROVE BatchesFit'
  BY <1>28, <1>31 DEF Pause, Fence
<1>32. ASSUME UNCHANGED vars PROVE BatchesFit'
  BY <1>28, <1>32 DEF vars
<1> QED
  BY <1>1, <1>2, <1>3, <1>4, <1>5, <1>6, <1>7, <1>8, <1>9, <1>10, <1>11, <1>12, <1>13, <1>14,
     <1>15, <1>16, <1>17, <1>18, <1>19, <1>20, <1>21, <1>22, <1>23, <1>24, <1>25, <1>26,
     <1>27, <1>29, <1>30, <1>31, <1>32 DEF Next, Retry, Batch, Clear

\* The exclusive ticket of a reset keeps its request from everybody else.
LEMMA RetriesFitStep ==
  ASSUME PipelineAssumption, OperationTypes, RetryTypes, ResetTypes, TicketsFit, RetriesFit,
         [Next]_vars
  PROVE  RetriesFit'
<1> USE DEF OperationTypes, RetryTypes, ResetTypes, TicketsFit, RetriesFit, RetryLabels,
            control, retries, store, reset, batch, ghosts
<1>1. ASSUME NEW r \in Requests, NEW c \in {clock - 1, clock}, RequestRetry(r, c)
      PROVE  RetriesFit'
  BY <1>1 DEF RequestRetry, Fresh
<1>2. ASSUME NEW p \in Procs, ExplicitCall(p) PROVE RetriesFit'
  BY <1>2 DEF ExplicitCall
<1>3. ASSUME NEW p \in Procs, Poll(p) PROVE RetriesFit'
  BY <1>3 DEF Poll, Goto
<1>4. ASSUME NEW p \in Procs, ReadControl(p) PROVE RetriesFit'
  BY <1>4 DEF ReadControl, Goto
<1>5. ASSUME NEW p \in Procs, GiveUpAdmission(p) PROVE RetriesFit'
  BY <1>5 DEF GiveUpAdmission, Goto, Admissible
<1>6. ASSUME NEW p \in Procs, AdmitReset(p) PROVE RetriesFit'
  BY <1>6 DEF AdmitReset, Goto, Admissible
<1>7. ASSUME NEW p \in Procs, NextRequest(p) PROVE RetriesFit'
  <2>1. CASE PendingRetries
    <3>1. PICK r \in Requests :
             /\ Unfinished(r)
             /\ request' = [request EXCEPT ![p] = r]
             /\ Goto(p, IF reqState[r] = "selecting" THEN "select" ELSE "targets")
      BY <1>7, <2>1 DEF NextRequest
    <3>2. reqState[r] \in {"selecting", "resetting"}
      BY <3>1 DEF Unfinished
    <3> QED
      BY <1>7, <3>1, <3>2 DEF NextRequest, Goto
  <2>2. CASE ~PendingRetries
    BY <1>7, <2>2 DEF NextRequest, PendingRetries, Goto
  <2> QED
    BY <2>1, <2>2
<1>8. ASSUME NEW p \in Procs, FinishSelection(p) PROVE RetriesFit'
  BY <1>8 DEF FinishSelection, Goto, SelectionComplete
<1>9. ASSUME NEW p \in Procs, NextTarget(p) PROVE RetriesFit'
  BY <1>9 DEF NextTarget, Goto, Remaining
<1>10. ASSUME NEW p \in Procs, ResetTarget(p) PROVE RetriesFit'
  BY <1>10 DEF ResetTarget, Goto, StillSelected, WriteStatus
<1>11. ASSUME NEW p \in Procs, FinishTarget(p) PROVE RetriesFit'
  BY <1>11 DEF FinishTarget, Goto
<1>12. ASSUME NEW p \in Procs, AdmitBatch(p) PROVE RetriesFit'
  BY <1>12 DEF AdmitBatch, Goto, Admissible
<1>13. ASSUME NEW p \in Procs, FetchPage(p) PROVE RetriesFit'
  BY <1>13 DEF FetchPage, Goto
<1>14. ASSUME NEW p \in Procs, Hydrate(p) PROVE RetriesFit'
  BY <1>14 DEF Hydrate, Goto, Hydrated
<1>15. ASSUME NEW p \in Procs, EndBatch(p) PROVE RetriesFit'
  BY <1>15 DEF EndBatch, Goto, Release
<1>16. ASSUME NEW p \in Procs, AdmitClear(p) PROVE RetriesFit'
  BY <1>16 DEF AdmitClear, Goto, Admissible
<1>17. ASSUME NEW p \in Procs, CancelRequests(p) PROVE RetriesFit'
  BY <1>17 DEF CancelRequests, Goto
<1>18. ASSUME NEW p \in Procs, DropStores(p) PROVE RetriesFit'
  BY <1>18 DEF DropStores, Goto, Release
<1>19. ASSUME NEW p \in Procs, Fail(p) PROVE RetriesFit'
  BY <1>19 DEF Fail, Goto
<1>20. ASSUME NEW p \in Procs, NEW d \in Docs, SelectTarget(p, d) PROVE RetriesFit'
  BY <1>20 DEF SelectTarget, Selected
<1>21. ASSUME Recover PROVE RetriesFit'
  BY <1>21 DEF Recover
<1>22. ASSUME UNCHANGED <<pc, request, scanned, reqState, doc, target>> PROVE RetriesFit'
  BY <1>22
<1>23. ASSUME NEW p \in Procs, NEW d \in Docs,
              \/ ClaimOne(p, d) \/ StartDocument(p, d) \/ CancelDocument(p, d)
              \/ AdvanceDocument(p, d) \/ EndDocument(p, d) \/ ReleaseClaim(p, d)
       PROVE  RetriesFit'
  BY <1>22, <1>23 DEF ClaimOne, StartDocument, CancelDocument, WriteStatus, AdvanceDocument,
     EndDocument, ReleaseClaim
<1>24. ASSUME NEW d \in Docs, DeleteDocument(d) \/ SubmitDocument(d) PROVE RetriesFit'
  BY <1>22, <1>24 DEF DeleteDocument, SubmitDocument, WriteStatus
<1>25. ASSUME Pause \/ Fence PROVE RetriesFit'
  BY <1>22, <1>25 DEF Pause, Fence
<1>26. ASSUME UNCHANGED vars PROVE RetriesFit'
  BY <1>22, <1>26 DEF vars
<1> QED
  BY <1>1, <1>2, <1>3, <1>4, <1>5, <1>6, <1>7, <1>8, <1>9, <1>10, <1>11, <1>12, <1>13, <1>14,
     <1>15, <1>16, <1>17, <1>18, <1>19, <1>20, <1>21, <1>23, <1>24, <1>25, <1>26 DEF Next,
     Retry, Batch, Clear

\* Versions are later than whatever was recorded before them.
LEMMA TimesFitStep ==
  ASSUME PipelineAssumption, RetryTypes, StoreTypes, ResetTypes, RetriesFit, TimesFit,
         [Next]_vars
  PROVE  TimesFit'
<1> USE DEF RetryTypes, StoreTypes, ResetTypes, RetriesFit, TimesFit, control, retries, store,
            reset, batch, ghosts
<1>1. ASSUME NEW r \in Requests, NEW c \in {clock - 1, clock}, RequestRetry(r, c)
      PROVE  TimesFit'
  <2>1. CASE reqState[r] = "unused"
    <3>1. \A d \in Docs : target[r][d] = 0
      BY <2>1
    <3>2. /\ cutoff' = [cutoff EXCEPT ![r] = c]
          /\ reqState' = [reqState EXCEPT ![r] = "selecting"]
          /\ UNCHANGED <<target, done, docState, version, clock>>
      BY <1>1, <2>1 DEF RequestRetry, Fresh
    <3>3. c \in Nat /\ c <= clock
      BY CutoffRange
    <3> QED
      BY <2>1, <3>1, <3>2, <3>3
  <2>2. CASE reqState[r] # "unused"
    BY <1>1, <2>2 DEF RequestRetry, Fresh
  <2> QED
    BY <2>1, <2>2
<1>2. ASSUME NEW p \in Procs, FinishSelection(p) PROVE TimesFit'
  BY <1>2 DEF FinishSelection, Goto, SelectionComplete
<1>3. ASSUME NEW p \in Procs, NextTarget(p) PROVE TimesFit'
  BY <1>3 DEF NextTarget, Goto, Remaining
<1>4. ASSUME NEW p \in Procs, ResetTarget(p) PROVE TimesFit'
  <2>1. request[p] \in Requests /\ doc[p] \in Docs
    BY <1>4 DEF ResetTarget
  <2>2. CASE StillSelected(request[p], doc[p])
    <3> DEFINE r == request[p]
               d == doc[p]
    <3>1. /\ docState' = [docState EXCEPT ![d] = "PENDING"]
          /\ clock' = clock + 1
          /\ version' = [version EXCEPT ![d] = clock + 1]
          /\ attempts' = [attempts EXCEPT ![r][d] = @ + 1]
          /\ version[d] = target[r][d] /\ docState[d] = "FAILED"
          /\ UNCHANGED <<control, retries, reset, wanted, overtaken, fenced>>
      BY <1>4, <2>2 DEF ResetTarget, WriteStatus, StillSelected
    <3> HIDE DEF r, d
    <3>2. r \in Requests /\ d \in Docs
      BY <2>1 DEF r, d
    <3> QED
      BY <3>1, <3>2
  <2>3. CASE ~StillSelected(request[p], doc[p])
    BY <1>4, <2>1, <2>3 DEF ResetTarget, StillSelected, Goto
  <2> QED
    BY <2>2, <2>3
<1>5. ASSUME NEW p \in Procs, FinishTarget(p) PROVE TimesFit'
  BY <1>5 DEF FinishTarget, Goto
<1>6. ASSUME NEW p \in Procs, Hydrate(p) PROVE TimesFit'
  BY <1>6 DEF Hydrate, Goto, Hydrated
<1>7. ASSUME NEW p \in Procs, CancelRequests(p) PROVE TimesFit'
  BY <1>7 DEF CancelRequests, Goto
<1>8. ASSUME NEW p \in Procs, DropStores(p) PROVE TimesFit'
  BY <1>8 DEF DropStores, Goto, Release
<1>9. ASSUME NEW p \in Procs, NEW d \in Docs, SelectTarget(p, d) PROVE TimesFit'
  BY <1>9 DEF SelectTarget, Selected
<1>10. ASSUME NEW p \in Procs, NEW d \in Docs, CancelDocument(p, d) PROVE TimesFit'
  BY <1>10 DEF CancelDocument, Cancelled, WriteStatus
<1>11. ASSUME NEW p \in Procs, NEW d \in Docs, AdvanceDocument(p, d) PROVE TimesFit'
  BY <1>11 DEF AdvanceDocument, WriteStatus
<1>12. ASSUME NEW p \in Procs, NEW d \in Docs, EndDocument(p, d) PROVE TimesFit'
  <2>1. PICK s \in {"PROCESSED", "FAILED"} :
           /\ docState' = [docState EXCEPT ![d] = s]
           /\ clock' = clock + 1
           /\ version' = [version EXCEPT ![d] = clock + 1]
    BY <1>12 DEF EndDocument, WriteStatus
  <2>2. UNCHANGED <<cutoff, target, done, reqState>>
    BY <1>12 DEF EndDocument
  <2> QED
    BY <2>1, <2>2
<1>13. ASSUME NEW d \in Docs, DeleteDocument(d) PROVE TimesFit'
  BY <1>13 DEF DeleteDocument
<1>14. ASSUME NEW d \in Docs, SubmitDocument(d) PROVE TimesFit'
  BY <1>14 DEF SubmitDocument, WriteStatus
<1>15. ASSUME UNCHANGED <<docState, version, clock, cutoff, target, done, reqState>>
       PROVE  TimesFit'
  BY <1>15
<1>16. ASSUME NEW p \in Procs,
              \/ ExplicitCall(p) \/ Poll(p) \/ ReadControl(p) \/ GiveUpAdmission(p)
              \/ AdmitReset(p) \/ NextRequest(p) \/ AdmitBatch(p) \/ FetchPage(p) \/ EndBatch(p)
              \/ AdmitClear(p) \/ Fail(p)
       PROVE  TimesFit'
  BY <1>15, <1>16 DEF ExplicitCall, Poll, Goto, ReadControl, GiveUpAdmission, AdmitReset,
     NextRequest, Release, AdmitBatch, FetchPage, EndBatch, AdmitClear, Fail
<1>17. ASSUME NEW p \in Procs, NEW d \in Docs,
              \/ ClaimOne(p, d) \/ StartDocument(p, d) \/ ReleaseClaim(p, d)
       PROVE  TimesFit'
  BY <1>15, <1>17 DEF ClaimOne, StartDocument, ReleaseClaim
<1>18. ASSUME Pause \/ Fence \/ Recover PROVE TimesFit'
  BY <1>15, <1>18 DEF Pause, Fence, Recover
<1>19. ASSUME UNCHANGED vars PROVE TimesFit'
  BY <1>15, <1>19 DEF vars
<1> QED
  BY <1>1, <1>2, <1>3, <1>4, <1>5, <1>6, <1>7, <1>8, <1>9, <1>10, <1>11, <1>12, <1>13, <1>14,
     <1>16, <1>17, <1>18, <1>19 DEF Next, Retry, Batch, Clear

\* The version an attempt was made for does not come back.
LEMMA AttemptsFitStep ==
  ASSUME PipelineAssumption, RetryTypes, StoreTypes, GhostTypes, ResetTypes, RetriesFit,
         TimesFit, AttemptsFit, [Next]_vars
  PROVE  AttemptsFit'
<1> USE DEF RetryTypes, StoreTypes, GhostTypes, ResetTypes, RetriesFit, TimesFit, AttemptsFit,
            control, retries, store, reset, batch, ghosts
<1>1. ASSUME NEW p \in Procs, ResetTarget(p) PROVE AttemptsFit'
  <2>1. request[p] \in Requests /\ doc[p] \in Docs
    BY <1>1 DEF ResetTarget
  <2>2. CASE StillSelected(request[p], doc[p])
    <3> DEFINE r == request[p]
               d == doc[p]
    <3>1. /\ docState' = [docState EXCEPT ![d] = "PENDING"]
          /\ clock' = clock + 1
          /\ version' = [version EXCEPT ![d] = clock + 1]
          /\ attempts' = [attempts EXCEPT ![r][d] = @ + 1]
          /\ version[d] = target[r][d] /\ docState[d] = "FAILED"
          /\ UNCHANGED <<control, retries, reset, wanted, overtaken, fenced>>
      BY <1>1, <2>2 DEF ResetTarget, WriteStatus, StillSelected
    <3>2. target[r][d] > 0
      BY <1>1 DEF ResetTarget
    <3> HIDE DEF r, d
    <3>3. r \in Requests /\ d \in Docs
      BY <2>1 DEF r, d
    <3> QED
      BY <3>1, <3>2, <3>3
  <2>3. CASE ~StillSelected(request[p], doc[p])
    BY <1>1, <2>1, <2>3 DEF ResetTarget, StillSelected, Goto
  <2> QED
    BY <2>2, <2>3
<1>2. ASSUME NEW p \in Procs, Hydrate(p) PROVE AttemptsFit'
  BY <1>2 DEF Hydrate, Goto, Hydrated
<1>3. ASSUME NEW p \in Procs, DropStores(p) PROVE AttemptsFit'
  BY <1>3 DEF DropStores, Goto, Release
<1>4. ASSUME NEW p \in Procs, NEW d \in Docs, SelectTarget(p, d) PROVE AttemptsFit'
  BY <1>4 DEF SelectTarget, Selected
<1>5. ASSUME NEW p \in Procs, NEW d \in Docs, CancelDocument(p, d) PROVE AttemptsFit'
  BY <1>5 DEF CancelDocument, Cancelled, WriteStatus
<1>6. ASSUME NEW p \in Procs, NEW d \in Docs, AdvanceDocument(p, d) PROVE AttemptsFit'
  BY <1>6 DEF AdvanceDocument, WriteStatus
<1>7. ASSUME NEW p \in Procs, NEW d \in Docs, EndDocument(p, d) PROVE AttemptsFit'
  BY <1>7 DEF EndDocument, WriteStatus
<1>8. ASSUME NEW d \in Docs, DeleteDocument(d) PROVE AttemptsFit'
  BY <1>8 DEF DeleteDocument
<1>9. ASSUME NEW d \in Docs, SubmitDocument(d) PROVE AttemptsFit'
  BY <1>9 DEF SubmitDocument, WriteStatus
<1>10. ASSUME UNCHANGED <<attempts, target, version>> PROVE AttemptsFit'
  BY <1>10
<1>11. ASSUME NEW p \in Procs,
              \/ ExplicitCall(p) \/ Poll(p) \/ ReadControl(p) \/ GiveUpAdmission(p)
              \/ AdmitReset(p) \/ NextRequest(p) \/ FinishSelection(p) \/ NextTarget(p)
              \/ FinishTarget(p) \/ AdmitBatch(p) \/ FetchPage(p) \/ EndBatch(p) \/ AdmitClear(p)
              \/ CancelRequests(p) \/ Fail(p)
       PROVE  AttemptsFit'
  BY <1>10, <1>11 DEF ExplicitCall, Poll, Goto, ReadControl, GiveUpAdmission, AdmitReset,
     NextRequest, Release, FinishSelection, NextTarget, FinishTarget, AdmitBatch, FetchPage,
     EndBatch, AdmitClear, CancelRequests, Fail
<1>12. ASSUME NEW p \in Procs, NEW d \in Docs,
              \/ ClaimOne(p, d) \/ StartDocument(p, d) \/ ReleaseClaim(p, d)
       PROVE  AttemptsFit'
  BY <1>10, <1>12 DEF ClaimOne, StartDocument, ReleaseClaim
<1>13. ASSUME NEW r \in Requests, NEW c \in {clock - 1, clock}, RequestRetry(r, c)
       PROVE  AttemptsFit'
  BY <1>10, <1>13 DEF RequestRetry
<1>14. ASSUME Pause \/ Fence \/ Recover PROVE AttemptsFit'
  BY <1>10, <1>14 DEF Pause, Fence, Recover
<1>15. ASSUME UNCHANGED vars PROVE AttemptsFit'
  BY <1>10, <1>15 DEF vars
<1> QED
  BY <1>1, <1>2, <1>3, <1>4, <1>5, <1>6, <1>7, <1>8, <1>9, <1>11, <1>12, <1>13, <1>14, <1>15
     DEF Next, Retry, Batch, Clear

\* The version check of the reset forbids a second attempt.
LEMMA AtMostOneAttemptStep ==
  ASSUME PipelineAssumption, RetryTypes, GhostTypes, ResetTypes, RetriesFit, AttemptsFit,
         AtMostOneAttempt, [Next]_vars
  PROVE  AtMostOneAttempt'
<1> USE DEF RetryTypes, GhostTypes, ResetTypes, RetriesFit, AttemptsFit, AtMostOneAttempt,
            control, retries, store, reset, batch, ghosts
<1>1. ASSUME NEW p \in Procs, ResetTarget(p) PROVE AtMostOneAttempt'
  <2>1. request[p] \in Requests /\ doc[p] \in Docs
    BY <1>1 DEF ResetTarget
  <2>2. CASE StillSelected(request[p], doc[p])
    <3> DEFINE r == request[p]
               d == doc[p]
    <3>1. /\ docState' = [docState EXCEPT ![d] = "PENDING"]
          /\ clock' = clock + 1
          /\ version' = [version EXCEPT ![d] = clock + 1]
          /\ attempts' = [attempts EXCEPT ![r][d] = @ + 1]
          /\ version[d] = target[r][d] /\ docState[d] = "FAILED"
          /\ UNCHANGED <<control, retries, reset, wanted, overtaken, fenced>>
      BY <1>1, <2>2 DEF ResetTarget, WriteStatus, StillSelected
    <3> HIDE DEF r, d
    <3>2. r \in Requests /\ d \in Docs
      BY <2>1 DEF r, d
    <3>3. attempts[r][d] = 0
      BY <3>1, <3>2
    <3> QED
      BY <3>1, <3>2, <3>3
  <2>3. CASE ~StillSelected(request[p], doc[p])
    BY <1>1, <2>1, <2>3 DEF ResetTarget, StillSelected, Goto
  <2> QED
    BY <2>2, <2>3
<1>2. ASSUME UNCHANGED attempts PROVE AtMostOneAttempt'
  BY <1>2
<1>3. ASSUME NEW p \in Procs,
             \/ ExplicitCall(p) \/ Poll(p) \/ ReadControl(p) \/ GiveUpAdmission(p)
             \/ AdmitReset(p) \/ NextRequest(p) \/ FinishSelection(p) \/ NextTarget(p)
             \/ FinishTarget(p) \/ AdmitBatch(p) \/ FetchPage(p) \/ Hydrate(p) \/ EndBatch(p)
             \/ AdmitClear(p) \/ CancelRequests(p) \/ DropStores(p) \/ Fail(p)
      PROVE  AtMostOneAttempt'
  BY <1>2, <1>3 DEF ExplicitCall, Poll, Goto, ReadControl, GiveUpAdmission, AdmitReset,
     NextRequest, Release, FinishSelection, NextTarget, FinishTarget, AdmitBatch, FetchPage,
     Hydrate, EndBatch, AdmitClear, CancelRequests, DropStores, Fail
<1>4. ASSUME NEW p \in Procs, NEW d \in Docs,
             \/ SelectTarget(p, d) \/ ClaimOne(p, d) \/ StartDocument(p, d)
             \/ CancelDocument(p, d) \/ AdvanceDocument(p, d) \/ EndDocument(p, d)
             \/ ReleaseClaim(p, d)
      PROVE  AtMostOneAttempt'
  BY <1>2, <1>4 DEF SelectTarget, ClaimOne, StartDocument, CancelDocument, WriteStatus,
     AdvanceDocument, EndDocument, ReleaseClaim
<1>5. ASSUME NEW d \in Docs, DeleteDocument(d) \/ SubmitDocument(d) PROVE AtMostOneAttempt'
  BY <1>2, <1>5 DEF DeleteDocument, SubmitDocument, WriteStatus
<1>6. ASSUME NEW r \in Requests, NEW c \in {clock - 1, clock}, RequestRetry(r, c)
      PROVE  AtMostOneAttempt'
  BY <1>2, <1>6 DEF RequestRetry
<1>7. ASSUME Pause \/ Fence \/ Recover PROVE AtMostOneAttempt'
  BY <1>2, <1>7 DEF Pause, Fence, Recover
<1>8. ASSUME UNCHANGED vars PROVE AtMostOneAttempt'
  BY <1>2, <1>8 DEF vars
<1> QED
  BY <1>1, <1>3, <1>4, <1>5, <1>6, <1>7, <1>8 DEF Next, Retry, Batch, Clear

\* No failure that precedes the cutoff escapes the selection and the reset.
LEMMA SelectionFitsStep ==
  ASSUME PipelineAssumption, OperationTypes, RetryTypes, StoreTypes, ResetTypes, TicketsFit,
         RetriesFit, TimesFit, SelectionFits, [Next]_vars
  PROVE  SelectionFits'
<1> USE DEF OperationTypes, RetryTypes, StoreTypes, ResetTypes, TicketsFit, RetriesFit,
            TimesFit, SelectionFits, Due, RetryLabels, control, retries, store, reset,
            batch, ghosts
<1>1. ASSUME NEW r \in Requests, NEW c \in {clock - 1, clock}, RequestRetry(r, c)
      PROVE  SelectionFits'
  <2>1. CASE reqState[r] = "unused"
    <3>1. done[r] = {}
      BY <2>1
    <3>2. /\ cutoff' = [cutoff EXCEPT ![r] = c]
          /\ reqState' = [reqState EXCEPT ![r] = "selecting"]
          /\ UNCHANGED <<pc, target, done, docState, version, scanned, request, doc>>
      BY <1>1, <2>1 DEF RequestRetry, Fresh
    <3>3. \A p \in Procs :
             pc[p] \in {"select", "ack"} => request[p] \in Requests \ {r}
      BY <2>1
    <3> QED
      BY <2>1, <3>1, <3>2, <3>3
  <2>2. CASE reqState[r] # "unused"
    BY <1>1, <2>2 DEF RequestRetry, Fresh
  <2> QED
    BY <2>1, <2>2
<1>2. ASSUME NEW p \in Procs, ExplicitCall(p) PROVE SelectionFits'
  BY <1>2 DEF ExplicitCall
<1>3. ASSUME NEW p \in Procs, Poll(p) PROVE SelectionFits'
  BY <1>3 DEF Poll, Goto
<1>4. ASSUME NEW p \in Procs, ReadControl(p) PROVE SelectionFits'
  BY <1>4 DEF ReadControl, Goto
<1>5. ASSUME NEW p \in Procs, GiveUpAdmission(p) PROVE SelectionFits'
  BY <1>5 DEF GiveUpAdmission, Goto, Admissible
<1>6. ASSUME NEW p \in Procs, AdmitReset(p) PROVE SelectionFits'
  <2>1. \A q \in Procs : pc'[q] \in {"select", "ack"} => pc'[q] = pc[q]
    BY <1>6 DEF AdmitReset, Goto
  <2>2. UNCHANGED <<scanned, request, doc, docState, version, cutoff, target, reqState, done>>
    BY <1>6 DEF AdmitReset
  <2> QED
    BY <2>1, <2>2
<1>7. ASSUME NEW p \in Procs, NextRequest(p) PROVE SelectionFits'
  <2>1. UNCHANGED <<scanned, doc, docState, version, cutoff, target, reqState, done>>
    BY <1>7 DEF NextRequest
  <2>2. \A q \in Procs : pc'[q] = "ack" => pc[q] = "ack" /\ request'[q] = request[q]
    BY <1>7 DEF NextRequest, Goto
  <2>3. \A q \in Procs : pc'[q] = "select" =>
           scanned[q] = {} \/ (pc[q] = "select" /\ request'[q] = request[q])
    BY <1>7 DEF NextRequest, Goto
  <2> QED
    BY <2>1, <2>2, <2>3
<1>8. ASSUME NEW p \in Procs, FinishSelection(p) PROVE SelectionFits'
  BY <1>8 DEF FinishSelection, Goto, SelectionComplete
<1>9. ASSUME NEW p \in Procs, NextTarget(p) PROVE SelectionFits'
  <2>1. \A q \in Procs : pc'[q] \in {"select", "ack"} =>
           pc'[q] = pc[q] /\ doc'[q] = doc[q]
    BY <1>9 DEF NextTarget, Goto
  <2>2. UNCHANGED <<scanned, request, docState, version, cutoff, target, done>>
    BY <1>9 DEF NextTarget
  <2>3. \A r \in Requests : reqState'[r] = reqState[r] \/ reqState'[r] = "completed"
    BY <1>9 DEF NextTarget
  <2>4. \A r \in Requests : reqState[r] = "retired" => reqState'[r] = "retired"
    BY <1>9 DEF NextTarget
  <2> QED
    BY <2>1, <2>2, <2>3, <2>4
<1>10. ASSUME NEW p \in Procs, ResetTarget(p) PROVE SelectionFits'
  <2> DEFINE r == request[p]
             d == doc[p]
  <2>1. r \in Requests /\ d \in Docs /\ target[r][d] > 0 /\ version[d] \in Nat
    BY <1>10 DEF ResetTarget
  <2>2. /\ UNCHANGED <<scanned, request, doc, cutoff, target, reqState, done>>
        /\ pc' = [pc EXCEPT ![p] = "ack"]
    BY <1>10 DEF ResetTarget, Goto
  <2>3. CASE StillSelected(r, d)
    <3>1. /\ docState' = [docState EXCEPT ![d] = "PENDING"]
          /\ version' = [version EXCEPT ![d] = clock + 1]
      BY <1>10, <2>3 DEF ResetTarget, WriteStatus
    <3> HIDE DEF r, d
    <3>2. \A q \in Requests, e \in Docs : Due(q, e)' => Due(q, e)
      BY <2>1, <2>2, <3>1
    <3>3. docState'[d] # "FAILED"
      BY <2>1, <3>1
    <3> QED
      BY <2>2, <3>2, <3>3 DEF r, d
  <2>4. CASE ~StillSelected(r, d)
    <3>1. UNCHANGED <<docState, version>>
      BY <1>10, <2>4 DEF ResetTarget
    <3>2. ~Due(r, d)
      BY <2>1, <2>4 DEF StillSelected
    <3> QED
      BY <2>2, <3>1, <3>2
  <2> QED
    BY <2>3, <2>4
<1>11. ASSUME NEW p \in Procs, FinishTarget(p) PROVE SelectionFits'
  BY <1>11 DEF FinishTarget, Goto
<1>12. ASSUME NEW p \in Procs, AdmitBatch(p) PROVE SelectionFits'
  <2>1. \A q \in Procs : pc'[q] \in {"select", "ack"} => pc'[q] = pc[q]
    BY <1>12 DEF AdmitBatch, Goto
  <2>2. UNCHANGED <<scanned, request, doc, docState, version, cutoff, target, reqState, done>>
    BY <1>12 DEF AdmitBatch
  <2> QED
    BY <2>1, <2>2
<1>13. ASSUME NEW p \in Procs, FetchPage(p) PROVE SelectionFits'
  BY <1>13 DEF FetchPage, Goto
<1>14. ASSUME NEW p \in Procs, Hydrate(p) PROVE SelectionFits'
  BY <1>14 DEF Hydrate, Goto, Hydrated
<1>15. ASSUME NEW p \in Procs, EndBatch(p) PROVE SelectionFits'
  <2>1. \A q \in Procs : pc'[q] \in {"select", "ack"} => pc'[q] = pc[q]
    BY <1>15 DEF EndBatch, Goto
  <2>2. UNCHANGED <<scanned, request, doc, docState, version, cutoff, target, reqState, done>>
    BY <1>15 DEF EndBatch
  <2> QED
    BY <2>1, <2>2
<1>16. ASSUME NEW p \in Procs, AdmitClear(p) PROVE SelectionFits'
  BY <1>16 DEF AdmitClear, Goto, Admissible
<1>17. ASSUME NEW p \in Procs, CancelRequests(p) PROVE SelectionFits'
  BY <1>17 DEF CancelRequests, Goto
<1>18. ASSUME NEW p \in Procs, DropStores(p) PROVE SelectionFits'
  BY <1>18 DEF DropStores, Goto, Release
<1>19. ASSUME NEW p \in Procs, Fail(p) PROVE SelectionFits'
  BY <1>19 DEF Fail, Goto
<1>20. ASSUME NEW p \in Procs, NEW d \in Docs, SelectTarget(p, d) PROVE SelectionFits'
  BY <1>20 DEF SelectTarget, Selected
<1>21. ASSUME NEW p \in Procs, NEW d \in Docs, CancelDocument(p, d) PROVE SelectionFits'
  BY <1>21 DEF CancelDocument, Cancelled, WriteStatus
<1>22. ASSUME NEW p \in Procs, NEW d \in Docs, AdvanceDocument(p, d) PROVE SelectionFits'
  BY <1>22 DEF AdvanceDocument, WriteStatus
<1>23. ASSUME NEW p \in Procs, NEW d \in Docs, EndDocument(p, d) PROVE SelectionFits'
  <2>1. PICK s \in {"PROCESSED", "FAILED"} :
           /\ docState' = [docState EXCEPT ![d] = s]
           /\ clock' = clock + 1
           /\ version' = [version EXCEPT ![d] = clock + 1]
    BY <1>23 DEF EndDocument, WriteStatus
  <2>2. UNCHANGED <<pc, scanned, request, doc, cutoff, target, done, reqState>>
    BY <1>23 DEF EndDocument
  <2> QED
    BY <2>1, <2>2
<1>24. ASSUME NEW d \in Docs, DeleteDocument(d) PROVE SelectionFits'
  BY <1>24 DEF DeleteDocument
<1>25. ASSUME NEW d \in Docs, SubmitDocument(d) PROVE SelectionFits'
  BY <1>25 DEF SubmitDocument, WriteStatus
<1>26. ASSUME Recover PROVE SelectionFits'
  BY <1>26 DEF Recover
<1>27. ASSUME UNCHANGED <<pc, scanned, request, doc, docState, version, cutoff, target, reqState,
                        done>>
       PROVE  SelectionFits'
  BY <1>27
<1>28. ASSUME NEW p \in Procs, NEW d \in Docs,
              \/ ClaimOne(p, d) \/ StartDocument(p, d) \/ ReleaseClaim(p, d)
       PROVE  SelectionFits'
  BY <1>27, <1>28 DEF ClaimOne, StartDocument, ReleaseClaim
<1>29. ASSUME Pause \/ Fence PROVE SelectionFits'
  BY <1>27, <1>29 DEF Pause, Fence
<1>30. ASSUME UNCHANGED vars PROVE SelectionFits'
  BY <1>27, <1>30 DEF vars
<1> QED
  BY <1>1, <1>2, <1>3, <1>4, <1>5, <1>6, <1>7, <1>8, <1>9, <1>10, <1>11, <1>12, <1>13, <1>14,
     <1>15, <1>16, <1>17, <1>18, <1>19, <1>20, <1>21, <1>22, <1>23, <1>24, <1>25, <1>26,
     <1>28, <1>29, <1>30 DEF Next, Retry, Batch, Clear

\* A pause leaves its mark on every batch it overtakes.
LEMMA CommandsFitStep ==
  ASSUME PipelineAssumption, ControlTypes, OperationTypes, BatchTypes, GhostTypes,
         CommandsFit, [Next]_vars
  PROVE  CommandsFit'
<1> USE DEF ControlTypes, OperationTypes, BatchTypes, GhostTypes, CommandsFit, BatchLabels,
            control, retries, store, reset, batch, ghosts
<1>1. ASSUME Pause PROVE CommandsFit'
  BY <1>1 DEF Pause
<1>2. ASSUME NEW r \in Requests, NEW c \in {clock - 1, clock}, RequestRetry(r, c)
      PROVE  CommandsFit'
  BY <1>2 DEF RequestRetry, Fresh
<1>3. ASSUME NEW p \in Procs, ExplicitCall(p) PROVE CommandsFit'
  BY <1>3 DEF ExplicitCall
<1>4. ASSUME NEW p \in Procs, Poll(p) PROVE CommandsFit'
  BY <1>4 DEF Poll, Goto
<1>5. ASSUME NEW p \in Procs, ReadControl(p) PROVE CommandsFit'
  BY <1>5 DEF ReadControl, Goto
<1>6. ASSUME NEW p \in Procs, GiveUpAdmission(p) PROVE CommandsFit'
  BY <1>6 DEF GiveUpAdmission, Goto, Admissible
<1>7. ASSUME NEW p \in Procs, AdmitReset(p) PROVE CommandsFit'
  BY <1>7 DEF AdmitReset, Goto, Admissible
<1>8. ASSUME NEW p \in Procs, NextRequest(p) PROVE CommandsFit'
  BY <1>8 DEF NextRequest, Goto, Release
<1>9. ASSUME NEW p \in Procs, FinishSelection(p) PROVE CommandsFit'
  BY <1>9 DEF FinishSelection, Goto, SelectionComplete
<1>10. ASSUME NEW p \in Procs, NextTarget(p) PROVE CommandsFit'
  BY <1>10 DEF NextTarget, Goto, Remaining
<1>11. ASSUME NEW p \in Procs, ResetTarget(p) PROVE CommandsFit'
  BY <1>11 DEF ResetTarget, Goto, StillSelected, WriteStatus
<1>12. ASSUME NEW p \in Procs, FinishTarget(p) PROVE CommandsFit'
  BY <1>12 DEF FinishTarget, Goto
<1>13. ASSUME NEW p \in Procs, AdmitBatch(p) PROVE CommandsFit'
  BY <1>13 DEF AdmitBatch, Goto, Admissible
<1>14. ASSUME NEW p \in Procs, FetchPage(p) PROVE CommandsFit'
  BY <1>14 DEF FetchPage, Goto
<1>15. ASSUME NEW p \in Procs, Hydrate(p) PROVE CommandsFit'
  BY <1>15 DEF Hydrate, Goto, Hydrated
<1>16. ASSUME NEW p \in Procs, EndBatch(p) PROVE CommandsFit'
  BY <1>16 DEF EndBatch, Goto, Release
<1>17. ASSUME NEW p \in Procs, AdmitClear(p) PROVE CommandsFit'
  BY <1>17 DEF AdmitClear, Goto, Admissible
<1>18. ASSUME NEW p \in Procs, CancelRequests(p) PROVE CommandsFit'
  BY <1>18 DEF CancelRequests, Goto
<1>19. ASSUME NEW p \in Procs, DropStores(p) PROVE CommandsFit'
  BY <1>19 DEF DropStores, Goto, Release
<1>20. ASSUME NEW p \in Procs, Fail(p) PROVE CommandsFit'
  BY <1>20 DEF Fail, Goto
<1>21. ASSUME Recover PROVE CommandsFit'
  BY <1>21 DEF Recover
<1>22. ASSUME UNCHANGED <<wanted, paused, pc, observed, epoch, overtaken>> PROVE CommandsFit'
  BY <1>22
<1>23. ASSUME NEW p \in Procs, NEW d \in Docs,
              \/ SelectTarget(p, d) \/ ClaimOne(p, d) \/ StartDocument(p, d)
              \/ CancelDocument(p, d) \/ AdvanceDocument(p, d) \/ EndDocument(p, d)
              \/ ReleaseClaim(p, d)
       PROVE  CommandsFit'
  BY <1>22, <1>23 DEF SelectTarget, ClaimOne, StartDocument, CancelDocument, WriteStatus,
     AdvanceDocument, EndDocument, ReleaseClaim
<1>24. ASSUME NEW d \in Docs, DeleteDocument(d) \/ SubmitDocument(d) PROVE CommandsFit'
  BY <1>22, <1>24 DEF DeleteDocument, SubmitDocument, WriteStatus
<1>25. ASSUME Fence PROVE CommandsFit'
  BY <1>22, <1>25 DEF Fence
<1>26. ASSUME UNCHANGED vars PROVE CommandsFit'
  BY <1>22, <1>26 DEF vars
<1> QED
  BY <1>1, <1>2, <1>3, <1>4, <1>5, <1>6, <1>7, <1>8, <1>9, <1>10, <1>11, <1>12, <1>13, <1>14,
     <1>15, <1>16, <1>17, <1>18, <1>19, <1>20, <1>21, <1>23, <1>24, <1>25, <1>26 DEF Next,
     Retry, Batch, Clear

\* A request is completed when its targets are done, and what fails later is newer.
LEMMA CompletedRequestServedStep ==
  ASSUME PipelineAssumption, RetryTypes, StoreTypes, ResetTypes, RetriesFit, TimesFit,
         SelectionFits,
         CompletedRequestServed, [Next]_vars
  PROVE  CompletedRequestServed'
<1> USE DEF RetryTypes, StoreTypes, ResetTypes, RetriesFit, TimesFit, SelectionFits, Due,
            CompletedRequestServed, control, retries, store, reset, batch, ghosts
<1>1. ASSUME NEW r \in Requests, NEW c \in {clock - 1, clock}, RequestRetry(r, c)
      PROVE  CompletedRequestServed'
  <2>1. CASE reqState[r] = "unused"
    <3>1. /\ cutoff' = [cutoff EXCEPT ![r] = c]
          /\ reqState' = [reqState EXCEPT ![r] = "selecting"]
          /\ UNCHANGED <<docState, version>>
      BY <1>1, <2>1 DEF RequestRetry, Fresh
    <3> QED
      BY <3>1
  <2>2. CASE reqState[r] # "unused"
    BY <1>1, <2>2 DEF RequestRetry, Fresh
  <2> QED
    BY <2>1, <2>2
<1>2. ASSUME NEW p \in Procs, FinishSelection(p) PROVE CompletedRequestServed'
  BY <1>2 DEF FinishSelection, Goto, SelectionComplete, CompletedRequestServed
<1>3. ASSUME NEW p \in Procs, NextTarget(p) PROVE CompletedRequestServed'
  BY <1>3 DEF NextTarget, Goto, Remaining, CompletedRequestServed
<1>4. ASSUME NEW p \in Procs, ResetTarget(p) PROVE CompletedRequestServed'
  BY <1>4 DEF ResetTarget, Goto, StillSelected, WriteStatus, CompletedRequestServed
<1>5. ASSUME NEW p \in Procs, Hydrate(p) PROVE CompletedRequestServed'
  BY <1>5 DEF Hydrate, Goto, Hydrated, CompletedRequestServed
<1>6. ASSUME NEW p \in Procs, CancelRequests(p) PROVE CompletedRequestServed'
  BY <1>6 DEF CancelRequests, Goto, CompletedRequestServed
<1>7. ASSUME NEW p \in Procs, DropStores(p) PROVE CompletedRequestServed'
  BY <1>7 DEF DropStores, Goto, Release, CompletedRequestServed
<1>8. ASSUME NEW p \in Procs, NEW d \in Docs, CancelDocument(p, d) PROVE CompletedRequestServed'
  BY <1>8 DEF CancelDocument, Cancelled, WriteStatus, CompletedRequestServed
<1>9. ASSUME NEW p \in Procs, NEW d \in Docs, AdvanceDocument(p, d)
      PROVE  CompletedRequestServed'
  BY <1>9 DEF AdvanceDocument, WriteStatus, CompletedRequestServed
<1>10. ASSUME NEW p \in Procs, NEW d \in Docs, EndDocument(p, d) PROVE CompletedRequestServed'
  <2>1. PICK s \in {"PROCESSED", "FAILED"} :
           /\ docState' = [docState EXCEPT ![d] = s]
           /\ clock' = clock + 1
           /\ version' = [version EXCEPT ![d] = clock + 1]
    BY <1>10 DEF EndDocument, WriteStatus
  <2>2. UNCHANGED <<cutoff, reqState>>
    BY <1>10 DEF EndDocument
  <2> QED
    BY <2>1, <2>2
<1>11. ASSUME NEW d \in Docs, DeleteDocument(d) PROVE CompletedRequestServed'
  BY <1>11 DEF DeleteDocument, CompletedRequestServed
<1>12. ASSUME NEW d \in Docs, SubmitDocument(d) PROVE CompletedRequestServed'
  BY <1>12 DEF SubmitDocument, WriteStatus, CompletedRequestServed
<1>13. ASSUME UNCHANGED <<reqState, docState, version, cutoff>> PROVE CompletedRequestServed'
  BY <1>13 DEF CompletedRequestServed
<1>14. ASSUME NEW p \in Procs,
              \/ ExplicitCall(p) \/ Poll(p) \/ ReadControl(p) \/ GiveUpAdmission(p)
              \/ AdmitReset(p) \/ NextRequest(p) \/ FinishTarget(p) \/ AdmitBatch(p)
              \/ FetchPage(p) \/ EndBatch(p) \/ AdmitClear(p) \/ Fail(p)
       PROVE  CompletedRequestServed'
  BY <1>13, <1>14 DEF ExplicitCall, Poll, Goto, ReadControl, GiveUpAdmission, AdmitReset,
     NextRequest, Release, FinishTarget, AdmitBatch, FetchPage, EndBatch, AdmitClear, Fail
<1>15. ASSUME NEW p \in Procs, NEW d \in Docs,
              \/ SelectTarget(p, d) \/ ClaimOne(p, d) \/ StartDocument(p, d) \/ ReleaseClaim(p, d)
       PROVE  CompletedRequestServed'
  BY <1>13, <1>15 DEF SelectTarget, ClaimOne, StartDocument, ReleaseClaim
<1>16. ASSUME Pause \/ Fence \/ Recover PROVE CompletedRequestServed'
  BY <1>13, <1>16 DEF Pause, Fence, Recover
<1>17. ASSUME UNCHANGED vars PROVE CompletedRequestServed'
  BY <1>13, <1>17 DEF vars
<1> QED
  BY <1>1, <1>2, <1>3, <1>4, <1>5, <1>6, <1>7, <1>8, <1>9, <1>10, <1>11, <1>12, <1>14, <1>15,
     <1>16, <1>17 DEF Next, Retry, Batch, Clear

-----------------------------------------------------------------------------
(* The inductive invariant and the theorems.                               *)

\* Any mix of pending and failed documents satisfies the invariant.
LEMMA InitEstablishes == ASSUME PipelineAssumption, Init PROVE IInv
<1> USE DEF PipelineAssumption, Init
<1>1. TypeOK
  <2>1. ControlTypes /\ RetryTypes /\ ResetTypes
    BY DEF ControlTypes, RetryTypes, ResetTypes, RequestStates
  <2>2. StoreTypes
    <3>1. \A d \in Docs : docState[d] \in DocStates
      BY DEF DocStates
    <3> QED
      BY <3>1 DEF StoreTypes
  <2>4. OperationTypes
    BY DEF OperationTypes, Modes, Labels
  <2>3. BatchTypes /\ GhostTypes
    BY DEF BatchTypes, GhostTypes
  <2> QED
    BY <2>1, <2>2, <2>3, <2>4 DEF TypeOK
<1>2. TicketsFit /\ BatchesFit /\ RetriesFit
  BY DEF TicketsFit, BatchesFit, RetriesFit, RetryLabels, BatchLabels
<1>3. TimesFit /\ AttemptsFit
  <2>1. \A d \in Docs : version[d] = 1 /\ docState[d] # "absent"
    OBVIOUS
  <2>2. \A q \in Requests, d \in Docs : target[q][d] = 0 /\ attempts[q][d] = 0
    OBVIOUS
  <2>3. \A q \in Requests : cutoff[q] = 0 /\ done[q] = {}
    OBVIOUS
  <2>4. clock = 1
    OBVIOUS
  <2> HIDE DEF Init
  <2> QED
    BY <2>1, <2>2, <2>3, <2>4 DEF TimesFit, AttemptsFit
<1>4. SelectionFits /\ CommandsFit
  BY DEF SelectionFits, CommandsFit, Due, BatchLabels
<1>5. AtMostOneAttempt /\ CompletedRequestServed
  BY DEF AtMostOneAttempt, CompletedRequestServed
<1> QED
  BY <1>1, <1>2, <1>3, <1>4, <1>5 DEF IInv

\* Every step keeps every part of it.
LEMMA StepPreserves == ASSUME PipelineAssumption, IInv, [Next]_vars PROVE IInv'
BY TypeStep, TicketsFitStep, BatchesFitStep, RetriesFitStep, TimesFitStep, AttemptsFitStep,
   AtMostOneAttemptStep, SelectionFitsStep, CommandsFitStep, CompletedRequestServedStep
   DEF IInv, TypeOK

\* Tickets, claims, target versions and control row fit together at every moment,
\* for any number of processes, documents and requests.
THEOREM Inductive == ASSUME PipelineAssumption PROVE Spec => []IInv
<1>1. Init => IInv
  BY InitEstablishes
<1>2. IInv /\ [Next]_vars => IInv'
  BY StepPreserves
<1> QED
  BY <1>1, <1>2, PTL DEF Spec

\* The state stays well typed.
THEOREM TypeCorrect == ASSUME PipelineAssumption PROVE Spec => []TypeOK
<1>1. IInv => TypeOK
  BY DEF IInv
<1> QED
  BY <1>1, Inductive, PTL

\* try_claim_document(), operation(): a document is worked on in one batch only,
\* and in none while a reset or a clear is admitted.
THEOREM BatchesNeverMeet == ASSUME PipelineAssumption PROVE Spec => []BatchesExclude
<1>1. IInv => BatchesExclude
  <2> SUFFICES ASSUME IInv, NEW p \in Procs, NEW q \in Procs, p # q
               PROVE  /\ active[p] \cap active[q] = {}
                      /\ active[p] # {} => ticket[q] # "exclusive"
    BY DEF BatchesExclude
  <2>1. \A d \in active[p] : d \notin active[q]
    BY DEF IInv, BatchesFit
  <2>2. active[p] # {} => ticket[p] = "shared"
    BY DEF IInv, BatchesFit, TicketsFit, BatchLabels
  <2>3. ticket[q] = "exclusive" => ticket[p] = "none"
    BY DEF IInv, TicketsFit
  <2> QED
    BY <2>1, <2>2, <2>3
<1> QED
  BY <1>1, Inductive, PTL

\* reset_requests(): one attempt per request and document, through every replay of
\* the request, interruption of the reset and restart of the selection.
THEOREM OneAttempt == ASSUME PipelineAssumption PROVE Spec => []AtMostOneAttempt
<1>1. IInv => AtMostOneAttempt
  BY DEF IInv
<1> QED
  BY <1>1, Inductive, PTL

\* finish_request(): completed means that no earlier failure was left behind.
THEOREM CompletionIsHonest ==
  ASSUME PipelineAssumption PROVE Spec => []CompletedRequestServed
<1>1. IInv => CompletedRequestServed
  BY DEF IInv
<1> QED
  BY <1>1, Inductive, PTL

\* An attempt is given by ResetTarget alone, to the version that was selected.
LEMMA AttemptStep ==
  ASSUME IInv, [Next]_vars, NEW r \in Requests, NEW d \in Docs, attempts'[r][d] > attempts[r][d]
  PROVE  /\ version[d] <= cutoff[r]
         /\ reqState[r] = "resetting"
<1> USE DEF IInv, TypeOK, GhostTypes, control, retries, store, reset, batch, ghosts
<1>1. ASSUME NEW p \in Procs, ResetTarget(p)
      PROVE  version[d] <= cutoff[r] /\ reqState[r] = "resetting"
  <2>1. request[p] = r /\ doc[p] = d /\ StillSelected(r, d)
    BY <1>1 DEF ResetTarget
  <2> QED
    BY <1>1, <2>1 DEF ResetTarget, StillSelected, RetriesFit, TimesFit
<1>2. attempts' # attempts
  OBVIOUS
<1>3. ASSUME NEW p \in Procs, Retry(p) PROVE \E q \in Procs : ResetTarget(q)
  BY <1>2, <1>3 DEF Retry, AdmitReset, NextRequest, FinishSelection, NextTarget, FinishTarget,
     SelectTarget
<1>4. ASSUME NEW p \in Procs, Batch(p) PROVE FALSE
  BY <1>2, <1>4 DEF Batch, AdmitBatch, FetchPage, Hydrate, EndBatch, ClaimOne,
     StartDocument, CancelDocument, AdvanceDocument, EndDocument, ReleaseClaim
<1>5. ASSUME NEW p \in Procs,
             \/ ExplicitCall(p) \/ Poll(p) \/ ReadControl(p) \/ GiveUpAdmission(p)
             \/ Clear(p) \/ Fail(p)
      PROVE  FALSE
  BY <1>2, <1>5 DEF ExplicitCall, Poll, ReadControl, GiveUpAdmission, Clear, AdmitClear,
     CancelRequests, DropStores, Fail
<1>6. ~(Pause \/ Fence \/ Recover \/ UNCHANGED vars)
  BY <1>2 DEF Pause, Fence, Recover, vars
<1>7. \A q \in Requests, c \in {clock - 1, clock} : ~RequestRetry(q, c)
  BY <1>2 DEF RequestRetry
<1>8. \A e \in Docs : ~(DeleteDocument(e) \/ SubmitDocument(e))
  BY <1>2 DEF DeleteDocument, SubmitDocument
<1> QED
  BY <1>1, <1>3, <1>4, <1>5, <1>6, <1>7, <1>8 DEF Next

\* reset_requests(): a failure newer than the cutoff of a request gets no attempt
\* from it, and a request that a clear has retired gives none.
THEOREM ResetsAreDue == ASSUME PipelineAssumption PROVE Spec => OnlyOldFailuresReset
<1>1. IInv /\ [Next]_vars =>
        [\A r \in Requests, d \in Docs :
           attempts'[r][d] > attempts[r][d] =>
               version[d] <= cutoff[r] /\ reqState[r] = "resetting"]_vars
  BY AttemptStep
<1> QED
  BY <1>1, Inductive, PTL DEF Spec, OnlyOldFailuresReset


\* Only a worker that has checked for cancellation starts a document.
LEMMA StartStep ==
  ASSUME IInv, [Next]_vars, NEW p \in Procs, active'[p] \ active[p] # {}
  PROVE  wanted /\ ~overtaken[p]
<1> USE DEF IInv, TypeOK, control, retries, store, reset, batch, ghosts
<1>1. ASSUME NEW q \in Procs, NEW d \in Docs, StartDocument(q, d)
      PROVE  wanted /\ ~overtaken[p]
  <2>1. p = q
    BY <1>1 DEF StartDocument, BatchTypes
  <2>2. pc[p] = "batch" /\ ~paused /\ epoch = observed[p]
    BY <1>1, <2>1 DEF StartDocument, Cancelled
  <2>3. wanted
    BY <2>2 DEF CommandsFit
  <2>4. ~overtaken[p]
    BY <2>2 DEF CommandsFit, BatchLabels, ControlTypes, BatchTypes
  <2> QED
    BY <2>3, <2>4
<1>2. ~(\/ active' = active
        \/ \E q \in Procs : active' = [active EXCEPT ![q] = {}]
        \/ \E q \in Procs, d \in Docs : active' = [active EXCEPT ![q] = @ \ {d}])
  BY DEF BatchTypes
<1>3. ASSUME NEW q \in Procs, Batch(q)
      PROVE  \E o \in Procs, d \in Docs : StartDocument(o, d)
  BY <1>2, <1>3 DEF Batch, AdmitBatch, FetchPage, Hydrate, EndBatch, ClaimOne,
     CancelDocument, AdvanceDocument, EndDocument, ReleaseClaim
<1>4. ASSUME NEW q \in Procs, Retry(q) PROVE FALSE
  BY <1>2, <1>4 DEF Retry, AdmitReset, NextRequest, FinishSelection, NextTarget, ResetTarget,
     FinishTarget, SelectTarget
<1>5. ASSUME NEW q \in Procs,
             \/ ExplicitCall(q) \/ Poll(q) \/ ReadControl(q) \/ GiveUpAdmission(q)
             \/ Clear(q) \/ Fail(q)
      PROVE  FALSE
  BY <1>2, <1>5 DEF ExplicitCall, Poll, ReadControl, GiveUpAdmission, Clear, AdmitClear,
     CancelRequests, DropStores, Fail
<1>6. ~(Pause \/ Fence \/ Recover \/ UNCHANGED vars)
  BY <1>2 DEF Pause, Fence, Recover, vars
<1>7. \A r \in Requests, c \in {clock - 1, clock} : ~RequestRetry(r, c)
  BY <1>2 DEF RequestRetry
<1>8. \A e \in Docs : ~(DeleteDocument(e) \/ SubmitDocument(e))
  BY <1>2 DEF DeleteDocument, SubmitDocument
<1> QED
  BY <1>1, <1>3, <1>4, <1>5, <1>6, <1>7, <1>8 DEF Next

\* pause(), _cancellation_requested(): a document is started only while the last
\* command allows it, and never in a batch that began before a pause, though the
\* pipeline was resumed since.
THEOREM PauseStopsStarts == ASSUME PipelineAssumption PROVE Spec => StartsAreWanted
<1>1. IInv /\ [Next]_vars =>
        [\A p \in Procs : active'[p] \ active[p] # {} => wanted /\ ~overtaken[p]]_vars
  BY StartStep
<1> QED
  BY <1>1, Inductive, PTL DEF Spec, StartsAreWanted

\* What a step may do to the row of a document.
Revival(d) ==
    /\ docState[d] = "FAILED" /\ docState'[d] \notin {"FAILED", "absent"} =>
           \E r \in Requests : attempts'[r][d] > attempts[r][d]
    /\ docState[d] = "PROCESSED" => docState'[d] \in {"PROCESSED", "absent"}

\* A failure is revived by a request, and what is processed stays so.
LEMMA RevivalStep ==
  ASSUME PipelineAssumption, IInv, [Next]_vars, NEW e \in Docs
  PROVE  Revival(e)
<1> USE DEF IInv, Revival, TypeOK, StoreTypes, control, retries, store, reset, batch, ghosts
<1>1. ASSUME NEW p \in Procs, ResetTarget(p) PROVE Revival(e)
  <2>1. request[p] \in Requests /\ doc[p] \in Docs
    BY <1>1 DEF ResetTarget, RetriesFit
  <2>2. CASE StillSelected(request[p], doc[p])
    BY <1>1, <2>1, <2>2 DEF ResetTarget, WriteStatus, StillSelected, GhostTypes
  <2>3. CASE ~StillSelected(request[p], doc[p])
    BY <1>1, <2>3 DEF ResetTarget
  <2> QED
    BY <2>2, <2>3
<1>2. ASSUME NEW p \in Procs, Hydrate(p) PROVE Revival(e)
  <2>1. \A d \in Docs : docState[d] \notin Automatic => docState'[d] = docState[d]
    BY <1>2 DEF Hydrate, Hydrated
  <2> QED
    BY <2>1 DEF Automatic
<1>3. ASSUME NEW p \in Procs, DropStores(p) PROVE Revival(e)
  BY <1>3 DEF DropStores, Goto, Release
<1>4. ASSUME NEW p \in Procs, NEW d \in Docs, CancelDocument(p, d) PROVE Revival(e)
  <2>1. docState[d] \in Automatic
    BY <1>4 DEF CancelDocument, BatchesFit
  <2> QED
    BY <1>4, <2>1 DEF CancelDocument, WriteStatus, Automatic
<1>5. ASSUME NEW p \in Procs, NEW d \in Docs, AdvanceDocument(p, d) PROVE Revival(e)
  BY <1>5 DEF AdvanceDocument, WriteStatus
<1>6. ASSUME NEW p \in Procs, NEW d \in Docs, EndDocument(p, d) PROVE Revival(e)
  <2>1. docState[d] \in Automatic
    BY <1>6 DEF EndDocument, BatchesFit
  <2> QED
    BY <1>6, <2>1 DEF EndDocument, WriteStatus, Automatic
<1>7. ASSUME NEW d \in Docs, DeleteDocument(d) PROVE Revival(e)
  BY <1>7 DEF DeleteDocument
<1>8. ASSUME NEW d \in Docs, SubmitDocument(d) PROVE Revival(e)
  BY <1>8 DEF SubmitDocument, WriteStatus
<1>9. ASSUME UNCHANGED docState PROVE Revival(e)
  BY <1>9
<1>10. ASSUME NEW p \in Procs,
              \/ ExplicitCall(p) \/ Poll(p) \/ ReadControl(p) \/ GiveUpAdmission(p)
              \/ AdmitReset(p) \/ NextRequest(p) \/ FinishSelection(p) \/ NextTarget(p)
              \/ FinishTarget(p) \/ AdmitBatch(p) \/ FetchPage(p) \/ EndBatch(p) \/ AdmitClear(p)
              \/ CancelRequests(p) \/ Fail(p)
       PROVE  Revival(e)
  BY <1>9, <1>10 DEF ExplicitCall, Poll, Goto, ReadControl, GiveUpAdmission, AdmitReset,
     NextRequest, Release, FinishSelection, NextTarget, FinishTarget, AdmitBatch, FetchPage,
     EndBatch, AdmitClear, CancelRequests, Fail
<1>11. ASSUME NEW p \in Procs, NEW d \in Docs,
              \/ SelectTarget(p, d) \/ ClaimOne(p, d) \/ StartDocument(p, d) \/ ReleaseClaim(p, d)
       PROVE  Revival(e)
  BY <1>9, <1>11 DEF SelectTarget, ClaimOne, StartDocument, ReleaseClaim
<1>12. ASSUME NEW r \in Requests, NEW c \in {clock - 1, clock}, RequestRetry(r, c)
       PROVE  Revival(e)
  BY <1>9, <1>12 DEF RequestRetry
<1>13. ASSUME Pause \/ Fence \/ Recover PROVE Revival(e)
  BY <1>9, <1>13 DEF Pause, Fence, Recover
<1>14. ASSUME UNCHANGED vars PROVE Revival(e)
  BY <1>9, <1>14 DEF vars
<1> QED
  BY <1>1, <1>2, <1>3, <1>4, <1>5, <1>6, <1>7, <1>8, <1>10, <1>11, <1>12, <1>13, <1>14 DEF
     Next, Retry, Batch, Clear

\* process(): FAILED is revived by a retry request only, and PROCESSED never,
\* whatever page a batch read before its claims.
THEOREM RevivalIsRequested == ASSUME PipelineAssumption PROVE Spec => OnlyRequestsRevive
<1>1. IInv /\ [Next]_vars =>
        [\A d \in Docs :
           /\ docState[d] = "FAILED" /\ docState'[d] \notin {"FAILED", "absent"} =>
                  \E r \in Requests : attempts'[r][d] > attempts[r][d]
           /\ docState[d] = "PROCESSED" => docState'[d] \in {"PROCESSED", "absent"}]_vars
  BY RevivalStep DEF Revival
<1> QED
  BY <1>1, Inductive, PTL DEF Spec, OnlyRequestsRevive
-----------------------------------------------------------------------------
(* The promise of module RetryOnce.                                        *)

LEMMA ConditionValues ==
  /\ Condition("absent") = "gone" /\ Condition("FAILED") = "failed"
  /\ Condition("PROCESSED") = "done"
  /\ \A s \in Automatic : Condition(s) = "waiting"
BY DEF Condition, Automatic

LEMMA StandingValues ==
  /\ Standing("unused") = "new" /\ Standing("completed") = "served"
  /\ Standing("retired") = "withdrawn"
  /\ Standing("selecting") = "open" /\ Standing("resetting") = "open"
BY DEF Standing

\* A write of the status store, seen from there.
LEMMA RowImage ==
  ASSUME StoreTypes, NEW d \in Docs, NEW s \in DocStates \ {"absent"}, WriteStatus(d, s)
  PROVE  /\ clock' > clock
         /\ Conditions' = [Conditions EXCEPT ![d] = Condition(s)]
         /\ Failures' = [Failures EXCEPT ![d] = IF s = "FAILED" THEN clock' ELSE 0]
<1>1. clock' = clock + 1 /\ clock \in Nat
  BY DEF WriteStatus, StoreTypes
<1>2. \A e \in Docs : docState'[e] = (IF e = d THEN s ELSE docState[e])
  BY DEF WriteStatus, StoreTypes
<1>3. \A e \in Docs : version'[e] = (IF e = d THEN clock' ELSE version[e])
  BY <1>1 DEF WriteStatus, StoreTypes
<1>4. Conditions' = [Conditions EXCEPT ![d] = Condition(s)]
  BY <1>2 DEF Conditions
<1>5. Failures' = [Failures EXCEPT ![d] = IF s = "FAILED" THEN clock' ELSE 0]
  BY <1>2, <1>3 DEF Failures
<1> QED
  BY <1>1, <1>4, <1>5

\* Rows that go, and rows that are pending again.
LEMMA RemovalImage ==
  ASSUME clock' >= clock, UNCHANGED <<reqState, cutoff, attempts>>, NEW D \in SUBSET Docs,
         \A d \in D : docState'[d] = "absent",
         \A d \in Docs \ D : \/ docState'[d] = docState[d] /\ version'[d] = version[d]
                             \/ docState[d] \in Automatic /\ docState'[d] \in Automatic
  PROVE  Promise!Next
<1>1. Conditions' = [d \in Docs |-> IF d \in D THEN "gone" ELSE Conditions[d]]
  <2>1. \A d \in Docs :
            Condition(docState'[d]) = IF d \in D THEN "gone" ELSE Condition(docState[d])
    BY ConditionValues
  <2> QED
    BY <2>1 DEF Conditions
<1>2. Failures' = [d \in Docs |-> IF d \in D THEN 0 ELSE Failures[d]]
  BY DEF Failures, Automatic
<1>3. UNCHANGED <<Standings, cutoff, Retried>>
  BY DEF Standings, Retried
<1>4. Promise!Remove(D)
  BY <1>1, <1>2, <1>3 DEF Promise!Remove
<1> QED
  BY <1>4 DEF Promise!Next

\* A document that fails.
LEMMA FailureImage ==
  ASSUME StoreTypes, UNCHANGED <<reqState, cutoff, attempts>>, NEW d \in Docs,
         docState[d] \in Automatic \cup {"absent"}, WriteStatus(d, "FAILED")
  PROVE  Promise!Next
<1>1. /\ clock' > clock
      /\ Conditions' = [Conditions EXCEPT ![d] = Condition("FAILED")]
      /\ Failures' = [Failures EXCEPT ![d] = clock']
  BY RowImage DEF DocStates
<1>2. Conditions[d] \in {"gone", "waiting"}
  BY ConditionValues DEF Conditions
<1>3. UNCHANGED <<Standings, cutoff, Retried>>
  BY DEF Standings, Retried
<1>4. Promise!Fail(d)
  BY <1>1, <1>2, <1>3, ConditionValues DEF Promise!Fail
<1>5. clock' >= clock
  BY <1>1 DEF StoreTypes, WriteStatus
<1> QED
  BY <1>4, <1>5 DEF Promise!Next

LEMMA NothingSeen ==
  ASSUME UNCHANGED <<docState, version, clock, reqState, cutoff, attempts>>
  PROVE  UNCHANGED Promise!vars
BY DEF Promise!vars, Conditions, Failures, Standings, Retried

\* An attempt: the failure is the one that was selected, and had none before.
LEMMA ResetImage ==
  ASSUME IInv, NEW p \in Procs, ResetTarget(p) PROVE [Promise!Next]_Promise!vars
<1> DEFINE r == request[p]
           d == doc[p]
<1> USE DEF IInv, TypeOK
<1>1. r \in Requests /\ d \in Docs /\ reqState[r] = "resetting" /\ UNCHANGED <<reqState, cutoff>>
  BY DEF ResetTarget, RetriesFit, retries
<1>2. CASE ~StillSelected(r, d)
  BY <1>1, <1>2, NothingSeen DEF ResetTarget, store
<1>3. CASE StillSelected(r, d)
  <2> HIDE DEF r, d
  <2>1. WriteStatus(d, "PENDING") /\ attempts' = [attempts EXCEPT ![r][d] = @ + 1]
    BY <1>3 DEF ResetTarget, r, d
  <2>2. docState[d] = "FAILED" /\ d \in Docs \ (Contentless \cup Patched)
    BY <1>1, <1>3 DEF StillSelected
  <2>3. version[d] <= cutoff[r]
    BY <1>1, <1>3 DEF StillSelected, TimesFit
  <2>4. attempts[r][d] = 0
    <3>1. attempts[r][d] \in Nat /\ ~(attempts[r][d] > 0)
      BY <1>1, <1>3 DEF StillSelected, AttemptsFit, GhostTypes
    <3> QED
      BY <3>1
  <2>5. Retried' = [Retried EXCEPT ![r] = @ \cup {d}]
    <3>1. \A q \in Requests, e \in Docs :
              attempts'[q][e] > 0 <=> (attempts[q][e] > 0 \/ (q = r /\ e = d))
      BY <1>1, <2>1 DEF GhostTypes
    <3>2. \A q \in Requests :
              Retried'[q] = IF q = r THEN Retried[q] \cup {d} ELSE Retried[q]
      BY <1>1, <3>1 DEF Retried
    <3> QED
      BY <1>1, <3>2 DEF Retried
  <2>6. /\ clock' > clock
        /\ Conditions' = [Conditions EXCEPT ![d] = "waiting"]
        /\ Failures' = [Failures EXCEPT ![d] = 0]
    BY <1>1, <2>1, RowImage, ConditionValues DEF DocStates, Automatic
  <2>7. Standings[r] = "open" /\ UNCHANGED Standings
    BY <1>1, StandingValues DEF Standings
  <2>8. d \notin Retried[r] /\ Conditions[d] = "failed" /\ Failures[d] = version[d]
    BY <1>1, <2>2, <2>4, ConditionValues DEF Retried, Conditions, Failures
  <2>9. Promise!Retry(r, d)
    BY <1>1, <2>2, <2>3, <2>5, <2>6, <2>7, <2>8 DEF Promise!Retry, Promise!Owed
  <2>10. clock' >= clock
    BY <2>6, <2>1 DEF WriteStatus, StoreTypes
  <2> QED
    BY <1>1, <2>9, <2>10 DEF Promise!Next
<1> QED
  BY <1>2, <1>3

\* A request that is accepted, and what its replay leaves alone.
LEMMA AskImage ==
  ASSUME IInv, NEW r \in Requests, NEW c \in {clock - 1, clock}, RequestRetry(r, c)
  PROVE  [Promise!Next]_Promise!vars
<1> USE DEF IInv, TypeOK
<1>1. UNCHANGED <<docState, version, clock, attempts>>
  BY DEF RequestRetry, store
<1>2. CASE ~Fresh(r)
  BY <1>1, <1>2, NothingSeen DEF RequestRetry
<1>3. CASE Fresh(r)
  <2>1. /\ reqState' = [reqState EXCEPT ![r] = "selecting"]
        /\ cutoff' = [cutoff EXCEPT ![r] = c]
    BY <1>3 DEF RequestRetry
  <2>2. Standings[r] = "new" /\ Standings' = [Standings EXCEPT ![r] = "open"]
    BY <1>3, <2>1, StandingValues DEF Fresh, Standings, RetryTypes
  <2>3. cutoff'[r] <= clock /\ cutoff' = [cutoff EXCEPT ![r] = cutoff'[r]]
    BY <2>1, CutoffRange DEF RetryTypes
  <2>4. UNCHANGED <<Conditions, Failures, Retried>>
    BY <1>1 DEF Conditions, Failures, Retried
  <2>5. Promise!Ask(r)
    BY <2>2, <2>3, <2>4 DEF Promise!Ask
  <2> QED
    BY <1>1, <2>5 DEF Promise!Next, StoreTypes
<1> QED
  BY <1>2, <1>3

\* A request that has no targets left owes nothing.
LEMMA ServeImage ==
  ASSUME IInv, NEW p \in Procs, NextTarget(p) PROVE [Promise!Next]_Promise!vars
<1> DEFINE r == request[p]
<1> USE DEF IInv, TypeOK
<1>1. r \in Requests /\ reqState[r] = "resetting"
  BY DEF NextTarget, RetriesFit
<1>2. UNCHANGED <<docState, version, clock, cutoff, attempts>>
  BY DEF NextTarget, store, ghosts
<1>3. CASE UNCHANGED reqState
  BY <1>2, <1>3, NothingSeen
<1>4. CASE Remaining(r) = {} /\ reqState' = [reqState EXCEPT ![r] = "completed"]
  <2> HIDE DEF r
  <2>1. Standings[r] = "open" /\ Standings' = [Standings EXCEPT ![r] = "served"]
    BY <1>1, <1>4, StandingValues DEF Standings, RetryTypes
  <2>2. \A d \in Docs : ~Due(r, d)
    BY <1>1, <1>4 DEF SelectionFits, Remaining
  <2>3. \A d \in Docs : ~Promise!Owed(r, d)
    BY <2>2, ConditionValues
       DEF Promise!Owed, Due, Conditions, Failures, StoreTypes, DocStates, Automatic
  <2>4. UNCHANGED <<Conditions, Failures, Retried>>
    BY <1>2 DEF Conditions, Failures, Retried
  <2>5. Promise!Serve(r)
    BY <1>2, <2>1, <2>3, <2>4 DEF Promise!Serve
  <2> QED
    BY <1>1, <1>2, <2>5 DEF Promise!Next, StoreTypes
<1> QED
  BY <1>1, <1>3, <1>4 DEF NextTarget

\* clear: everything that is open is withdrawn.
LEMMA WithdrawImage ==
  ASSUME IInv, NEW p \in Procs, CancelRequests(p) PROVE Promise!Next
<1>1. /\ UNCHANGED <<docState, version, clock, cutoff, attempts>>
      /\ reqState' = [r \in Requests |-> IF Unfinished(r) THEN "retired" ELSE reqState[r]]
  BY DEF CancelRequests, store, ghosts
<1>2. Standings' = [r \in Requests |-> IF Standings[r] = "open" THEN "withdrawn" ELSE Standings[r]]
  <2>1. \A r \in Requests : Unfinished(r) <=> Standing(reqState[r]) = "open"
    BY StandingValues DEF Unfinished, IInv, TypeOK, RetryTypes, RequestStates
  <2>2. \A r \in Requests : Standing(reqState'[r]) =
            IF Standing(reqState[r]) = "open" THEN "withdrawn" ELSE Standing(reqState[r])
    BY <1>1, <2>1, StandingValues
  <2> QED
    BY <2>2 DEF Standings
<1>3. UNCHANGED <<Conditions, Failures, Retried>>
  BY <1>1 DEF Conditions, Failures, Retried
<1>4. Promise!Withdraw
  BY <1>1, <1>2, <1>3 DEF Promise!Withdraw
<1> QED
  BY <1>1, <1>4 DEF Promise!Next, IInv, TypeOK, StoreTypes

\* Each step is a step of the promise, or changes nothing of it.
LEMMA PromiseStep ==
  ASSUME PipelineAssumption, IInv, [Next]_vars PROVE [Promise!Next]_Promise!vars
<1> USE DEF IInv, TypeOK, control, retries, store, reset, batch, ghosts
<1>1. ASSUME NEW p \in Procs, NEW d \in Docs, CancelDocument(p, d) PROVE Promise!Next
  <2>1. docState[d] \in Automatic
    BY <1>1 DEF CancelDocument, BatchesFit
  <2> QED
    BY <1>1, <2>1, FailureImage DEF CancelDocument
<1>2. ASSUME NEW p \in Procs, NEW d \in Docs, AdvanceDocument(p, d) PROVE Promise!Next
  <2>1. clock' >= clock
    BY <1>2 DEF AdvanceDocument, WriteStatus, StoreTypes
  <2>2. \A e \in Docs :
            \/ docState'[e] = docState[e] /\ version'[e] = version[e]
            \/ docState[e] \in Automatic /\ docState'[e] \in Automatic
    BY <1>2 DEF AdvanceDocument, WriteStatus, StoreTypes, Automatic
  <2>3. UNCHANGED <<reqState, cutoff, attempts>>
    BY <1>2 DEF AdvanceDocument
  <2>4. {} \in SUBSET Docs /\ Docs \ {} = Docs /\ \A e \in {} : docState'[e] = "absent"
    OBVIOUS
  <2> QED
    BY <2>1, <2>2, <2>3, <2>4, RemovalImage
<1>3. ASSUME NEW p \in Procs, NEW d \in Docs, EndDocument(p, d) PROVE Promise!Next
  <2>1. docState[d] \in Automatic
    BY <1>3 DEF EndDocument, BatchesFit
  <2>2. CASE WriteStatus(d, "FAILED")
    BY <1>3, <2>1, <2>2, FailureImage DEF EndDocument
  <2>3. CASE WriteStatus(d, "PROCESSED")
    <3>1. /\ clock' > clock
          /\ Conditions' = [Conditions EXCEPT ![d] = "done"]
          /\ Failures' = [Failures EXCEPT ![d] = 0]
      BY <2>3, RowImage, ConditionValues DEF DocStates
    <3>2. Conditions[d] = "waiting" /\ Failures[d] = 0
      BY <2>1, ConditionValues DEF Conditions, Failures, Automatic
    <3>3. UNCHANGED Failures
      BY <3>1, <3>2 DEF Failures
    <3>4. UNCHANGED <<Standings, cutoff, Retried>>
      BY <1>3 DEF EndDocument, Standings, Retried
    <3>5. clock' >= clock
      BY <2>3 DEF WriteStatus, StoreTypes
    <3> QED
      BY <3>1, <3>2, <3>3, <3>4, <3>5 DEF Promise!Next, Promise!Process
  <2> QED
    BY <1>3, <2>2, <2>3 DEF EndDocument
<1>4. ASSUME NEW p \in Procs, Hydrate(p) PROVE Promise!Next
  <2> DEFINE D == Hydrated(todo[p]) \cap Contentless
  <2>1. D \in SUBSET Docs /\ \A d \in D : docState'[d] = "absent"
    BY <1>4 DEF Hydrate, PipelineAssumption
  <2>2. \A d \in Docs \ D :
            \/ docState'[d] = docState[d] /\ version'[d] = version[d]
            \/ docState[d] \in Automatic /\ docState'[d] \in Automatic
    BY <1>4 DEF Hydrate, Hydrated, Automatic
  <2>3. clock' >= clock
    BY <1>4 DEF Hydrate, StoreTypes
  <2> HIDE DEF D
  <2> QED
    BY <1>4, <2>1, <2>2, <2>3, RemovalImage DEF Hydrate
<1>5. ASSUME NEW p \in Procs, DropStores(p) PROVE Promise!Next
  BY <1>5, RemovalImage DEF DropStores, StoreTypes
<1>6. ASSUME NEW d \in Docs, DeleteDocument(d) PROVE Promise!Next
  <2>1. {d} \in SUBSET Docs /\ clock' >= clock
    BY <1>6 DEF DeleteDocument, StoreTypes
  <2>2. \A e \in {d} : docState'[e] = "absent"
    BY <1>6 DEF DeleteDocument, StoreTypes
  <2>3. \A e \in Docs \ {d} : docState'[e] = docState[e] /\ version'[e] = version[e]
    BY <1>6 DEF DeleteDocument, StoreTypes
  <2> QED
    BY <1>6, <2>1, <2>2, <2>3, RemovalImage DEF DeleteDocument
<1>7. ASSUME NEW d \in Docs, SubmitDocument(d) PROVE Promise!Next
  <2>1. CASE WriteStatus(d, "FAILED")
    BY <1>7, <2>1, FailureImage DEF SubmitDocument
  <2>2. CASE WriteStatus(d, "PENDING")
    <3>1. /\ clock' > clock
          /\ Conditions' = [Conditions EXCEPT ![d] = "waiting"]
          /\ Failures' = [Failures EXCEPT ![d] = 0]
      BY <2>2, RowImage, ConditionValues DEF DocStates, Automatic
    <3>2. Conditions[d] = "gone" /\ Failures[d] = 0
      BY <1>7, ConditionValues DEF SubmitDocument, Conditions, Failures
    <3>3. UNCHANGED Failures
      BY <3>1, <3>2 DEF Failures
    <3>4. UNCHANGED <<Standings, cutoff, Retried>>
      BY <1>7 DEF SubmitDocument, Standings, Retried
    <3>5. clock' >= clock
      BY <2>2 DEF WriteStatus, StoreTypes
    <3> QED
      BY <3>1, <3>2, <3>3, <3>4, <3>5 DEF Promise!Next, Promise!Submit
  <2> QED
    BY <1>7, <2>1, <2>2 DEF SubmitDocument
<1>8. ASSUME NEW p \in Procs, FinishSelection(p) PROVE UNCHANGED Promise!vars
  <2>1. UNCHANGED Standings
    <3>1. request[p] \in Requests /\ reqState[request[p]] = "selecting"
      BY <1>8 DEF FinishSelection, RetriesFit
    <3>2. reqState' = [reqState EXCEPT ![request[p]] = "resetting"]
      BY <1>8, <3>1 DEF FinishSelection
    <3>3. \A r \in Requests : Standing(reqState'[r]) = Standing(reqState[r])
      BY <3>1, <3>2, StandingValues DEF RetryTypes
    <3> QED
      BY <3>3 DEF Standings
  <2> QED
    BY <1>8, <2>1 DEF FinishSelection, Promise!vars, Conditions, Failures, Retried
<1>9. ASSUME NEW p \in Procs,
              \/ ExplicitCall(p) \/ Poll(p) \/ ReadControl(p) \/ GiveUpAdmission(p)
              \/ AdmitReset(p) \/ NextRequest(p) \/ FinishTarget(p) \/ AdmitBatch(p)
              \/ FetchPage(p) \/ EndBatch(p) \/ AdmitClear(p) \/ Fail(p)
       PROVE  UNCHANGED Promise!vars
  BY <1>9, NothingSeen DEF ExplicitCall, Poll, Goto, ReadControl, GiveUpAdmission, AdmitReset,
     NextRequest, Release, FinishTarget, AdmitBatch, FetchPage, EndBatch, AdmitClear, Fail
<1>10. ASSUME NEW p \in Procs, NEW d \in Docs,
              \/ SelectTarget(p, d) \/ ClaimOne(p, d) \/ StartDocument(p, d) \/ ReleaseClaim(p, d)
       PROVE  UNCHANGED Promise!vars
  BY <1>10, NothingSeen DEF SelectTarget, ClaimOne, StartDocument, ReleaseClaim
<1>11. ASSUME Pause \/ Fence \/ Recover PROVE UNCHANGED Promise!vars
  BY <1>11, NothingSeen DEF Pause, Fence, Recover
<1>12. ASSUME UNCHANGED vars PROVE UNCHANGED Promise!vars
  BY <1>12, NothingSeen DEF vars
<1> QED
  BY <1>1, <1>2, <1>3, <1>4, <1>5, <1>6, <1>7, <1>8, <1>9, <1>10, <1>11, <1>12,
     ResetImage, AskImage, ServeImage, WithdrawImage DEF Next, Retry, Batch, Clear

\* reset_requests(): seen through the failures of the documents, the pipeline implements
\* the promise - one attempt of each failure that precedes a request, none of another,
\* and no end before all of them had theirs.
THEOREM RequestsAreKept == ASSUME PipelineAssumption PROVE Spec => RetriesOnce
<1>1. Init => Promise!Init
  <2> SUFFICES ASSUME Init PROVE Promise!Init
    OBVIOUS
  <2>1. Conditions \in [Docs -> {"waiting", "failed"}]
    BY ConditionValues DEF Init, Conditions, Automatic
  <2>2. Failures = [d \in Docs |-> IF Conditions[d] = "failed" THEN clock ELSE 0]
    BY ConditionValues DEF Init, Failures, Conditions, Automatic
  <2>3. Standings = [r \in Requests |-> "new"] /\ Retried = [r \in Requests |-> {}]
    BY StandingValues DEF Init, Standings, Retried
  <2> QED
    BY <2>1, <2>2, <2>3 DEF Init, Promise!Init
<1>2. IInv /\ [Next]_vars => [Promise!Next]_Promise!vars
  BY PromiseStep
<1> QED
  BY <1>1, <1>2, Inductive, PTL DEF Spec, RetriesOnce, Promise!Spec
=============================================================================
