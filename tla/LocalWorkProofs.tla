--------------------------- MODULE LocalWorkProofs ---------------------------
(***************************************************************************)
(* LocalPipeline: unless a fault has just taken away the run that owed it,  *)
(* all queued work has an owner.  For any number of workers, jobs and       *)
(* documents, any mix of requests and any page size.                       *)
(***************************************************************************)
EXTENDS LocalPipelineProofs

Holders == Fitting /\ HoldersFit
Calm == ~lapsed /\ ~status.recovery

\* Where the job is whose scan keeps the others out.
ScanPlaces ==
    {"request", "claim", "hold", "quiet", "reset", "ack", "thaw", "exit",
     "write", "publish", "narrow", "giveup"}

\* A step of j leaves the holders to the others, and j is where a holder may be.
Keeps(j) ==
    /\ status'.busy # None =>
          \/ status'.busy = status.busy /\ status.busy # j
          \/ status'.busy = j /\ pc'[j] \in Reserving
    /\ status'.exclusive =>
          \/ status'.scanning = status.scanning /\ status.exclusive /\ status.scanning # j
          \/ status'.scanning = j /\ pc'[j] \in ScanPlaces
    /\ \A k \in Jobs \ {j} : pc[k] # "dead" /\ Classifying(k) => Classifying(k)'
    /\ pc'[j] \in {"request", "claim", "hold", "quiet"} => Classifying(j)'

LEMMA HoldersAre ==
  ASSUME Holders
  PROVE  /\ \A j \in Jobs :
              /\ status.busy = j => pc[j] \in Reserving \cup {"dead"}
              /\ pc[j] \in Reserving => status.busy = j
              /\ Classifying(j) => pc[j] \in ScanPlaces \cup {"dead"} /\ kind[j] = "scan"
              /\ pc[j] \in {"request", "claim", "hold", "quiet"} => Classifying(j)
         /\ None \notin Jobs
         /\ status \in Statuses /\ pc \in [Jobs -> Places]
         /\ status.busy \in Jobs \cup {None} /\ status.scanning \in Jobs \cup {None}
<1>1. /\ None \notin Jobs /\ status \in Statuses /\ pc \in [Jobs -> Places]
      /\ status.busy \in Jobs \cup {None} /\ status.scanning \in Jobs \cup {None}
  BY DEF Holders, Fitting, TypeOK, Statuses, LocalAssumption
<1>2. ASSUME NEW j \in Jobs
      PROVE  /\ status.busy = j => pc[j] \in Reserving \cup {"dead"}
             /\ pc[j] \in Reserving => status.busy = j
             /\ Classifying(j) => pc[j] \in ScanPlaces \cup {"dead"} /\ kind[j] = "scan"
             /\ pc[j] \in {"request", "claim", "hold", "quiet"} => Classifying(j)
  <2>1. j # None
    BY <1>1
  <2>2. /\ status.busy = j => pc[j] \in Reserving \cup {"dead"}
        /\ pc[j] \in {"request", "claim", "hold", "quiet"} => Classifying(j)
    BY <2>1 DEF Holders, HoldersFit
  <2>3. pc[j] \in Reserving => status.busy = j
    BY DEF Holders, Fitting, Holding, JobsHold
  <2>4. Classifying(j) => pc[j] \in ScanPlaces \cup {"dead"} /\ kind[j] = "scan"
    BY <2>1 DEF Holders, HoldersFit, Fitting, Holding, KindsFit, Classifying, ScanPlaces
  <2> QED
    BY <2>2, <2>3, <2>4
<1> QED
  BY <1>1, <1>2

LEMMA HoldersStep ==
  ASSUME Holders, NEW j \in Jobs, Effect(j), Keeps(j)
  PROVE  HoldersFit'
<1>1. /\ pc \in [Jobs -> Places] /\ None \notin Jobs /\ status \in Statuses
      /\ status.busy \in Jobs \cup {None} /\ status.scanning \in Jobs \cup {None}
  BY HoldersAre
<1>2. \A k \in Jobs \ {j} : pc'[k] = pc[k]
  BY <1>1 DEF Effect, Goto
<1>3. status'.busy # None => pc'[status'.busy] \in Reserving \cup {"dead"}
  <2>1. CASE status'.busy = status.busy /\ status.busy # j /\ status'.busy # None
    <3>1. pc[status.busy] \in Reserving \cup {"dead"} /\ status.busy \in Jobs \ {j}
      BY <1>1, <2>1 DEF Holders, HoldersFit
    <3> QED
      BY <1>2, <2>1, <3>1
  <2> QED
    BY <2>1 DEF Keeps
<1>4. status'.exclusive =>
         status'.scanning # None /\ pc'[status'.scanning] \in ScanPlaces \cup {"dead"}
  <2>1. CASE status'.scanning = status.scanning /\ status.exclusive /\ status.scanning # j
    <3>1. status.scanning # None /\ pc[status.scanning] \in ScanPlaces \cup {"dead"}
      BY <2>1 DEF Holders, HoldersFit, ScanPlaces
    <3>2. status.scanning \in Jobs \ {j}
      BY <1>1, <2>1, <3>1
    <3> QED
      BY <1>2, <2>1, <3>1, <3>2
  <2>2. CASE status'.scanning = j /\ pc'[j] \in ScanPlaces
    BY <1>1, <2>2
  <2> QED
    BY <2>1, <2>2 DEF Keeps
<1>5. ASSUME NEW k \in Jobs, pc'[k] \in {"request", "claim", "hold", "quiet"}
      PROVE  Classifying(k)'
  <2>1. CASE k # j
    <3>1. pc[k] = pc'[k] /\ pc[k] # "dead" /\ Classifying(k)
      BY <1>2, <1>5, <2>1, HoldersAre
    <3> QED
      BY <2>1, <3>1 DEF Keeps
  <2> QED
    BY <1>5, <2>1 DEF Keeps
<1> QED
  BY <1>3, <1>4, <1>5 DEF HoldersFit, ScanPlaces

-----------------------------------------------------------------------------
(* Every step keeps the holders.                                           *)

\* Steps that leave the scans alone and at most give back the busy of j.
LEMMA OwnKeeps ==
  ASSUME Holders, NEW j \in Jobs, NEW l \in Places, Goto(j, l),
         status'.scanning = status.scanning, status'.exclusive = status.exclusive,
         status'.busy = status.busy \/ (status.busy = j /\ status'.busy = None),
         status'.busy = j => l \in Reserving,
         Classifying(j) => l \in ScanPlaces,
         l \in {"request", "claim", "hold", "quiet"} => Classifying(j)
  PROVE  Keeps(j)
<1>1. pc \in [Jobs -> Places] /\ None \notin Jobs
  BY HoldersAre
<1>2. pc'[j] = l
  BY <1>1 DEF Goto
<1>3. \A k \in Jobs : Classifying(k)' <=> Classifying(k)
  BY DEF Classifying
<1> QED
  BY <1>1, <1>2, <1>3 DEF Keeps, Classifying

LEMMA PlainKeeps ==
  ASSUME Holders, NEW j \in Jobs, NEW l \in Places, Goto(j, l), status' = status,
         \/ pc[j] \in Reserving \ ScanPlaces /\ l \in Reserving \ {"hold", "quiet"}
         \/ pc[j] \in Reserving /\ l \in {"reset", "ack", "thaw", "exit"}
         \/ pc[j] \in {"again"} /\ l \in {"drive", "done"}
         \/ pc[j] \in {"write", "publish"} /\ l \in {"publish", "narrow"}
         \/ pc[j] \in {"write", "publish"} /\ l \in {"unreserve", "drive"} /\ kind[j] # "scan"
         \/ pc[j] = "request" /\ l = "claim"
  PROVE  Keeps(j)
<1>1. /\ status.busy = j => pc[j] \in Reserving \cup {"dead"}
      /\ Classifying(j) => pc[j] \in ScanPlaces \cup {"dead"} /\ kind[j] = "scan"
      /\ pc[j] = "request" => Classifying(j)
  BY HoldersAre
<1>2. status.busy = j => l \in Reserving
  BY <1>1 DEF Reserving
<1>3. Classifying(j) => l \in ScanPlaces
  BY <1>1 DEF ScanPlaces, Reserving
<1>4. l \in {"request", "claim", "hold", "quiet"} => Classifying(j)
  BY <1>1 DEF Reserving
<1> QED
  BY <1>2, <1>3, <1>4, OwnKeeps

\* What a reaping leaves was reserved by the living.
LEMMA ReapedHolds ==
  ASSUME Holders
  PROVE  /\ Reaped \in Statuses
         /\ Reaped.busy # None => Reaped.busy = status.busy /\ pc[status.busy] # "dead"
         /\ Reaped.scanning # None =>
               /\ Reaped.scanning = status.scanning /\ pc[status.scanning] # "dead"
               /\ Reaped.exclusive = status.exclusive
         /\ Reaped.exclusive => Reaped.scanning # None
         /\ Reaped.cancel = status.cancel
         /\ status.recovery => Reaped.recovery
         /\ \A k \in Jobs : pc[k] # "dead" =>
               /\ status.busy = k => Reaped.busy = k
               /\ status.scanning = k => Reaped.scanning = k /\ Reaped.exclusive = status.exclusive
<1> DEFINE s1 == DeadBusy(status)
           s2 == DeadScan(s1)
           s3 == DeadTokens(s2)
<1>1. /\ status \in Statuses /\ Reaped = s3 /\ Reaped \in Statuses
      /\ status.exclusive => status.scanning # None
  BY ReapedRespects DEF Holders, Fitting, TypeOK, Reaped, HoldersFit
<1>2. /\ \A k \in Jobs : pc[k] # "dead" =>
           /\ status.busy = k => Reaped.busy = k
           /\ status.scanning = k => Reaped.scanning = k /\ Reaped.exclusive = status.exclusive
  BY ReapedRespects DEF Holders, Fitting
<1>3. /\ s1.scanning = status.scanning /\ s1.exclusive = status.exclusive
      /\ s1.cancel = status.cancel /\ s1 \in Statuses
      /\ status.recovery => s1.recovery
      /\ s1.busy # None => s1.busy = status.busy /\ pc[status.busy] # "dead"
  <2>1. CASE status.busy = None \/ pc[status.busy] # "dead"
    <3>1. s1 = status
      BY <2>1 DEF DeadBusy
    <3> HIDE DEF s1
    <3> QED
      BY <1>1, <2>1, <3>1
  <2>2. CASE ~(status.busy = None \/ pc[status.busy] # "dead")
    <3>1. s1 = [status EXCEPT !.phase = "idle", !.request = None, !.busy = None,
                              !.kind = "none",
                              !.recovery = status.recovery \/ status.kind # "processing"]
      BY <1>1, <2>2 DEF DeadBusy, Released, Unfrozen, Statuses
    <3>2. (status.recovery \/ status.kind # "processing") \in BOOLEAN
      OBVIOUS
    <3> DEFINE rec == status.recovery \/ status.kind # "processing"
    <3>3. rec \in BOOLEAN /\ (status.recovery => rec)
      OBVIOUS
    <3>4. s1 = [status EXCEPT !.phase = "idle", !.request = None, !.busy = None,
                              !.kind = "none", !.recovery = rec]
      BY <3>1
    <3> HIDE DEF s1, rec
    <3>5. /\ s1.scanning = status.scanning /\ s1.exclusive = status.exclusive
          /\ s1.cancel = status.cancel /\ s1 \in Statuses /\ s1.busy = None
      BY <1>1, <3>3, <3>4 DEF Statuses
    <3>6. s1.recovery = rec
      BY <1>1, <3>4 DEF Statuses
    <3> QED
      BY <3>3, <3>5, <3>6
  <2> QED
    BY <2>1, <2>2
<1> HIDE DEF s1
<1>4. /\ s2 \in Statuses /\ s2.busy = s1.busy /\ s2.cancel = s1.cancel
      /\ s2.recovery = s1.recovery
      /\ s2.scanning # None =>
            /\ s2.scanning = s1.scanning /\ pc[s1.scanning] # "dead"
            /\ s2.exclusive = s1.exclusive
      /\ s2.exclusive => s2.scanning # None
  <2>1. CASE s1.scanning = None \/ pc[s1.scanning] # "dead"
    <3>1. s2 = s1
      BY <2>1 DEF DeadScan
    <3> HIDE DEF s2
    <3> QED
      BY <1>1, <1>3, <2>1, <3>1
  <2>2. CASE ~(s1.scanning = None \/ pc[s1.scanning] # "dead")
    <3>1. s2 = [s1 EXCEPT !.scanning = None, !.exclusive = FALSE]
      BY <2>2 DEF DeadScan
    <3> HIDE DEF s2
    <3> QED
      BY <1>3, <3>1 DEF Statuses
  <2> QED
    BY <2>1, <2>2
<1> HIDE DEF s2
<1>5. /\ s3.busy = s2.busy /\ s3.cancel = s2.cancel /\ s3.recovery = s2.recovery
      /\ s3.scanning = s2.scanning /\ s3.exclusive = s2.exclusive
  BY <1>4 DEF DeadTokens, Statuses
<1> HIDE DEF s3
<1> QED
  BY <1>1, <1>2, <1>3, <1>4, <1>5

\* A reservation takes what nobody living holds.
LEMMA ReservedKeeps ==
  ASSUME Holders, NEW j \in Jobs, NEW l \in Places, Goto(j, l), pc[j] # "dead",
         NEW t, status' = t,
         \/ t.busy = Reaped.busy /\ (Reaped.busy = j => l \in Reserving)
         \/ Reaped.busy \in {None, j} /\ t.busy = j /\ l \in Reserving,
         \/ /\ t.scanning = Reaped.scanning /\ t.exclusive = Reaped.exclusive
            /\ Classifying(j) => l \in ScanPlaces
            /\ l \in {"request", "claim", "hold", "quiet"} => Classifying(j)
         \/ Reaped.scanning = None /\ t.scanning = j /\ t.exclusive /\ l \in ScanPlaces
  PROVE  Keeps(j)
<1>1. /\ pc \in [Jobs -> Places] /\ None \notin Jobs
      /\ \A k \in Jobs : pc[k] # "dead" /\ Classifying(k) => Reaped.scanning = k /\ Reaped.exclusive
  BY HoldersAre, ReapedHolds DEF Classifying
<1>2. pc'[j] = l
  BY <1>1 DEF Goto
<1>3. Reaped.exclusive =>
         Reaped.scanning = status.scanning /\ status.exclusive /\ Reaped.scanning # None
  BY ReapedHolds
<1>4. Reaped.busy # None => Reaped.busy = status.busy
  BY ReapedHolds
<1>5. t.busy # None =>
         \/ t.busy = status.busy /\ status.busy # j
         \/ t.busy = j /\ l \in Reserving
  BY <1>4
<1>6. CASE /\ t.scanning = Reaped.scanning /\ t.exclusive = Reaped.exclusive
           /\ Classifying(j) => l \in ScanPlaces
           /\ l \in {"request", "claim", "hold", "quiet"} => Classifying(j)
  <2>1. t.exclusive =>
           \/ t.scanning = status.scanning /\ status.exclusive /\ status.scanning # j
           \/ t.scanning = j /\ l \in ScanPlaces
    BY <1>3, <1>6 DEF Classifying
  <2>2. \A k \in Jobs : pc[k] # "dead" /\ Classifying(k) => t.scanning = k /\ t.exclusive
    BY <1>1, <1>6
  <2> QED
    BY <1>2, <1>5, <1>6, <2>1, <2>2 DEF Keeps, Classifying
<1>7. CASE Reaped.scanning = None /\ t.scanning = j /\ t.exclusive /\ l \in ScanPlaces
  <2>1. \A k \in Jobs : pc[k] # "dead" => ~Classifying(k)
    BY <1>1, <1>7
  <2>2. Classifying(j)'
    BY <1>7 DEF Classifying
  <2> QED
    BY <1>2, <1>5, <1>7, <2>1, <2>2 DEF Keeps
<1> QED
  BY <1>6, <1>7

LEMMA FreeOfBusy ==
  ASSUME Holders, NEW j \in Jobs, pc[j] \notin Reserving \cup {"dead"}
  PROVE  status.busy # j /\ Reaped.busy # j
BY HoldersAre, ReapedHolds

LEMMA FreeOfScan ==
  ASSUME Holders, NEW j \in Jobs, pc[j] \notin ScanPlaces \cup {"dead"} \/ kind[j] # "scan"
  PROVE  ~Classifying(j)
BY HoldersAre

LEMMA AdmitKeeps ==
  ASSUME Holders, NEW j \in Jobs, Admit(j)
  PROVE  Keeps(j)
<1>1. /\ pc[j] = "start" /\ Reaped \in Statuses /\ ~Classifying(j)
      /\ status.busy # j /\ Reaped.busy # j
  BY FreeOfBusy, FreeOfScan, ReapedHolds DEF Admit, Reserving, ScanPlaces
<1>2. CASE \/ status' = Reaped /\ \E l \in {"done", "drive"} : Goto(j, l)
           \/ status' = [Reaped EXCEPT !.tokens = @ \cup {j}] /\ Goto(j, "write")
  <2>1. PICK l \in {"done", "drive", "write"} : Goto(j, l)
    BY <1>2
  <2>2. /\ status'.busy = Reaped.busy /\ status'.scanning = Reaped.scanning
        /\ status'.exclusive = Reaped.exclusive
    BY <1>1, <1>2 DEF Statuses
  <2> QED
    BY <1>1, <2>1, <2>2, ReservedKeeps DEF Places
<1>3. CASE /\ ~Refused(j, Reaped) /\ kind[j] = "scan"
           /\ status' = [Reaped EXCEPT !.scanning = j, !.exclusive = TRUE]
           /\ Goto(j, "request")
  <2>1. Reaped.scanning = None
    BY <1>3 DEF Refused
  <2>2. status'.busy = Reaped.busy /\ status'.scanning = j /\ status'.exclusive
    BY <1>1, <1>3 DEF Statuses
  <2> QED
    BY <1>1, <1>3, <2>1, <2>2, ReservedKeeps DEF Places, ScanPlaces
<1>4. CASE /\ ~Refused(j, Reaped) /\ kind[j] \in {"delete", "batch"}
           /\ status' = [Reaped EXCEPT !.busy = j, !.kind = kind[j],
                                       !.cancel = @ /\ kind[j] = "batch"]
           /\ Goto(j, "delete")
  <2>1. Reaped.busy = None
    BY <1>4 DEF Refused
  <2>2. /\ status'.busy = j /\ status'.scanning = Reaped.scanning
        /\ status'.exclusive = Reaped.exclusive
    BY <1>1, <1>4 DEF Statuses
  <2>3. "delete" \in Places /\ "delete" \in Reserving
    BY DEF Places, Reserving
  <2> QED
    BY <1>1, <1>4, <2>1, <2>2, <2>3, ReservedKeeps
<1> QED
  BY <1>2, <1>3, <1>4 DEF Admit

LEMMA ClaimKeeps ==
  ASSUME Holders, NEW j \in Jobs, Claim(j)
  PROVE  Keeps(j)
<1>1. /\ pc[j] = "claim" /\ Reaped \in Statuses /\ Classifying(j)
      /\ status.busy # j /\ Reaped.busy # j
  BY FreeOfBusy, HoldersAre, ReapedHolds DEF Claim, Reserving
<1>2. CASE status' = Reaped /\ Goto(j, "giveup")
  BY <1>1, <1>2, ReservedKeeps DEF Places, ScanPlaces
<1>3. CASE /\ Reaped.busy = None
           /\ status' = [Reaped EXCEPT !.busy = j, !.kind = "processing", !.cancel = FALSE]
           /\ Goto(j, "hold")
  <2>1. /\ status'.busy = j /\ status'.scanning = Reaped.scanning
        /\ status'.exclusive = Reaped.exclusive
    BY <1>1, <1>3 DEF Statuses
  <2> QED
    BY <1>1, <1>3, <2>1, ReservedKeeps DEF Places, ScanPlaces, Reserving
<1> QED
  BY <1>2, <1>3 DEF Claim

LEMMA DriveKeeps ==
  ASSUME Holders, NEW j \in Jobs, Drive(j)
  PROVE  Keeps(j)
<1>1. /\ pc[j] \in {"drive", "handoff"} /\ Reaped \in Statuses /\ ~Classifying(j)
      /\ pc[j] = "drive" => Reaped.busy # j
      /\ pc[j] = "handoff" => Reaped.busy = j
  <2>1. pc[j] \in {"drive", "handoff"}
    BY DEF Drive
  <2>2. pc[j] = "handoff" => status.busy = j
    BY HoldersAre DEF Reserving
  <2> QED
    BY <2>1, <2>2, FreeOfBusy, FreeOfScan, ReapedHolds DEF Reserving, ScanPlaces
<1>2. Returned(j) \in Free /\ Returned(j) \in Places
  BY ReturnedIsFree
<1>3. CASE status' = Reaped /\ pc[j] = "handoff" /\ Goto(j, "exit")
  BY <1>1, <1>3, ReservedKeeps DEF Places, ScanPlaces, Reserving
<1>4. CASE /\ status' = Reaped \/ status' = [Reaped EXCEPT !.deferred = TRUE]
           /\ pc[j] = "drive" /\ Goto(j, Returned(j))
  <2>1. /\ status'.busy = Reaped.busy /\ status'.scanning = Reaped.scanning
        /\ status'.exclusive = Reaped.exclusive
    BY <1>1, <1>4 DEF Statuses
  <2>2. Returned(j) \notin {"request", "claim", "hold", "quiet"}
    BY <1>2 DEF Free
  <2> QED
    BY <1>1, <1>2, <1>4, <2>1, <2>2, ReservedKeeps
<1>5. CASE /\ Reaped.busy = None \/ pc[j] = "handoff"
           /\ status' = [Reaped EXCEPT !.busy = j, !.kind = "processing",
                                       !.deferred = FALSE, !.cancel = FALSE]
           /\ Goto(j, "peek")
  <2>1. /\ status'.busy = j /\ status'.scanning = Reaped.scanning
        /\ status'.exclusive = Reaped.exclusive
    BY <1>1, <1>5 DEF Statuses
  <2>2. "peek" \in Places /\ "peek" \in Reserving
    BY DEF Places, Reserving
  <2> QED
    BY <1>1, <1>5, <2>1, <2>2, ReservedKeeps
<1> QED
  BY <1>3, <1>4, <1>5 DEF Drive

\* The owner of busy changes its part of the status.
LEMMA OwnerKeeps ==
  ASSUME Holders, NEW j \in Jobs, NEW l \in Places, Goto(j, l), pc[j] \in Reserving,
         status'.scanning = status.scanning, status'.exclusive = status.exclusive,
         \/ status'.busy = status.busy /\ l \in Reserving
         \/ status'.busy = None,
         \/ pc[j] \notin ScanPlaces /\ l \notin {"request", "claim", "hold", "quiet"}
         \/ pc[j] \in {"hold", "quiet"} /\ l \in ScanPlaces
         \/ l \in ScanPlaces \ {"request", "claim", "hold", "quiet"}
         \/ ~Classifying(j) /\ l \notin {"request", "claim", "hold", "quiet"}
  PROVE  Keeps(j)
<1>1. /\ status.busy = j /\ None \notin Jobs /\ pc[j] # "dead"
      /\ Classifying(j) => pc[j] \in ScanPlaces \cup {"dead"}
      /\ pc[j] \in {"hold", "quiet"} => Classifying(j)
  BY HoldersAre DEF Reserving
<1>2. status'.busy = status.busy \/ (status.busy = j /\ status'.busy = None)
  BY <1>1
<1>3. status'.busy = j => l \in Reserving
  BY <1>1
<1>4. Classifying(j) => l \in ScanPlaces
  BY <1>1
<1>5. l \in {"request", "claim", "hold", "quiet"} => Classifying(j)
  BY <1>1
<1> QED
  BY <1>2, <1>3, <1>4, <1>5, OwnKeeps

LEMMA PhaseKeeps ==
  ASSUME Holders, NEW j \in Jobs,
         Hold(j) \/ Quiet(j) \/ Freeze(j) \/ Confirm(j) \/ Decide(j)
  PROVE  Keeps(j)
<1>1. status \in Statuses
  BY HoldersAre
<1>2. CASE Hold(j) \/ Quiet(j) \/ Freeze(j) \/ Confirm(j)
  <2>1. /\ status'.busy = status.busy /\ status'.scanning = status.scanning
        /\ status'.exclusive = status.exclusive
    BY <1>1, <1>2 DEF Hold, Quiet, Freeze, Confirm, Statuses
  <2>2. CASE Hold(j)
    BY <2>1, <2>2, OwnerKeeps DEF Hold, Places, Reserving, ScanPlaces
  <2>3. CASE Quiet(j)
    BY <2>1, <2>3, OwnerKeeps DEF Quiet, Places, Reserving, ScanPlaces
  <2>4. CASE Freeze(j)
    BY <2>1, <2>4, OwnerKeeps DEF Freeze, Places, Reserving, ScanPlaces
  <2>5. CASE Confirm(j)
    BY <2>1, <2>5, OwnerKeeps DEF Confirm, Places, Reserving, ScanPlaces
  <2> QED
    BY <1>2, <2>2, <2>3, <2>4, <2>5
<1>3. CASE Decide(j)
  <2>1. pc[j] = "decide" /\ pc[j] \in Reserving \ ScanPlaces
    BY <1>3 DEF Decide, Reserving, ScanPlaces
  <2>2. CASE status' = status
    <3>1. \E l \in {"exit", "freeze", "page", "documents", "wait", "confirm"} : Goto(j, l)
      <4>1. Decision(j) \notin {"auto", "release"} =>
               Decision(j) \in {"exit", "freeze", "page", "documents", "wait", "confirm"}
        BY DEF Decision
      <4>2. CASE Decision(j) = "release"
        <5>1. status' = [status EXCEPT !.busy = None, !.kind = "none"]
          BY <1>3, <4>2 DEF Decide
        <5>2. status'.busy = None
          BY <1>1, <5>1 DEF Statuses
        <5> QED
          BY <2>1, <2>2, <5>2, HoldersAre
      <4> QED
        BY <1>3, <4>1, <4>2 DEF Decide
    <3> QED
      BY <2>1, <2>2, <3>1, OwnerKeeps DEF Places, Reserving
  <2>3. CASE status' # status
    <3>1. status' = [status EXCEPT !.busy = None, !.kind = "none"] /\ Goto(j, Returned(j))
      BY <1>3, <2>3 DEF Decide
    <3>2. /\ status'.busy = None /\ status'.scanning = status.scanning
          /\ status'.exclusive = status.exclusive
      BY <1>1, <3>1 DEF Statuses
    <3>3. Returned(j) \in Places /\ Returned(j) \notin {"request", "claim", "hold", "quiet"}
      BY ReturnedIsFree DEF Free
    <3> QED
      BY <2>1, <3>1, <3>2, <3>3, OwnerKeeps
  <2> QED
    BY <2>2, <2>3
<1> QED
  BY <1>2, <1>3

\* What is released besides: the freeze, busy, and a cancellation.
LEMMA ReleasedFits ==
  ASSUME Holders, NEW s, s \in {status, Unfrozen(status), Released(status)}, NEW b \in BOOLEAN
  PROVE  /\ s \in Statuses
         /\ s.scanning = status.scanning /\ s.exclusive = status.exclusive
         /\ s.cancel = status.cancel /\ s.recovery = status.recovery
         /\ s.busy = IF s = Released(status) THEN None ELSE status.busy
         /\ [s EXCEPT !.cancel = b] \in Statuses
         /\ [s EXCEPT !.cancel = b].scanning = s.scanning
         /\ [s EXCEPT !.cancel = b].exclusive = s.exclusive
         /\ [s EXCEPT !.cancel = b].busy = s.busy
         /\ [s EXCEPT !.cancel = b].recovery = s.recovery
         /\ [s EXCEPT !.cancel = b].cancel = b
<1>1. status \in Statuses /\ LocalAssumption
  BY HoldersAre DEF Holders, Fitting
<1>2. /\ Unfrozen(status) \in Statuses /\ Released(status) \in Statuses
      /\ Unfrozen(status) = [status EXCEPT !.phase = "idle", !.request = None]
      /\ Released(status) = [status EXCEPT !.phase = "idle", !.request = None,
                                           !.busy = None, !.kind = "none"]
  BY <1>1, UnfrozenFits
<1>3. /\ s \in Statuses
      /\ s.scanning = status.scanning /\ s.exclusive = status.exclusive
      /\ s.cancel = status.cancel /\ s.recovery = status.recovery
      /\ s.busy = IF s = Released(status) THEN None ELSE status.busy
  <2>1. CASE s = Released(status)
    BY <1>2, <1>1, <2>1 DEF Statuses
  <2>2. CASE s # Released(status) /\ s = Unfrozen(status)
    BY <1>2, <1>1, <2>2 DEF Statuses
  <2>3. CASE s # Released(status) /\ s = status
    BY <1>1, <2>3
  <2> QED
    BY <2>1, <2>2, <2>3
<1>4. /\ [s EXCEPT !.cancel = b] \in Statuses
      /\ [s EXCEPT !.cancel = b].scanning = s.scanning
      /\ [s EXCEPT !.cancel = b].exclusive = s.exclusive
      /\ [s EXCEPT !.cancel = b].busy = s.busy
      /\ [s EXCEPT !.cancel = b].recovery = s.recovery
  BY <1>3 DEF Statuses
<1>5. [s EXCEPT !.cancel = b].cancel = b
  BY <1>3 DEF Statuses
<1> QED
  BY <1>3, <1>4, <1>5

LEMMA LeavingKeeps ==
  ASSUME Holders, NEW j \in Jobs, Leave(j) \/ Thaw(j) \/ Exit(j)
  PROVE  Keeps(j)
<1>1. /\ status \in Statuses /\ pc[j] \in Reserving /\ status.busy = j /\ None \notin Jobs
      /\ \A k \in Jobs : Classifying(k) \in BOOLEAN
  BY HoldersAre DEF Leave, Thaw, Exit, Reserving, Classifying
<1>2. (status.cancel /\ Classifying(j)) \in BOOLEAN
  OBVIOUS
<1>3. CASE Leave(j)
  <2> DEFINE held == HasWork /\ kind[j] = "delete"
             s == IF held THEN status ELSE Released(status)
  <2>1. status' = [s EXCEPT !.cancel = FALSE]
    BY <1>3 DEF Leave
  <2>2. s \in {status, Unfrozen(status), Released(status)}
    OBVIOUS
  <2>3. Goto(j, IF held THEN "handoff" ELSE IF HasWork THEN "drive" ELSE "done")
    BY <1>3 DEF Leave
  <2>4. s = IF held THEN status ELSE Released(status)
    OBVIOUS
  <2>5. PICK l \in {"handoff", "drive", "done"} : Goto(j, l) /\ (l # "handoff" => ~held)
    BY <2>3
  <2> HIDE DEF held, s
  <2>6. /\ status'.scanning = status.scanning /\ status'.exclusive = status.exclusive
        /\ status'.busy = s.busy
        /\ s.busy = IF s = Released(status) THEN None ELSE status.busy
    BY <2>1, <2>2, ReleasedFits
  <2>7. l # "handoff" => status'.busy = None
    BY <2>4, <2>5, <2>6
  <2>8. pc[j] = "leave" /\ pc[j] \notin ScanPlaces /\ l \in Places
        /\ (l = "handoff" => l \in Reserving)
    BY <1>3 DEF Leave, ScanPlaces, Places, Reserving
  <2> QED
    BY <1>1, <2>5, <2>6, <2>7, <2>8, OwnerKeeps
<1>4. CASE Thaw(j)
  <2>1. \/ status' = Released(status) /\ Classifying(j) /\ Goto(j, "write")
        \/ status' = Unfrozen(status) /\ ~Classifying(j) /\ Goto(j, "page")
    BY <1>1, <1>4 DEF Thaw
  <2>2. /\ status'.scanning = status.scanning /\ status'.exclusive = status.exclusive
        /\ status'.busy \in {None, status.busy}
        /\ Classifying(j) => status'.busy = None
    BY <2>1, ReleasedFits
  <2>3. "write" \in ScanPlaces /\ "write" \in Places /\ "page" \in Places /\ "page" \in Reserving
    BY DEF ScanPlaces, Places, Reserving
  <2> QED
    BY <1>1, <2>1, <2>2, <2>3, OwnerKeeps
<1>5. CASE Exit(j)
  <2> DEFINE b == status.cancel /\ Classifying(j)
  <2>1. status' = [Released(status) EXCEPT !.cancel = status.cancel /\ Classifying(j)]
    <3>1. Released(status).cancel = status.cancel
      BY ReleasedFits
    <3> QED
      BY <1>1, <1>5, <3>1 DEF Exit
  <2>2. b \in BOOLEAN /\ status' = [Released(status) EXCEPT !.cancel = b]
    BY <2>1
  <2> HIDE DEF b
  <2>3. /\ status'.scanning = status.scanning /\ status'.exclusive = status.exclusive
        /\ status'.busy = None
    BY <2>2, ReleasedFits
  <2>4. PICK l \in {"giveup", Returned(j)} : Goto(j, l) /\ (Classifying(j) => l = "giveup")
    BY <1>5 DEF Exit
  <2>5. l \in Places /\ l \notin {"request", "claim", "hold", "quiet"}
        /\ (l = "giveup" => l \in ScanPlaces)
    BY ReturnedIsFree DEF Places, Free, ScanPlaces
  <2> QED
    BY <1>1, <2>3, <2>4, <2>5, OwnerKeeps
<1> QED
  BY <1>3, <1>4, <1>5

LEMMA ScanKeeps ==
  ASSUME Holders, NEW j \in Jobs,
         Unreserve(j) \/ Narrow(j) \/ Unscan(j) \/ Wait(j)
  PROVE  Keeps(j)
<1>1. status \in Statuses /\ pc \in [Jobs -> Places] /\ None \notin Jobs
  BY HoldersAre
<1>2. CASE Unreserve(j)
  <2>1. /\ status'.busy = status.busy /\ status'.scanning = status.scanning
        /\ status'.exclusive = status.exclusive
    BY <1>1, <1>2 DEF Unreserve, Statuses
  <2>2. ~Classifying(j)
    <3>1. pc[j] = "unreserve" => kind[j] = "insert"
      BY DEF Holders, Fitting, Holding, KindsFit
    <3> QED
      BY <1>2, <3>1, FreeOfScan DEF Unreserve, ScanPlaces
  <2>3. status.busy # j
    BY <1>2, FreeOfBusy DEF Unreserve, Reserving
  <2> QED
    BY <1>2, <2>1, <2>2, <2>3, OwnKeeps DEF Unreserve, Places
<1>3. CASE Narrow(j) \/ Unscan(j)
  <2>1. /\ status.busy # j
        /\ \E l \in {"drive", "again"} : Goto(j, l)
    BY <1>3, FreeOfBusy DEF Narrow, Unscan, Reserving
  <2>2. /\ status'.busy = status.busy
        /\ status'.exclusive => status.exclusive /\ status'.scanning = status.scanning /\ status.scanning # j
        /\ status.scanning # j =>
              status'.scanning = status.scanning /\ status'.exclusive = status.exclusive
    <3>1. CASE Narrow(j)
      <4> DEFINE b == status.exclusive /\ status.scanning # j
      <4>1. status' = [status EXCEPT !.exclusive = b] /\ b \in BOOLEAN
        BY <1>1, <3>1 DEF Narrow, Statuses
      <4>2. b => status.exclusive /\ status.scanning # j
        OBVIOUS
      <4>3. status.scanning # j => b = status.exclusive
        BY <1>1 DEF Statuses
      <4> HIDE DEF b
      <4>4. status'.busy = status.busy /\ status'.scanning = status.scanning /\ status'.exclusive = b
        BY <1>1, <4>1 DEF Statuses
      <4> QED
        BY <4>2, <4>3, <4>4
    <3>2. CASE Unscan(j)
      <4>1. CASE status.scanning = j
        <5>1. status'.busy = status.busy /\ status'.exclusive = FALSE
          BY <1>1, <3>2, <4>1 DEF Unscan, Statuses
        <5> QED
          BY <4>1, <5>1
      <4>2. CASE status.scanning # j
        <5>1. status' = status
          BY <3>2, <4>2 DEF Unscan
        <5> QED
          BY <4>2, <5>1
      <4> QED
        BY <4>1, <4>2
    <3> QED
      BY <1>3, <3>1, <3>2
  <2>3. pc'[j] \in {"drive", "again"}
    BY <1>1, <2>1 DEF Goto
  <2>4. \A k \in Jobs \ {j} : Classifying(k) => Classifying(k)'
    BY <2>2 DEF Classifying
  <2> QED
    BY <2>1, <2>2, <2>3, <2>4 DEF Keeps
<1>4. CASE Wait(j)
  <2>1. pc[j] = "wait" /\ ~Classifying(j) /\ Goto(j, "decide") /\ status' = Reaped
    BY <1>4, FreeOfScan DEF Wait, ScanPlaces
  <2>2. "decide" \in Places /\ "decide" \in Reserving
    BY DEF Places, Reserving
  <2> QED
    BY <2>1, <2>2, ReservedKeeps
<1> QED
  BY <1>2, <1>3, <1>4

LEMMA StepKeeps ==
  ASSUME Holders, NEW j \in Jobs, Step(j)
  PROVE  Keeps(j)
<1>1. CASE Write(j) \/ PutDocument(j) \/ RequestOwn(j) \/ Again(j)
  <2>1. status' = status
    BY <1>1 DEF Write, PutDocument, RequestOwn, Again
  <2>2. CASE Write(j) \/ PutDocument(j)
    <3>1. /\ pc[j] \in {"write", "publish"}
          /\ \/ \E l \in {"publish", "narrow"} : Goto(j, l)
             \/ kind[j] # "scan" /\ \E l \in {"unreserve", "drive"} : Goto(j, l)
      BY <2>2 DEF Write, PutDocument
    <3> QED
      BY <2>1, <3>1, PlainKeeps DEF Places
  <2>3. CASE RequestOwn(j) \/ Again(j)
    BY <2>1, <2>3, PlainKeeps DEF RequestOwn, Again, Places
  <2> QED
    BY <1>1, <2>2, <2>3
<1>2. CASE Delete(j) \/ Peek(j) \/ Fetch(j) \/ Validate(j) \/ EndBatch(j) \/ Drain(j)
  <2>1. /\ status' = status
        /\ \E l \in {"leave", "freeze", "page", "decide", "validate", "exit", "work"} : Goto(j, l)
        /\ pc[j] \in {"delete", "peek", "page", "validate", "work", "documents"}
    BY <1>2 DEF Delete, Peek, Fetch, Validate, EndBatch, Drain
  <2> QED
    BY <2>1, PlainKeeps DEF Reserving, ScanPlaces, Places
<1>3. CASE Reset(j) \/ Ack(j) \/ Fail(j)
  <2>1. /\ status' = status /\ pc[j] \in Reserving
        /\ \E l \in {"reset", "ack", "thaw", "exit"} : Goto(j, l)
    BY <1>3 DEF Reset, Ack, Fail, Running, Reserving
  <2> QED
    BY <2>1, PlainKeeps DEF Places, Reserving
<1>4. ASSUME NEW d \in Docs, Begin(j, d) \/ Finish(j, d) \/ Feed(j, d)
      PROVE  Keeps(j)
  <2>1. /\ status' = status /\ pc[j] = "work" /\ pc' = pc
    BY <1>4 DEF Begin, Finish, Feed
  <2>2. Goto(j, "work")
    BY <2>1 DEF Goto, Holders, Fitting, TypeOK
  <2> QED
    BY <2>1, <2>2, PlainKeeps DEF Reserving, ScanPlaces, Places
<1> QED
  BY <1>1, <1>2, <1>3, <1>4, AdmitKeeps, ClaimKeeps, DriveKeeps, PhaseKeeps, LeavingKeeps,
     ScanKeeps DEF Step, JobStep, RunStep

-----------------------------------------------------------------------------
(* A step loses no work.                                                   *)

Ready == Holders /\ BatchesFit /\ Calm /\ NothingLost

\* Because of j, the document will be found.
Mine(j, d) == WillDrive(j) \/ WillRead(j, d)
Owned(d) ==
    \/ mailbox.auto \/ (doc[d] = "pending" /\ d \in mailbox.docs)
    \/ \E j \in Jobs : Mine(j, d)

\* What j takes away it owes: of the flags, the messages and its own reading.
Passes(j, d) ==
    /\ mailbox.auto => mailbox'.auto \/ Mine(j, d)'
    /\ doc'[d] \in AutoResume =>
          /\ doc[d] = "pending" /\ d \in mailbox.docs =>
                (doc'[d] = "pending" /\ d \in mailbox'.docs) \/ Mine(j, d)'
          /\ Mine(j, d) => mailbox'.auto \/ Mine(j, d)' \/ \E k \in Jobs \ {j} : WillDrive(k)
          /\ doc[d] \notin AutoResume => Mine(j, d)'
Looks(j) ==
    \/ WillLook(j)'
    \/ mailbox' = mailbox /\ ~WillLook(j)
    \/ ~HasWork'
    \/ \E k \in Jobs \ {j} : WillLook(k)
Serves(j) ==
    /\ pc'[j] = "exit" => Classifying(j)'
    /\ Looks(j)
    /\ \A d \in Docs : Passes(j, d)

\* Whoever goes where it reads or drives takes over everything.
LEMMA TakesOver ==
  ASSUME NEW j \in Jobs, pc'[j] = "exit" => Classifying(j)',
         WillLook(j)', \A d \in Docs : Mine(j, d)'
  PROVE  Serves(j)
BY DEF Serves, Looks, Passes

LEMMA DriverServes ==
  ASSUME NEW j \in Jobs,
         \/ pc'[j] \in {"write", "unreserve", "publish", "request", "claim", "narrow",
                        "giveup", "drive", "handoff", "hold", "quiet"}
         \/ pc'[j] = "exit" /\ Classifying(j)'
  PROVE  Serves(j)
<1>1. WillDrive(j)' /\ (pc'[j] = "exit" => Classifying(j)')
  BY DEF WillDrive
<1> QED
  BY <1>1, TakesOver DEF WillLook, Mine

LEMMA ReaderServes ==
  ASSUME LocalAssumption, NEW j \in Jobs,
         \/ pc'[j] \in {"peek", "freeze", "documents", "confirm", "reset", "ack", "thaw"}
         \/ pc'[j] = "page" /\ run'[j].cursor = 0
  PROVE  Serves(j)
<1>1. WillLook(j)' /\ pc'[j] # "exit"
  BY DEF WillLook, Reserving
<1>2. None \notin Nat /\ \A d \in Docs : 0 < d
  BY DocsAreNumbered
<1>3. \A d \in Docs : WillRead(j, d)'
  <2>1. run'[j].cursor = 0 => run'[j].cursor # None
    BY <1>2
  <2> QED
    BY <1>2, <2>1 DEF WillRead
<1> QED
  BY <1>1, <1>3, TakesOver DEF Mine

\* Where a job owes nothing.
LEMMA IdleServes ==
  ASSUME NEW j \in Jobs, pc[j] \in {"start", "release", "unscan", "again"}, pc'[j] # "exit",
         mailbox' = mailbox, doc' = doc
  PROVE  Serves(j)
<1>1. ~WillLook(j) /\ \A d : ~Mine(j, d)
  BY DEF WillLook, WillDrive, WillRead, Mine, Reserving
<1> QED
  BY <1>1 DEF Serves, Looks, Passes

LEMMA AdmitServes ==
  ASSUME Ready, NEW j \in Jobs, Admit(j)
  PROVE  Serves(j)
<1>1. pc \in [Jobs -> Places] /\ pc[j] = "start" /\ doc' = doc
  BY HoldersAre DEF Ready, Admit
<1>2. CASE Goto(j, "write") \/ Goto(j, "drive") \/ Goto(j, "request")
  BY <1>1, <1>2, DriverServes DEF Goto
<1>3. CASE (Goto(j, "done") \/ Goto(j, "delete")) /\ mailbox' = mailbox
  BY <1>1, <1>3, IdleServes DEF Goto
<1> QED
  BY <1>2, <1>3 DEF Admit

LEMMA IntakeServes ==
  ASSUME Ready, NEW j \in Jobs,
         \/ Write(j) \/ Unreserve(j) \/ PutDocument(j) \/ RequestOwn(j) \/ Claim(j)
         \/ Hold(j) \/ Narrow(j) \/ Unscan(j) \/ Again(j)
  PROVE  Serves(j)
<1>1. pc \in [Jobs -> Places]
  BY HoldersAre DEF Ready
<1>2. CASE Write(j) \/ PutDocument(j) \/ RequestOwn(j) \/ Claim(j) \/ Hold(j) \/ Narrow(j)
  <2>1. \E l \in {"unreserve", "publish", "narrow", "drive", "claim", "hold", "giveup", "quiet"} :
           Goto(j, l)
    BY <1>2 DEF Write, PutDocument, RequestOwn, Claim, Hold, Narrow
  <2> QED
    BY <1>1, <2>1, DriverServes DEF Goto
<1>3. CASE Unreserve(j) \/ Unscan(j) \/ Again(j)
  <2>1. mailbox' = mailbox /\ doc' = doc
    BY <1>3 DEF Unreserve, Unscan, Again
  <2>2. \/ Goto(j, "publish") \/ Goto(j, "drive")
        \/ pc[j] \in {"release", "unscan", "again"} /\ (Goto(j, "done") \/ Goto(j, "again"))
    BY <1>3 DEF Unreserve, Unscan, Again
  <2>3. \/ pc'[j] \in {"publish", "drive"}
        \/ pc[j] \in {"release", "unscan", "again"} /\ pc'[j] \in {"done", "again"}
    BY <1>1, <2>2 DEF Goto
  <2> QED
    BY <2>1, <2>3, DriverServes, IdleServes
<1> QED
  BY <1>2, <1>3

LEMMA DeletionServes ==
  ASSUME Ready, NEW j \in Jobs, Delete(j) \/ Leave(j)
  PROVE  Serves(j)
<1>1. /\ pc \in [Jobs -> Places] /\ doc \in [Docs -> Fates] /\ DocOf[j] \in Docs
      /\ mailbox' = mailbox /\ pc[j] \in {"delete", "leave"}
  BY HoldersAre DEF Ready, Holders, Fitting, TypeOK, Fates, LocalAssumption, Delete, Leave
<1>2. \A d : ~Mine(j, d)
  BY <1>1 DEF Mine, WillDrive, WillRead
<1>3. CASE Delete(j)
  <2>1. pc'[j] = "leave" /\ WillLook(j)'
    BY <1>1, <1>3 DEF Delete, Goto, WillLook, Reserving
  <2>2. \A d \in Docs : doc'[d] \in AutoResume => doc'[d] = doc[d]
    BY <1>1, <1>3 DEF Delete, AutoResume
  <2> QED
    BY <1>1, <1>2, <2>1, <2>2 DEF Serves, Looks, Passes
<1>4. CASE Leave(j)
  <2>1. doc' = doc /\ (pc'[j] \in {"handoff", "drive"} \/ (pc'[j] = "done" /\ ~HasWork))
    BY <1>1, <1>4 DEF Leave, Goto
  <2>2. CASE pc'[j] \in {"handoff", "drive"}
    BY <2>2, DriverServes
  <2>3. CASE pc'[j] = "done" /\ ~HasWork
    <3>1. ~HasWork'
      BY <1>1, <2>3 DEF HasWork
    <3> QED
      BY <1>1, <1>2, <2>1, <2>3, <3>1 DEF Serves, Looks, Passes
  <2> QED
    BY <2>1, <2>2, <2>3
<1> QED
  BY <1>3, <1>4

\* Who is turned away leaves its work to the one that has turned it away: to a
\* run by the flag of the mailbox, to a scan since that drives a run in the end.
LEMMA TurnedAwayServes ==
  ASSUME Ready, NEW j \in Jobs, Drive(j), ~status'.recovery, pc'[j] # "peek"
  PROVE  Serves(j)
<1>1. /\ pc \in [Jobs -> Places] /\ pc[j] \in {"drive", "handoff"} /\ doc' = doc
      /\ Reaped \in Statuses /\ mailbox \in Mailboxes
  BY HoldersAre, ReapedHolds DEF Ready, Holders, Fitting, TypeOK, Drive
<1>2. /\ pc[j] = "drive"
      /\ \/ Reaped.exclusive /\ mailbox' = mailbox
         \/ Reaped.busy # None /\ mailbox' = Armed(mailbox)
      /\ Goto(j, Returned(j))
  BY <1>1 DEF Drive, Goto
<1>3. pc'[j] # "exit"
  BY <1>1, <1>2, ReturnedIsFree DEF Goto, Free
<1>4. CASE Reaped.exclusive /\ mailbox' = mailbox
  <2> DEFINE k == status.scanning
  <2>1. /\ k \in Jobs /\ pc[k] # "dead" /\ Classifying(k)
    <3>1. Reaped.scanning # None
      BY <1>4, ReapedHolds DEF Ready
    <3>2. Reaped.scanning = status.scanning /\ pc[k] # "dead" /\ status.exclusive
      BY <1>4, <3>1, ReapedHolds DEF Ready
    <3> QED
      BY <3>1, <3>2, HoldersAre DEF Ready, Classifying
  <2> HIDE DEF k
  <2>2. pc[k] \in ScanPlaces
    BY <2>1, HoldersAre DEF Ready
  <2>3. k # j /\ WillDrive(k)
    BY <1>2, <2>1, <2>2 DEF ScanPlaces, WillDrive
  <2> QED
    BY <1>1, <1>3, <1>4, <2>1, <2>3 DEF Serves, Looks, Passes, WillLook
<1>5. CASE Reaped.busy # None /\ mailbox' = Armed(mailbox)
  <2> DEFINE k == status.busy
  <2>1. k \in Jobs /\ pc[k] # "dead" /\ pc[k] \in Reserving
    <3>1. k \in Jobs /\ pc[k] # "dead"
      <4>1. Reaped.busy = status.busy /\ pc[k] # "dead"
        BY <1>5, ReapedHolds DEF Ready
      <4> QED
        BY <1>5, <4>1, HoldersAre DEF Ready
    <3> HIDE DEF k
    <3>2. k = status.busy
      BY DEF k
    <3> QED
      BY <3>1, <3>2, HoldersAre DEF Ready
  <2> HIDE DEF k
  <2>2. k # j
    BY <1>2, <2>1 DEF Reserving
  <2>3. WillLook(k)
    BY <2>1 DEF Ready, Calm, NothingLost, WillLook, WillDrive
  <2>4. mailbox'.auto /\ mailbox'.docs = mailbox.docs
    BY <1>1, <1>5 DEF Armed, Mailboxes
  <2> QED
    BY <1>1, <1>3, <2>1, <2>2, <2>3, <2>4 DEF Serves, Looks, Passes
<1> QED
  BY <1>2, <1>4, <1>5

\* A run that goes on from one page to the next, or to its batch, still has
\* before it what it had, and what lies in its page is its todo.
LEMMA ReadsOn ==
  ASSUME Ready, NEW j \in Jobs, doc' = doc, mailbox' = mailbox, pc[j] \notin {"exit"},
         ~WillDrive(j),
         pc'[j] \in {"page", "validate", "work", "decide", "wait"},
         \A d \in Docs : WillRead(j, d) /\ doc[d] \in AutoResume => WillRead(j, d)'
  PROVE  Serves(j)
<1>1. WillLook(j)'
  BY DEF WillLook, Reserving
<1> QED
  BY <1>1 DEF Serves, Looks, Passes, Mine

LEMMA FetchServes ==
  ASSUME Ready, NEW j \in Jobs, Fetch(j)
  PROVE  Serves(j)
<1> DEFINE page == Page(Rows(AutoResume), run[j].cursor)
<1>1. /\ pc \in [Jobs -> Places] /\ run \in [Jobs -> Runs] /\ run[j].cursor \in Nat \cup {None}
      /\ LocalAssumption /\ pageSize \in Nat /\ pc[j] = "page" /\ doc' = doc /\ mailbox' = mailbox
  BY DEF Ready, Holders, Fitting, TypeOK, Runs, LocalAssumption, Fetch
<1>2. /\ run'[j].todo = page /\ run'[j].cursor = NextCursor(page)
      /\ pc'[j] = IF page = {} THEN "decide" ELSE "validate"
  BY <1>1 DEF Fetch, Keep, Goto
<1>3. ~WillDrive(j)
  BY <1>1 DEF WillDrive
<1>4. ASSUME NEW d \in Docs, WillRead(j, d), doc[d] \in AutoResume
      PROVE  WillRead(j, d)'
  <2>1. run[j].cursor \in Nat /\ run[j].cursor < d
    BY <1>1, <1>4 DEF WillRead
  <2>2. d \in Rows(AutoResume) /\ Rows(AutoResume) \subseteq Docs
    BY <1>4 DEF Rows
  <2>3. d \in page \/ (NextCursor(page) \in Nat /\ NextCursor(page) < d)
    BY <1>1, <2>1, <2>2, PagesAreWhole
  <2>4. None \notin Nat
    BY <1>1, DocsAreNumbered
  <2> HIDE DEF page
  <2>5. CASE d \in page
    <3>1. pc'[j] = "validate" /\ d \in run'[j].todo
      BY <1>2, <2>5
    <3> QED
      BY <3>1 DEF WillRead
  <2>6. CASE NextCursor(page) \in Nat /\ NextCursor(page) < d
    <3>1. pc'[j] \in {"decide", "validate"} /\ run'[j].cursor # None /\ run'[j].cursor < d
      BY <1>2, <2>4, <2>6
    <3> QED
      BY <3>1 DEF WillRead
  <2> QED
    BY <2>3, <2>5, <2>6
<1>5. pc'[j] \in {"decide", "validate"}
  BY <1>2
<1> QED
  BY <1>1, <1>3, <1>4, <1>5, ReadsOn

LEMMA ConfirmServes ==
  ASSUME Ready, NEW j \in Jobs, Confirm(j)
  PROVE  Serves(j)
<1> DEFINE page == Page(Rows(AutoResume), 0)
<1>1. /\ pc \in [Jobs -> Places] /\ run \in [Jobs -> Runs] /\ LocalAssumption /\ pageSize \in Nat
      /\ pc[j] = "confirm" /\ doc' = doc /\ mailbox' = mailbox
  BY DEF Ready, Holders, Fitting, TypeOK, Runs, LocalAssumption, Confirm
<1>2. CASE page = {}
  <2>1. pc'[j] = "reset"
    BY <1>1, <1>2 DEF Confirm, Goto
  <2> QED
    BY <1>1, <2>1, ReaderServes
<1>3. CASE page # {}
  <2>1. /\ pc'[j] = "validate"
        /\ run'[j] = [NoRun EXCEPT !.todo = page, !.inflight = page, !.cursor = NextCursor(page)]
    BY <1>1, <1>3 DEF Confirm, Goto, Keep
  <2>2. run'[j].todo = page /\ run'[j].cursor = NextCursor(page)
    BY <2>1 DEF NoRun
  <2>3. ~WillDrive(j)
    BY <1>1 DEF WillDrive
  <2>4. ASSUME NEW d \in Docs, doc[d] \in AutoResume
        PROVE  WillRead(j, d)'
    <3>1. d \in Rows(AutoResume) /\ Rows(AutoResume) \subseteq Docs /\ 0 < d /\ None \notin Nat
      BY <1>1, <2>4, DocsAreNumbered DEF Rows
    <3>2. d \in page \/ (NextCursor(page) \in Nat /\ NextCursor(page) < d)
      BY <1>1, <3>1, PagesAreWhole
    <3> HIDE DEF page
    <3>3. \/ d \in run'[j].todo
          \/ run'[j].cursor # None /\ run'[j].cursor < d
      BY <2>2, <3>1, <3>2
    <3> QED
      BY <2>1, <3>3 DEF WillRead
  <2> QED
    BY <1>1, <2>1, <2>3, <2>4, ReadsOn
<1> QED
  BY <1>2, <1>3

LEMMA SweepServes ==
  ASSUME Ready, NEW j \in Jobs,
         \/ Peek(j) \/ Freeze(j) \/ Drain(j) \/ Ack(j) \/ Thaw(j) \/ Quiet(j) \/ Reset(j)
         \/ Exit(j)
  PROVE  Serves(j)
<1>1. /\ pc \in [Jobs -> Places] /\ run \in [Jobs -> Runs] /\ LocalAssumption
      /\ status \in Statuses
  BY HoldersAre DEF Ready, Holders, Fitting, TypeOK
<1>2. [Sweep EXCEPT !.wake = TRUE].cursor = 0 /\ [Sweep EXCEPT !.wake = mailbox.auto].cursor = 0
      /\ Sweep.cursor = 0
  BY DEF Sweep, NoRun
<1>3. CASE Peek(j) \/ Freeze(j) \/ Drain(j) \/ Ack(j)
  <2>1. \/ pc'[j] \in {"freeze", "thaw"}
        \/ pc'[j] = "page" /\ run'[j].cursor = 0
    BY <1>1, <1>2, <1>3 DEF Peek, Freeze, Drain, Ack, Goto, Keep
  <2> QED
    BY <1>1, <2>1, ReaderServes
<1>4. CASE Thaw(j)
  <2>1. pc'[j] = "write" \/ (pc'[j] = "page" /\ run'[j].cursor = 0)
    BY <1>1, <1>2, <1>4 DEF Thaw, Goto, Keep
  <2> QED
    BY <1>1, <2>1, ReaderServes, DriverServes
<1>5. CASE Quiet(j)
  <2>1. pc'[j] = "reset" \/ (pc'[j] = "exit" /\ status' = status)
    BY <1>1, <1>5 DEF Quiet, Goto
  <2>2. Classifying(j)
    BY <1>5, HoldersAre DEF Ready, Quiet
  <2>3. CASE pc'[j] = "exit" /\ status' = status
    <3>1. Classifying(j)'
      BY <2>2, <2>3 DEF Classifying
    <3> QED
      BY <2>3, <3>1, DriverServes
  <2> QED
    BY <1>1, <2>1, <2>3, ReaderServes
<1>6. CASE Reset(j)
  <2>1. status.busy = j
    BY <1>6, HoldersAre DEF Ready, Reset, Reserving
  <2>2. pc'[j] \in {"reset", "ack"}
    BY <1>1, <1>6, <2>1 DEF Reset, Goto
  <2> QED
    BY <1>1, <2>2, ReaderServes
<1>7. CASE Exit(j)
  <2>1. Classifying(j)
    BY <1>7 DEF Ready, Calm, NothingLost, Exit
  <2>2. pc'[j] = "giveup"
    BY <1>1, <1>7, <2>1 DEF Exit, Goto
  <2> QED
    BY <2>2, DriverServes
<1> QED
  BY <1>3, <1>4, <1>5, <1>6, <1>7

LEMMA DecideServes ==
  ASSUME Ready, NEW j \in Jobs, Decide(j) \/ EndBatch(j) \/ Wait(j)
  PROVE  Serves(j)
<1>1. /\ pc \in [Jobs -> Places] /\ run \in [Jobs -> Runs] /\ LocalAssumption
      /\ status \in Statuses /\ ~status.cancel
  BY HoldersAre DEF Ready, Holders, Fitting, TypeOK, Calm, NothingLost
<1>2. ~WillDrive(j) /\ pc[j] # "exit"
  BY DEF Decide, EndBatch, Wait, WillDrive
<1>3. CASE EndBatch(j) \/ Wait(j)
  <2>1. /\ doc' = doc /\ mailbox' = mailbox /\ run' = run /\ pc'[j] = "decide"
        /\ ((pc[j] = "work" /\ run[j].todo = {}) \/ pc[j] = "wait")
    BY <1>1, <1>3 DEF EndBatch, Wait, Goto
  <2>2. \A d \in Docs : WillRead(j, d) => WillRead(j, d)'
    BY <2>1 DEF WillRead
  <2> QED
    BY <1>2, <2>1, <2>2, ReadsOn
<1>4. CASE Decide(j)
  <2>1. doc' = doc /\ pc[j] = "decide"
    BY <1>4 DEF Decide
  <2>2. CASE Decision(j) \in {"freeze", "documents", "confirm"}
    <3>1. pc'[j] \in {"freeze", "documents", "confirm"}
      BY <1>1, <1>4, <2>2 DEF Decide, Goto
    <3> QED
      BY <1>1, <3>1, ReaderServes
  <2>3. CASE Decision(j) = "auto"
    <3>1. pc'[j] = "page" /\ run'[j] = [Sweep EXCEPT !.wake = TRUE]
      BY <1>1, <1>4, <2>3 DEF Decide, Goto, Keep
    <3>2. run'[j].cursor = 0
      BY <3>1 DEF Sweep, NoRun
    <3> QED
      BY <1>1, <3>1, <3>2, ReaderServes
  <2>4. CASE Decision(j) \in {"page", "wait"}
    <3>1. /\ mailbox' = mailbox /\ run' = run /\ pc'[j] = Decision(j)
          /\ Decision(j) = "wait" => run[j].cursor = None
      BY <1>1, <1>4, <2>4 DEF Decide, Decision, Goto
    <3>2. \A d \in Docs : WillRead(j, d) => WillRead(j, d)'
      BY <2>1, <2>4, <3>1 DEF WillRead
    <3> QED
      BY <1>2, <2>1, <2>4, <3>1, <3>2, ReadsOn
  <2>5. CASE Decision(j) = "release"
    <3>1. /\ mailbox' = mailbox /\ ~HasWork /\ run[j].cursor = None
          /\ Goto(j, Returned(j))
      BY <1>1, <1>4, <2>5 DEF Decide, Decision, HasWork
    <3>2. pc'[j] # "exit" /\ ~HasWork' /\ \A d : ~Mine(j, d)
      BY <1>1, <1>2, <2>1, <3>1, ReturnedIsFree DEF Goto, Free, HasWork, Mine, WillRead
    <3> QED
      BY <2>1, <3>1, <3>2 DEF Serves, Looks, Passes
  <2>6. Decision(j) \in {"freeze", "documents", "confirm", "auto", "page", "wait", "release"}
    BY <1>1 DEF Decision
  <2> QED
    BY <2>2, <2>3, <2>4, <2>5, <2>6
<1> QED
  BY <1>3, <1>4

\* The batch: what is finished needs nobody, and a message that the feeder takes
\* is about a document of the batch or one that is not queued.
LEMMA BatchServes ==
  ASSUME Ready, NEW j \in Jobs,
         Validate(j) \/ \E d \in Docs : Begin(j, d) \/ Finish(j, d) \/ Feed(j, d)
  PROVE  Serves(j)
<1>1. /\ pc \in [Jobs -> Places] /\ run \in [Jobs -> Runs] /\ doc \in [Docs -> Fates]
      /\ status \in Statuses /\ ~status.cancel /\ mailbox \in Mailboxes
  BY HoldersAre DEF Ready, Holders, Fitting, TypeOK, Calm, NothingLost, Fates
<1>2. /\ pc[j] \in {"validate", "work"} /\ ~WillDrive(j)
      /\ \A d \in run[j].inflight : doc[d] \in AutoResume => d \in run[j].todo
  BY DEF Ready, BatchesFit, Validate, Begin, Finish, Feed, WillDrive
<1>3. pc'[j] = "work" /\ WillLook(j)'
  <2>1. pc'[j] = "work"
    BY <1>1 DEF Validate, Begin, Finish, Feed, Goto
  <2> QED
    BY <2>1 DEF WillLook, Reserving
<1>4. SUFFICES ASSUME NEW e \in Docs PROVE Passes(j, e)
  BY <1>3 DEF Serves, Looks
<1>5. run[j] \in Runs
  BY <1>1
<1>6. CASE Validate(j)
  <2>1. /\ mailbox' = mailbox
        /\ run'[j].todo = run[j].todo /\ run'[j].cursor = run[j].cursor
    BY <1>1, <1>5, <1>6 DEF Validate, Keep, Runs
  <2>2. doc' = [d \in Docs |-> IF d \in run[j].todo /\ doc[d] = "processing"
                               THEN "pending" ELSE doc[d]]
    BY <1>1, <1>6 DEF Validate
  <2>3. /\ doc'[e] \in AutoResume => doc[e] \in AutoResume
        /\ doc[e] = "pending" => doc'[e] = "pending"
    BY <2>2 DEF AutoResume
  <2>4. WillRead(j, e) => WillRead(j, e)'
    BY <1>2, <1>3, <2>1 DEF WillRead
  <2> QED
    BY <1>2, <2>1, <2>3, <2>4 DEF Passes, Mine
<1>7. ASSUME NEW d \in Docs, Begin(j, d) \/ Finish(j, d)
      PROVE  Passes(j, e)
  <2>1. /\ mailbox' = mailbox /\ pc[j] = "work"
        /\ run'[j].cursor = run[j].cursor
        /\ d \in run[j].todo
    BY <1>1, <1>5, <1>7 DEF Begin, Finish, Keep, Runs
  <2>2. \/ /\ run'[j].todo = run[j].todo /\ doc' = [doc EXCEPT ![d] = "processing"]
           /\ doc[d] = "pending"
        \/ /\ run'[j].todo = run[j].todo \ {d}
           /\ \E f \in {"processed", "failed"} : doc' = [doc EXCEPT ![d] = f]
    <3>1. CASE Begin(j, d)
      <4>1. Keep(j, run[j]) /\ doc' = [doc EXCEPT ![d] = "processing"] /\ doc[d] = "pending"
        BY <1>1, <3>1 DEF Begin
      <4> QED
        BY <1>1, <4>1 DEF Keep
    <3>2. CASE Finish(j, d)
      <4>1. /\ Keep(j, [run[j] EXCEPT !.todo = @ \ {d}])
            /\ \E f \in {"processed", "failed"} : doc' = [doc EXCEPT ![d] = f]
        BY <3>2 DEF Finish
      <4>2. run'[j].todo = run[j].todo \ {d}
        BY <1>1, <1>5, <4>1 DEF Keep, Runs
      <4> QED
        BY <4>1, <4>2
    <3> QED
      BY <1>7, <3>1, <3>2
  <2>3. CASE e = d
    <3>1. doc'[e] \in AutoResume => e \in run'[j].todo /\ doc[e] \in AutoResume
      BY <1>1, <2>1, <2>2, <2>3 DEF AutoResume
    <3>2. doc'[e] \in AutoResume => WillRead(j, e)'
      BY <1>3, <3>1 DEF WillRead
    <3> QED
      BY <2>1, <3>1, <3>2 DEF Passes, Mine
  <2>4. CASE e # d
    <3>1. doc'[e] = doc[e] /\ (e \in run[j].todo => e \in run'[j].todo)
      BY <1>1, <2>2, <2>4
    <3>2. WillRead(j, e) => WillRead(j, e)'
      BY <1>3, <2>1, <3>1 DEF WillRead
    <3> QED
      BY <1>2, <2>1, <3>1, <3>2 DEF Passes, Mine
  <2> QED
    BY <2>3, <2>4
<1>8. ASSUME NEW d \in Docs, Feed(j, d)
      PROVE  Passes(j, e)
  <2> DEFINE new == IF doc[d] = "pending" THEN {d} \ run[j].inflight ELSE {}
  <2>1. /\ doc' = doc /\ pc[j] = "work"
        /\ mailbox' = [mailbox EXCEPT !.docs = @ \ {d}]
        /\ run' = [run EXCEPT ![j] = [run[j] EXCEPT !.todo = @ \cup new, !.inflight = @ \cup new]]
    BY <1>8 DEF Feed, Keep
  <2>2. new = IF doc[d] = "pending" THEN {d} \ run[j].inflight ELSE {}
    OBVIOUS
  <2> HIDE DEF new
  <2>3. run'[j].todo = run[j].todo \cup new /\ run'[j].cursor = run[j].cursor
    BY <1>1, <1>5, <2>1 DEF Runs
  <2>4. mailbox'.auto = mailbox.auto /\ mailbox'.docs = mailbox.docs \ {d}
    BY <1>1, <2>1 DEF Mailboxes
  <2>5. WillRead(j, e) => WillRead(j, e)'
    BY <1>3, <2>1, <2>3 DEF WillRead
  <2>6. e = d /\ doc[e] = "pending" => WillRead(j, e)'
    <3>1. doc[d] = "pending" => d \in run'[j].todo
      BY <1>2, <2>2, <2>3 DEF AutoResume
    <3> QED
      BY <1>3, <3>1 DEF WillRead
  <2> QED
    BY <1>2, <2>1, <2>4, <2>5, <2>6 DEF Passes, Mine
<1> QED
  BY <1>6, <1>7, <1>8

LEMMA StepServes ==
  ASSUME Ready, NEW j \in Jobs, Step(j), ~Fail(j), ~status'.recovery,
         ~(Drive(j) /\ pc'[j] = "peek")
  PROVE  Serves(j)
BY AdmitServes, IntakeServes, DeletionServes, TurnedAwayServes, FetchServes, ConfirmServes,
   SweepServes, DecideServes, BatchServes
DEF Step, JobStep, RunStep

-----------------------------------------------------------------------------
(* The flags, and the batches.                                             *)

\* A cancellation comes from outside, a recovery is nobody's to end, and only a
\* run that starts makes up for a fault.
LEMMA FlagsStep ==
  ASSUME Holders, NEW j \in Jobs, Step(j)
  PROVE  /\ ~status.cancel => ~status'.cancel
         /\ status.recovery => status'.recovery
         /\ ~lapsed' => ~Fail(j) /\ (~lapsed \/ (Drive(j) /\ pc'[j] = "peek"))
<1>1. /\ status \in Statuses /\ Reaped \in Statuses /\ pc \in [Jobs -> Places]
      /\ Reaped.cancel = status.cancel /\ (status.recovery => Reaped.recovery)
  BY HoldersAre, ReapedHolds
<1>2. ~lapsed' => ~Fail(j) /\ (~lapsed \/ (Drive(j) /\ pc'[j] = "peek"))
  <2>1. Fail(j) => lapsed' = TRUE
    BY DEF Fail, Fault
  <2>2. CASE lapsed' = lapsed
    BY <2>1, <2>2
  <2>3. CASE Drive(j)
    <3>1. lapsed' = lapsed \/ Goto(j, "peek")
      BY <2>3 DEF Drive
    <3>2. Goto(j, "peek") => pc'[j] = "peek"
      BY <1>1 DEF Goto
    <3> QED
      BY <2>1, <2>2, <2>3, <3>1, <3>2
  <2>4. CASE Admit(j)
    BY <2>2, <2>4 DEF Admit
  <2>5. CASE JobStep(j) /\ ~Drive(j)
    BY <2>2, <2>5 DEF JobStep, Write, Unreserve, PutDocument, RequestOwn, Claim, Hold, Quiet,
       Narrow, Unscan, Again, Delete, Leave
  <2>6. CASE RunStep(j)
    BY <2>2, <2>6 DEF RunStep, Peek, Freeze, Fetch, Validate, EndBatch, Decide, Drain, Wait,
       Confirm, Reset, Ack, Thaw, Exit, Begin, Finish, Feed
  <2>7. CASE Fail(j)
    BY <2>1, <2>7
  <2> QED
    BY <2>3, <2>4, <2>5, <2>6, <2>7 DEF Step
<1>3. CASE status' = status
  BY <1>2, <1>3
<1>4. CASE \/ status' = Reaped
           \/ status' = [Reaped EXCEPT !.tokens = @ \cup {j}]
           \/ status' = [Reaped EXCEPT !.scanning = j, !.exclusive = TRUE]
           \/ status' = [Reaped EXCEPT !.deferred = TRUE]
           \/ status' = [Reaped EXCEPT !.busy = j, !.kind = "processing", !.cancel = FALSE]
           \/ status' = [Reaped EXCEPT !.busy = j, !.kind = "processing",
                                       !.deferred = FALSE, !.cancel = FALSE]
  BY <1>1, <1>2, <1>4 DEF Statuses
<1>5. CASE status' = [Reaped EXCEPT !.busy = j, !.kind = kind[j],
                                    !.cancel = @ /\ kind[j] = "batch"]
  <2>1. status'.recovery = Reaped.recovery /\ (status'.cancel => Reaped.cancel)
    BY <1>1, <1>5 DEF Statuses
  <2> QED
    BY <1>1, <1>2, <2>1
<1>6. CASE \/ status' = [status EXCEPT !.tokens = @ \ {j}]
           \/ \E p \in {"drain", "reset"} : \E r :
                status' = [status EXCEPT !.phase = p, !.request = r]
           \/ status' = [status EXCEPT !.phase = "reset"]
           \/ status' = [status EXCEPT !.scanning = None, !.exclusive = FALSE]
           \/ status' = [status EXCEPT !.exclusive = @ /\ status.scanning # j]
           \/ status' = [status EXCEPT !.busy = None, !.kind = "none"]
  BY <1>1, <1>2, <1>6 DEF Statuses
<1>7. CASE Leave(j) \/ Thaw(j) \/ Exit(j)
  <2>1. PICK s \in {status, Unfrozen(status), Released(status)} :
           \/ status' = s
           \/ status' = [s EXCEPT !.cancel = FALSE]
           \/ status' = [s EXCEPT !.cancel = @ /\ Classifying(j)]
    BY <1>7 DEF Leave, Exit, Thaw
  <2>2. /\ s \in Statuses /\ s.cancel = status.cancel /\ s.recovery = status.recovery
    BY <2>1, ReleasedFits
  <2> DEFINE b == s.cancel /\ Classifying(j)
  <2>3. b \in BOOLEAN /\ (b => s.cancel)
    OBVIOUS
  <2>4. \/ status' = s \/ status' = [s EXCEPT !.cancel = FALSE] \/ status' = [s EXCEPT !.cancel = b]
    BY <2>1
  <2> HIDE DEF b
  <2>5. status'.recovery = s.recovery /\ (status'.cancel => s.cancel)
    BY <2>2, <2>3, <2>4 DEF Statuses
  <2> QED
    BY <1>2, <2>2, <2>5
<1>8. CASE Admit(j)
  BY <1>3, <1>4, <1>5, <1>8 DEF Admit
<1>9. CASE JobStep(j)
  <2>1. CASE \/ Write(j) \/ PutDocument(j) \/ RequestOwn(j) \/ Again(j) \/ Delete(j)
    BY <1>3, <2>1 DEF Write, PutDocument, RequestOwn, Again, Delete
  <2>2. CASE Claim(j) \/ Drive(j)
    BY <1>4, <2>2 DEF Claim, Drive
  <2>3. CASE Unreserve(j) \/ Hold(j) \/ Quiet(j) \/ Narrow(j) \/ Unscan(j)
    BY <1>3, <1>6, <2>3 DEF Unreserve, Hold, Quiet, Narrow, Unscan
  <2> QED
    BY <1>7, <1>9, <2>1, <2>2, <2>3 DEF JobStep
<1>10. CASE RunStep(j)
  <2>1. CASE \/ Peek(j) \/ Fetch(j) \/ Validate(j) \/ EndBatch(j) \/ Drain(j) \/ Reset(j)
             \/ Ack(j) \/ \E d \in Docs : Begin(j, d) \/ Finish(j, d) \/ Feed(j, d)
    BY <1>3, <2>1 DEF Peek, Fetch, Validate, EndBatch, Drain, Reset, Ack, Begin, Finish, Feed
  <2>2. CASE Freeze(j) \/ Confirm(j) \/ Decide(j)
    BY <1>3, <1>6, <2>2 DEF Freeze, Confirm, Decide
  <2>3. CASE Wait(j)
    BY <1>4, <2>3 DEF Wait
  <2> QED
    BY <1>7, <1>10, <2>1, <2>2, <2>3 DEF RunStep
<1>11. CASE Fail(j)
  BY <1>3, <1>11 DEF Fail
<1> QED
  BY <1>8, <1>9, <1>10, <1>11 DEF Step

\* Whose batch it is writes its documents alone, but for new ones.
LEMMA DocsStep ==
  ASSUME Holders, NEW j \in Jobs, Step(j)
  PROVE  \/ pc[j] \in Reserving
         \/ \A d \in Docs : doc[d] # "none" => doc'[d] = doc[d]
<1>1. doc \in [Docs -> Fates]
  BY DEF Holders, Fitting, TypeOK, Fates
<1>2. CASE Write(j)
  BY <1>1, <1>2 DEF Write
<1>3. CASE Admit(j)
  BY <1>3 DEF Admit
<1>4. CASE JobStep(j) /\ ~Write(j) /\ pc[j] \notin Reserving
  BY <1>4 DEF JobStep, Unreserve, PutDocument, RequestOwn, Claim, Hold, Quiet, Narrow, Unscan,
     Again, Delete, Leave, Drive, Reserving
<1>5. CASE RunStep(j) \/ Fail(j)
  <2>1. pc[j] \in Reserving
    BY <1>5 DEF RunStep, Peek, Freeze, Fetch, Validate, EndBatch, Decide, Drain, Wait, Confirm,
       Reset, Ack, Thaw, Exit, Begin, Finish, Feed, Fail, Running, Reserving
  <2> QED
    BY <2>1
<1> QED
  BY <1>2, <1>3, <1>4, <1>5 DEF Step

\* Who begins or goes on with a batch.
LEMMA BatchStep ==
  ASSUME Holders, NEW j \in Jobs, Step(j), pc'[j] \in {"validate", "work"}
  PROVE  \/ Fetch(j) \/ Confirm(j) \/ Validate(j)
         \/ \E d \in Docs : Begin(j, d) \/ Finish(j, d) \/ Feed(j, d)
<1>1. pc \in [Jobs -> Places]
  BY HoldersAre
<1>2. CASE Admit(j) \/ Fail(j)
  BY <1>1, <1>2 DEF Admit, Fail, Goto
<1>3. Returned(j) \notin {"validate", "work"}
  BY ReturnedIsFree DEF Free
<1>4. CASE JobStep(j)
  <2>1. CASE \/ Write(j) \/ Unreserve(j) \/ PutDocument(j) \/ RequestOwn(j) \/ Claim(j)
             \/ Hold(j) \/ Quiet(j) \/ Narrow(j) \/ Unscan(j) \/ Again(j) \/ Delete(j) \/ Leave(j)
    BY <1>1, <2>1 DEF Write, Unreserve, PutDocument, RequestOwn, Claim, Hold, Quiet,
       Narrow, Unscan, Again, Delete, Leave, Goto
  <2>2. CASE Drive(j)
    BY <1>1, <1>3, <2>2 DEF Drive, Goto
  <2> QED
    BY <1>4, <2>1, <2>2 DEF JobStep
<1>5. CASE RunStep(j)
  <2>1. CASE \/ Peek(j) \/ Freeze(j) \/ EndBatch(j) \/ Drain(j) \/ Wait(j) \/ Reset(j) \/ Ack(j)
             \/ Thaw(j)
    BY <1>1, <2>1 DEF Peek, Freeze, EndBatch, Drain, Wait, Reset, Ack, Thaw, Goto
  <2>2. CASE Decide(j)
    <3>1. Decision(j) \notin {"validate", "work"}
      BY DEF Decision
    <3> QED
      BY <1>1, <1>3, <2>2, <3>1 DEF Decide, Goto
  <2>3. CASE Exit(j)
    BY <1>1, <1>3, <2>3 DEF Exit, Goto
  <2> QED
    BY <1>5, <2>1, <2>2, <2>3 DEF RunStep
<1> QED
  BY <1>2, <1>4, <1>5 DEF Step

LEMMA StepLives ==
  ASSUME Holders, NEW j \in Jobs, Step(j)
  PROVE  pc'[j] # "dead"
<1>1. pc \in [Jobs -> Places] /\ Returned(j) # "dead"
  BY HoldersAre DEF Returned
<1>2. CASE Admit(j) \/ Fail(j)
  BY <1>1, <1>2 DEF Admit, Fail, Goto
<1>3. CASE JobStep(j)
  <2>1. CASE \/ Write(j) \/ Unreserve(j) \/ PutDocument(j) \/ RequestOwn(j) \/ Claim(j)
             \/ Hold(j) \/ Quiet(j) \/ Narrow(j) \/ Unscan(j) \/ Again(j) \/ Delete(j) \/ Leave(j)
    BY <1>1, <2>1 DEF Write, Unreserve, PutDocument, RequestOwn, Claim, Hold, Quiet,
       Narrow, Unscan, Again, Delete, Leave, Goto
  <2>2. CASE Drive(j)
    BY <1>1, <2>2 DEF Drive, Goto
  <2> QED
    BY <1>3, <2>1, <2>2 DEF JobStep
<1>4. CASE RunStep(j)
  <2>1. CASE \/ Peek(j) \/ Freeze(j) \/ EndBatch(j) \/ Drain(j) \/ Wait(j) \/ Reset(j) \/ Ack(j)
             \/ Thaw(j) \/ Exit(j) \/ Fetch(j) \/ Validate(j) \/ Confirm(j)
    BY <1>1, <2>1 DEF Peek, Freeze, EndBatch, Drain, Wait, Reset, Ack, Thaw, Exit, Fetch,
       Validate, Confirm, Goto
  <2>2. CASE Decide(j)
    <3>1. Decision(j) # "dead"
      BY DEF Decision
    <3> QED
      BY <1>1, <2>2, <3>1 DEF Decide, Goto
  <2>3. CASE \E d \in Docs : Begin(j, d) \/ Finish(j, d) \/ Feed(j, d)
    BY <2>3 DEF Begin, Finish, Feed
  <2> QED
    BY <1>4, <2>1, <2>2, <2>3 DEF RunStep
<1> QED
  BY <1>2, <1>3, <1>4 DEF Step

LEMMA BatchesNext ==
  ASSUME Holders, RetriesFit, BatchesFit, NEW j \in Jobs, Step(j)
  PROVE  BatchesFit'
<1>1. /\ pc \in [Jobs -> Places] /\ run \in [Jobs -> Runs] /\ doc \in [Docs -> Fates]
      /\ LocalAssumption /\ pageSize \in Nat /\ run[j] \in Runs
      /\ \A k \in Jobs : run[k].inflight \subseteq Docs
  BY HoldersAre DEF Holders, Fitting, TypeOK, Fates, LocalAssumption, Runs
<1>2. Effect(j)
  BY RequestStep, JobHolds DEF Holders, Step
<1>3. \A k \in Jobs \ {j} : pc'[k] = pc[k] /\ run'[k] = run[k]
  BY <1>1, <1>2, RunsStep DEF Holders, Effect, Goto, Keep
<1>4. ASSUME NEW k \in Jobs \ {j}, pc'[k] \in {"validate", "work"}, NEW d \in run'[k].inflight
      PROVE  doc'[d] # "none" /\ (doc'[d] \in AutoResume => d \in run'[k].todo)
  <2>1. pc[k] \in {"validate", "work"} /\ run'[k] = run[k] /\ d \in Docs
    BY <1>1, <1>3, <1>4
  <2>2. doc[d] # "none" /\ (doc[d] \in AutoResume => d \in run[k].todo)
    BY <1>4, <2>1 DEF BatchesFit
  <2>3. status.busy = k
    BY <2>1, HoldersAre DEF Reserving
  <2>4. pc[j] \notin Reserving
    BY <2>3, HoldersAre
  <2> QED
    BY <2>1, <2>2, <2>4, DocsStep
<1>5. ASSUME pc'[j] \in {"validate", "work"}, NEW e \in run'[j].inflight
      PROVE  doc'[e] # "none" /\ (doc'[e] \in AutoResume => e \in run'[j].todo)
  <2>1. CASE Fetch(j)
    <3> DEFINE page == Page(Rows(AutoResume), run[j].cursor)
    <3>1. run'[j].inflight = page /\ run'[j].todo = page /\ doc' = doc
      BY <1>1, <2>1 DEF Fetch, Keep
    <3>2. page \subseteq Rows(AutoResume)
      BY DEF Page
    <3> HIDE DEF page
    <3> QED
      BY <1>5, <3>1, <3>2 DEF Rows, AutoResume
  <2>2. CASE Confirm(j)
    <3> DEFINE page == Page(Rows(AutoResume), 0)
               r == [NoRun EXCEPT !.todo = page, !.inflight = page, !.cursor = NextCursor(page)]
    <3>1. Keep(j, r) /\ doc' = doc
      <4>1. pc'[j] # "reset"
        BY <1>5
      <4> QED
        BY <1>1, <2>2, <4>1 DEF Confirm, Goto
    <3>2. run'[j] = r
      BY <1>1, <3>1 DEF Keep
    <3>3. r.inflight = page /\ r.todo = page
      BY DEF NoRun
    <3>4. page \subseteq Rows(AutoResume)
      BY DEF Page
    <3> HIDE DEF page, r
    <3> QED
      BY <1>5, <3>1, <3>2, <3>3, <3>4 DEF Rows, AutoResume
  <2>3. CASE \/ Validate(j)
             \/ \E d \in Docs : Begin(j, d) \/ Finish(j, d) \/ Feed(j, d)
    <3>1. /\ pc[j] \in {"validate", "work"}
          /\ \A d \in run[j].inflight :
               d \in Docs /\ doc[d] # "none" /\ (doc[d] \in AutoResume => d \in run[j].todo)
      BY <1>1, <2>3 DEF BatchesFit, Validate, Begin, Finish, Feed
    <3>2. CASE Validate(j)
      <4>1. /\ run'[j].todo = run[j].todo /\ run'[j].inflight = run[j].inflight
            /\ \/ doc' = doc
               \/ doc' = [d \in Docs |-> IF d \in run[j].todo /\ doc[d] = "processing"
                                         THEN "pending" ELSE doc[d]]
        BY <1>1, <3>2 DEF Validate, Keep, Runs
      <4> QED
        BY <1>5, <3>1, <4>1 DEF AutoResume
    <3>3. ASSUME NEW d \in Docs, Begin(j, d)
          PROVE  doc'[e] # "none" /\ (doc'[e] \in AutoResume => e \in run'[j].todo)
      <4>1. /\ d \in run[j].todo
            /\ run'[j].inflight = run[j].inflight
            /\ \/ run'[j].todo = run[j].todo /\ doc' = [doc EXCEPT ![d] = "processing"]
               \/ run'[j].todo = run[j].todo \ {d} /\ doc' = [doc EXCEPT ![d] = "failed"]
        <5>1. CASE status.cancel
          BY <1>1, <3>3, <5>1 DEF Begin, Keep, Runs
        <5>2. CASE ~status.cancel
          <6>1. Keep(j, run[j]) /\ doc' = [doc EXCEPT ![d] = "processing"] /\ d \in run[j].todo
            BY <3>3, <5>2 DEF Begin
          <6> QED
            BY <1>1, <6>1 DEF Keep
        <5> QED
          BY <5>1, <5>2
      <4> QED
        BY <1>1, <1>5, <3>1, <4>1 DEF AutoResume
    <3>4. ASSUME NEW d \in Docs, Finish(j, d)
          PROVE  doc'[e] # "none" /\ (doc'[e] \in AutoResume => e \in run'[j].todo)
      <4>1. /\ run'[j].inflight = run[j].inflight
            /\ run'[j].todo = run[j].todo \ {d}
            /\ \E f \in {"processed", "failed"} : doc' = [doc EXCEPT ![d] = f]
        BY <1>1, <3>4 DEF Finish, Keep, Runs
      <4> QED
        BY <1>1, <1>5, <3>1, <4>1 DEF AutoResume
    <3>5. ASSUME NEW d \in Docs, Feed(j, d)
          PROVE  doc'[e] # "none" /\ (doc'[e] \in AutoResume => e \in run'[j].todo)
      <4> DEFINE new == IF doc[d] = "pending" THEN {d} \ run[j].inflight ELSE {}
      <4>1. /\ doc' = doc
            /\ Keep(j, [run[j] EXCEPT !.todo = @ \cup new, !.inflight = @ \cup new])
        BY <3>5 DEF Feed
      <4>2. \A x \in new : doc[x] = "pending"
        OBVIOUS
      <4> HIDE DEF new
      <4>3. run'[j].inflight = run[j].inflight \cup new /\ run'[j].todo = run[j].todo \cup new
        BY <1>1, <4>1 DEF Keep, Runs
      <4> QED
        BY <1>5, <3>1, <4>1, <4>2, <4>3
    <3> QED
      BY <2>3, <3>2, <3>3, <3>4, <3>5
  <2> QED
    BY <1>5, <2>1, <2>2, <2>3, BatchStep
<1> QED
  BY <1>4, <1>5 DEF BatchesFit

-----------------------------------------------------------------------------
(* The theorem.                                                            *)

\* What the others owe they still owe.
LEMMA OthersStay ==
  ASSUME Holders, RetriesFit, NEW j \in Jobs, Step(j), NEW k \in Jobs \ {j}
  PROVE  /\ WillLook(k) => WillLook(k)'
         /\ WillDrive(k) => WillDrive(k)'
         /\ \A d : Mine(k, d) => Mine(k, d)'
<1>1. pc \in [Jobs -> Places] /\ run \in [Jobs -> Runs]
  BY HoldersAre DEF Holders, Fitting, TypeOK
<1>2. Effect(j)
  BY RequestStep, JobHolds DEF Holders, Step
<1>3. pc'[k] = pc[k] /\ run'[k] = run[k]
  BY <1>1, <1>2, RunsStep DEF Holders, Effect, Goto, Keep
<1>4. pc[k] # "dead" /\ Classifying(k) => Classifying(k)'
  BY StepKeeps DEF Keeps
<1>5. WillDrive(k) => WillDrive(k)'
  BY <1>3, <1>4 DEF WillDrive
<1>6. WillLook(k) => WillLook(k)'
  BY <1>3, <1>5 DEF WillLook
<1>7. \A d : WillRead(k, d) => WillRead(k, d)'
  BY <1>3 DEF WillRead
<1> QED
  BY <1>5, <1>6, <1>7 DEF Mine

LEMMA OwnedIs ==
  WorkIsOwned <=> (Calm => /\ Queued => \E j \in Jobs : WillLook(j)
                           /\ \A d \in Docs : doc[d] \in AutoResume => Owned(d))
BY DEF WorkIsOwned, Calm, Owned, Mine, Rows
LEMMA OwnedIsNext ==
  WorkIsOwned' <=> (Calm' => /\ Queued' => \E j \in Jobs : WillLook(j)'
                             /\ \A d \in Docs : doc'[d] \in AutoResume => Owned(d)')
BY DEF WorkIsOwned, Calm, Owned, Mine, Rows

LEMMA OwnStep ==
  ASSUME LocalAssumption, IInv, OwnInv, NEW j \in Jobs, Step(j)
  PROVE  OwnInv'
<1>1. Holders /\ RetriesFit /\ BatchesFit /\ NothingLost /\ WorkIsOwned
  BY DEF IInv, OwnInv, Holders, Fitting, Holding
<1>2. Effect(j) /\ Keeps(j)
  BY <1>1, StepKeeps, RequestStep, JobHolds DEF Holders, Step
<1>3. HoldersFit' /\ BatchesFit'
  BY <1>1, <1>2, HoldersStep, BatchesNext
<1>4. CASE ~Calm'
  BY <1>3, <1>4 DEF OwnInv, NothingLost, WorkIsOwned, Calm
<1>5. ASSUME Calm' PROVE NothingLost' /\ WorkIsOwned'
  <2>1. /\ pc \in [Jobs -> Places] /\ None \notin Jobs
        /\ \A k \in Jobs \ {j} : pc'[k] = pc[k]
        /\ status'.busy \in Jobs \cup {None} /\ status'.scanning \in Jobs \cup {None}
    BY <1>1, <1>2, HoldersAre DEF Effect, Goto, Statuses
  <2>2. /\ ~status.recovery /\ ~Fail(j) /\ (~lapsed \/ (Drive(j) /\ pc'[j] = "peek"))
        /\ ~status.cancel => ~status'.cancel
    BY <1>1, <1>5, FlagsStep DEF Calm
  <2>3. CASE Drive(j) /\ pc'[j] = "peek"
    <3>1. /\ Reaped \in Statuses
          /\ status' = [Reaped EXCEPT !.busy = j, !.kind = "processing",
                                      !.deferred = FALSE, !.cancel = FALSE]
      <4>1. Returned(j) # "peek"
        BY ReturnedIsFree DEF Free
      <4> QED
        BY <1>1, <2>1, <2>3, <4>1, ReapedHolds DEF Drive, Goto
    <3>2. ~status'.cancel /\ status'.busy = j /\ status'.scanning = Reaped.scanning
      BY <3>1 DEF Statuses
    <3>3. status'.scanning # None => pc'[status'.scanning] # "dead"
      <4>1. CASE Reaped.scanning # None
        <5>1. Reaped.scanning = status.scanning /\ pc[status.scanning] # "dead"
          BY <1>1, <4>1, ReapedHolds
        <5> QED
          BY <2>1, <2>3, <3>2, <4>1, <5>1
      <4> QED
        BY <3>2, <4>1
    <3>4. ASSUME NEW k \in Jobs, pc'[k] = "exit" PROVE FALSE
      <4>1. k # j /\ pc[k] = "exit" /\ pc[k] \in Reserving /\ pc[k] # "dead"
        BY <2>1, <2>3, <3>4 DEF Reserving
      <4>2. status.busy = k
        BY <1>1, <4>1, HoldersAre
      <4>3. status'.busy = k
        BY <1>2, <4>1, <4>2 DEF Effect, Respects
      <4> QED
        BY <3>2, <4>1, <4>3
    <3>5. NothingLost'
      BY <2>3, <3>2, <3>3, <3>4 DEF NothingLost
    <3>6. WillLook(j)' /\ \A d : Mine(j, d)'
      BY <2>3 DEF WillLook, Reserving, Mine, WillRead
    <3>7. WorkIsOwned'
      BY <3>6, OwnedIsNext DEF Owned
    <3> QED
      BY <3>5, <3>7
  <2>4. CASE ~(Drive(j) /\ pc'[j] = "peek")
    <3>1. Ready
      BY <1>1, <2>2, <2>4 DEF Ready, Calm
    <3>2. Serves(j)
      BY <1>5, <2>2, <2>4, <3>1, StepServes DEF Calm
    <3>3. NothingLost'
      <4>1. ~status'.cancel
        BY <2>2, <3>1 DEF Ready, NothingLost, Calm
      <4>2. pc'[j] # "dead"
        BY <3>1, StepLives DEF Ready
      <4>3. status'.busy # None => pc'[status'.busy] # "dead"
        BY <1>2, <2>1, <3>1, <4>2 DEF Keeps, Ready, NothingLost, Calm
      <4>4. status'.scanning # None => pc'[status'.scanning] # "dead"
        BY <1>2, <2>1, <3>1, <4>2 DEF Effect, Ready, NothingLost, Calm
      <4>5. ASSUME NEW k \in Jobs, pc'[k] = "exit" PROVE Classifying(k)'
        <5>1. CASE k # j
          <6>1. pc[k] = "exit" /\ Classifying(k)
            BY <2>1, <3>1, <4>5, <5>1 DEF Ready, NothingLost, Calm
          <6> QED
            BY <1>2, <5>1, <6>1 DEF Keeps
        <5> QED
          BY <3>2, <4>5, <5>1 DEF Serves
      <4> QED
        BY <4>1, <4>3, <4>4, <4>5 DEF NothingLost
    <3>4. /\ Queued => \E k \in Jobs : WillLook(k)
          /\ \A d \in Docs : doc[d] \in AutoResume => Owned(d)
      BY <1>1, <3>1, OwnedIs DEF Ready
    <3>5. \A k \in Jobs \ {j} :
             /\ WillLook(k) => WillLook(k)'
             /\ WillDrive(k) => WillDrive(k)'
             /\ \A d : Mine(k, d) => Mine(k, d)'
      BY <1>1, OthersStay
    <3>6. Queued' => \E k \in Jobs : WillLook(k)'
      <4>1. mailbox' = mailbox => (Queued' <=> Queued)
        BY DEF Queued, Waits
      <4>2. Queued' => HasWork'
        BY DEF Queued, Waits, HasWork
      <4> QED
        BY <3>2, <3>4, <3>5, <4>1, <4>2 DEF Serves, Looks
    <3>7. ASSUME NEW d \in Docs, doc'[d] \in AutoResume PROVE Owned(d)'
      <4>1. Passes(j, d)
        BY <3>2 DEF Serves
      <4>2. CASE mailbox'.auto \/ Mine(j, d)' \/ (\E k \in Jobs \ {j} : WillDrive(k))
        <5>1. \A k \in Jobs \ {j} : WillDrive(k) => Mine(k, d)'
          BY <3>5 DEF Mine
        <5> QED
          BY <4>2, <5>1 DEF Owned
      <4>3. CASE doc[d] \in AutoResume
        <5>1. Owned(d)
          BY <3>4, <4>3
        <5> QED
          BY <3>5, <3>7, <4>1, <4>2, <5>1 DEF Owned, Passes
      <4> QED
        BY <3>7, <4>1, <4>2, <4>3 DEF Passes
    <3>8. WorkIsOwned'
      BY <3>6, <3>7, OwnedIsNext
    <3> QED
      BY <3>3, <3>8
  <2> QED
    BY <2>3, <2>4
<1> QED
  BY <1>3, <1>4, <1>5 DEF OwnInv

LEMMA OwnNext ==
  ASSUME LocalAssumption, IInv, OwnInv, [Next]_vars
  PROVE  OwnInv'
<1>1. HoldersFit /\ BatchesFit /\ NothingLost /\ WorkIsOwned
  BY DEF OwnInv
<1>2. CASE UNCHANGED vars
  BY <1>1, <1>2 DEF vars, settings, OwnInv, HoldersFit, BatchesFit, NothingLost, WorkIsOwned,
     Classifying, WillRead, WillDrive, WillLook, Queued, Waits, Rows
<1>3. ASSUME doc' = doc, lapsed' = TRUE,
             status' = status \/ status' = [status EXCEPT !.cancel = TRUE],
             \A k \in Jobs : pc'[k] = "dead" \/ (pc'[k] = pc[k] /\ (pc[k] = "done" \/ run'[k] = run[k]))
      PROVE  OwnInv'
  <2>1. /\ status'.busy = status.busy /\ status'.scanning = status.scanning
        /\ status'.exclusive = status.exclusive
        /\ status.busy \in Jobs \cup {None} /\ status.scanning \in Jobs \cup {None}
    BY <1>3 DEF IInv, TypeOK, Statuses
  <2>2. HoldersFit'
    BY <1>1, <1>3, <2>1 DEF HoldersFit, Classifying
  <2>3. BatchesFit'
    BY <1>1, <1>3 DEF BatchesFit
  <2> QED
    BY <1>3, <2>2, <2>3 DEF OwnInv, NothingLost, WorkIsOwned
<1>4. ASSUME NEW p \in Procs, Kill(p) PROVE OwnInv'
  <2>1. pc \in [Jobs -> Places] /\ run \in [Jobs -> Runs]
    BY DEF IInv, TypeOK
  <2>2. \A k \in Jobs : pc'[k] = "dead" \/ (pc'[k] = pc[k] /\ (pc[k] = "done" \/ run'[k] = run[k]))
    BY <1>4, <2>1 DEF Kill
  <2> QED
    BY <1>3, <1>4, <2>2 DEF Kill, Fault
<1>5. CASE Cancel
  BY <1>3, <1>5 DEF Cancel, Fault
<1> QED
  BY <1>2, <1>4, <1>5, OwnStep DEF Next, Step

LEMMA InitOwns ==
  ASSUME LocalAssumption, Init
  PROVE  OwnInv
<1>1. /\ status.busy = None /\ status.scanning = None /\ ~status.exclusive /\ ~status.cancel
      /\ mailbox.docs = {} /\ ~mailbox.auto /\ mailbox.manual = <<>>
      /\ \A j \in Jobs : pc[j] \in {"start", "done"}
      /\ \A d \in Docs : doc[d] \in {"none", "failed"}
  BY DEF Init
<1> QED
  BY <1>1 DEF OwnInv, HoldersFit, BatchesFit, NothingLost, WorkIsOwned, Queued, Waits, Rows, AutoResume

\* What holds of local mode between two faults: whoever holds a flag is where it
\* gives it back, a batch knows what it has to finish, and all work has an owner.
THEOREM OwnersStay == Spec => []OwnInv
<1>1. Init => OwnInv
  BY LocalAssumption, InitOwns
<1>2. IInv /\ OwnInv /\ [Next]_vars => OwnInv'
  BY LocalAssumption, OwnNext
<1> QED
  BY <1>1, <1>2, Inductive, PTL DEF Spec

\* No wake-up is lost: as long as no fault has taken away the run that owed it,
\* whatever the mailbox or doc_status still holds has a run that comes to it, a job
\* that will drive one, or a flag that one of them looks at before it goes.
THEOREM NothingIsForgotten == Spec => []WorkIsOwned
<1>1. OwnInv => WorkIsOwned
  BY DEF OwnInv
<1> QED
  BY <1>1, OwnersStay, PTL
=============================================================================
