------------------------- MODULE LocalPipelineProofs -------------------------
(***************************************************************************)
(* Theorems about LocalPipeline for any number of workers, jobs and         *)
(* documents, any mix of requests and any page size.                       *)
(***************************************************************************)
EXTENDS LocalPipeline, SequenceTheorems, FiniteSetTheorems, TLAPS

-----------------------------------------------------------------------------
(* Pages of documents.                                                     *)

LEMMA LeastNatural ==
  ASSUME NEW T, T \subseteq Nat, T # {}
  PROVE  \E m \in T : \A n \in T : m <= n
<1>1. PICK m \in T : \A n \in T : <<n, m>> \notin OpToRel(<, Nat)
  BY NatLessThanWellFounded, WFMin
<1>2. \A n \in T : ~(n < m)
  BY <1>1 DEF OpToRel
<1> QED
  BY <1>2

LEMMA GreatestNatural ==
  ASSUME NEW n \in Nat, NEW T, T \subseteq 1..n, T # {}
  PROVE  \E m \in T : \A k \in T : k <= m
<1> DEFINE B == {b \in Nat : \A k \in T : k <= b}
<1>1. PICK m \in B : \A b \in B : m <= b
  <2>1. n \in B
    OBVIOUS
  <2> HIDE DEF B
  <2>2. B \subseteq Nat
    BY DEF B
  <2> QED
    BY <2>1, <2>2, LeastNatural
<1>2. CASE m \notin T
  <2>1. m \in Nat /\ \A k \in T : k \in Nat /\ 1 <= k /\ k <= m
    BY DEF B
  <2>2. m - 1 \in Nat /\ \A k \in T : k <= m - 1
    <3>1. PICK x : x \in T
      OBVIOUS
    <3>2. 1 <= m /\ m \in Nat
      BY <2>1, <3>1
    <3>3. ASSUME NEW k \in T PROVE k \in Nat /\ k <= m /\ k # m
      BY <1>2, <2>1
    <3> QED
      BY <3>2, <3>3
  <2>3. m - 1 \in B
    BY <2>2
  <2> QED
    BY <1>1, <2>1, <2>3
<1> QED
  BY <1>1, <1>2

LEMMA DocsAreNumbered ==
  ASSUME LocalAssumption
  PROVE  /\ Docs \subseteq Nat /\ \A d \in Docs : 0 < d
         /\ None \notin Nat
         /\ \A T : T \subseteq Docs => IsFiniteSet(T) /\ Cardinality(T) \in Nat
         /\ \A T : T \subseteq Docs /\ T # {} => \E m \in T : \A k \in T : k <= m
<1>1. Cardinality(Docs) \in Nat /\ Docs = 1..Cardinality(Docs)
  BY FS_CardinalityType DEF LocalAssumption
<1>2. ASSUME NEW T, T \subseteq Docs PROVE IsFiniteSet(T) /\ Cardinality(T) \in Nat
  BY <1>2, FS_Subset, FS_CardinalityType DEF LocalAssumption
<1>3. ASSUME NEW T, T \subseteq Docs, T # {} PROVE \E m \in T : \A k \in T : k <= m
  BY <1>1, <1>3, GreatestNatural
<1>4. None \notin Nat
  BY DEF LocalAssumption
<1>5. Docs \subseteq Nat /\ \A d \in Docs : 0 < d
  BY <1>1
<1> QED
  BY <1>2, <1>3, <1>4, <1>5

\* The cursor after a page is the last of its documents, or there are no more.
LEMMA CursorIsLast ==
  ASSUME LocalAssumption, pageSize \in Nat, NEW page, page \subseteq Docs
  PROVE  \/ NextCursor(page) = None /\ (pageSize = 0 \/ Cardinality(page) < pageSize)
         \/ /\ pageSize # 0 /\ Cardinality(page) >= pageSize
            /\ NextCursor(page) \in page
            /\ \A e \in page : e <= NextCursor(page)
<1>1. CASE pageSize = 0 \/ Cardinality(page) < pageSize
  BY <1>1 DEF NextCursor
<1>2. CASE pageSize # 0 /\ Cardinality(page) >= pageSize
  <2>1. page # {}
    <3>1. ASSUME page = {} PROVE Cardinality(page) = 0
      BY <3>1, FS_EmptySet
    <3>2. Cardinality(page) # 0
      BY <1>2
    <3> QED
      BY <3>1, <3>2
  <2>2. \E d \in page : \A e \in page : e <= d
    BY <2>1, DocsAreNumbered
  <2> QED
    BY <1>2, <2>2 DEF NextCursor
<1> QED
  BY <1>1, <1>2, DocsAreNumbered

\* The documents between two cursors are those of the page.
LEMMA PagesAreWhole ==
  ASSUME LocalAssumption, pageSize \in Nat, NEW S, S \subseteq Docs, NEW c \in Nat
  PROVE  /\ Page(S, c) \subseteq S
         /\ NextCursor(Page(S, c)) \in Nat \cup {None}
         /\ \A d \in S \ Page(S, c) :
              c < d => NextCursor(Page(S, c)) \in Nat /\ NextCursor(Page(S, c)) < d
<1> DEFINE page == Page(S, c)
           rest == {d \in S : d > c}
           Below(d) == {e \in rest : e < d}
<1>1. page \subseteq S
  BY DEF Page
<1>2. NextCursor(page) \in Nat \cup {None}
  BY <1>1, CursorIsLast, DocsAreNumbered
<1>3. ASSUME NEW d \in S \ page, c < d
      PROVE  NextCursor(page) \in Nat /\ NextCursor(page) < d
  <2>1. pageSize # 0 /\ page = {x \in rest : Cardinality(Below(x)) < pageSize}
    BY <1>3 DEF Page
  <2>2. \A x : Below(x) \subseteq Docs
    OBVIOUS
  <2>3. d \in rest /\ Cardinality(Below(d)) >= pageSize
    <3>1. d \in rest
      BY <1>3, DocsAreNumbered
    <3>2. ~(Cardinality(Below(d)) < pageSize)
      BY <1>3, <2>1, <3>1
    <3>3. Cardinality(Below(d)) \in Nat
      BY <2>2, DocsAreNumbered
    <3> HIDE DEF Below
    <3> QED
      BY <3>1, <3>2, <3>3
  <2>4. ASSUME NEW e \in page PROVE e < d
    <3>1. e \in rest /\ Cardinality(Below(e)) < pageSize
      BY <2>1
    <3>2. CASE d <= e
      <4>1. Below(d) \subseteq Below(e)
        BY <3>1, <3>2, <2>3, DocsAreNumbered
      <4>2. Cardinality(Below(d)) <= Cardinality(Below(e))
        BY <4>1, <2>2, FS_Subset, DocsAreNumbered
      <4> QED
        BY <4>2, <3>1, <2>3, <2>2, DocsAreNumbered
    <3> QED
      BY <3>1, <3>2, <2>3, DocsAreNumbered
  <2>5. page \subseteq Docs /\ rest \subseteq Nat
    BY <1>1, DocsAreNumbered
  <2>6. CASE Cardinality(page) < pageSize
    <3>1. PICK x \in rest \ page : \A y \in rest \ page : x <= y
      BY <1>3, <2>3, <2>5, LeastNatural
    <3>2. Below(x) \subseteq page
      BY <3>1, <2>5
    <3>3. Cardinality(Below(x)) <= Cardinality(page)
      BY <3>2, <2>5, FS_Subset, DocsAreNumbered
    <3>4. ~(Cardinality(Below(x)) < pageSize)
      BY <3>1, <2>1
    <3>5. Cardinality(Below(x)) \in Nat /\ Cardinality(page) \in Nat
      BY <2>2, <2>5, DocsAreNumbered
    <3> HIDE DEF Below, page
    <3> QED
      BY <3>3, <3>4, <3>5, <2>6
  <2>7. CASE Cardinality(page) >= pageSize
    <3> HIDE DEF page
    <3>1. NextCursor(page) \in page
      <4>1. pageSize # 0 /\ Cardinality(page) \in Nat
        BY <2>1, <2>5, DocsAreNumbered
      <4>2. ~(pageSize = 0 \/ Cardinality(page) < pageSize)
        BY <4>1, <2>7
      <4> QED
        BY <4>2, <2>5, CursorIsLast
    <3> QED
      BY <2>4, <2>5, <3>1, DocsAreNumbered
  <2>8. Cardinality(page) \in Nat
    BY <2>5, DocsAreNumbered
  <2> HIDE DEF page
  <2> QED
    BY <2>6, <2>7, <2>8
<1> QED
  BY <1>1, <1>2, <1>3

-----------------------------------------------------------------------------
(* The queue of retries.                                                   *)

In(x, s) == \E i \in DOMAIN s : s[i] = x

\* An acknowledgement takes the request it names out of the queue and no other.
LEMMA AckedTakesOne ==
  ASSUME NEW s \in Seq(Jobs), NEW r
  PROVE  /\ Acked(s, r) \in Seq(Jobs)
         /\ \A x : In(x, Acked(s, r)) => In(x, s)
         /\ \A x : In(x, s) /\ x # r => In(x, Acked(s, r))
<1>1. CASE ~In(r, s)
  BY <1>1 DEF Acked, In
<1>2. CASE In(r, s)
  <2> DEFINE i == CHOOSE k \in DOMAIN s : s[k] = r
             left == SubSeq(s, 1, i - 1)
             right == SubSeq(s, i + 1, Len(s))
  <2>1. Acked(s, r) = left \o right
    BY <1>2 DEF Acked, RemoveAt, In
  <2>2. i \in 1..Len(s) /\ s[i] = r
    BY <1>2, LenProperties DEF In
  <2> HIDE DEF i
  <2>3. /\ left \in Seq(Jobs) /\ Len(left) = i - 1
        /\ \A k \in 1..i-1 : left[k] = s[k]
    <3>1. \A k \in 1..i-1 : s[k] \in Jobs
      BY <2>2, ElementOfSeq
    <3>2. /\ left \in Seq(Jobs)
          /\ Len(left) = IF 1 <= i - 1 THEN (i - 1) - 1 + 1 ELSE 0
          /\ \A k \in 1..(i-1)-1+1 : left[k] = s[1 + k - 1]
      BY <2>2, <3>1, SubSeqProperties
    <3> HIDE DEF left
    <3> QED
      BY <2>2, <3>2
  <2>4. /\ right \in Seq(Jobs) /\ Len(right) = Len(s) - i
        /\ \A k \in 1..Len(s)-i : right[k] = s[i + k]
    <3>1. \A k \in i+1..Len(s) : s[k] \in Jobs
      BY <2>2, ElementOfSeq
    <3>2. /\ right \in Seq(Jobs)
          /\ Len(right) = IF i + 1 <= Len(s) THEN Len(s) - (i + 1) + 1 ELSE 0
          /\ \A k \in 1..Len(s)-(i+1)+1 : right[k] = s[(i + 1) + k - 1]
      BY <2>2, <3>1, SubSeqProperties, LenProperties
    <3> HIDE DEF right
    <3> QED
      BY <2>2, <3>2, LenProperties
  <2> HIDE DEF left, right
  <2> DEFINE joined == left \o right
  <2>5. /\ joined \in Seq(Jobs) /\ Len(joined) = Len(s) - 1
        /\ \A k \in 1..Len(s)-1 : joined[k] = IF k <= i - 1 THEN s[k] ELSE s[k + 1]
    <3>1. /\ joined \in Seq(Jobs) /\ Len(joined) = Len(left) + Len(right)
          /\ \A k \in 1..Len(left)+Len(right) :
               joined[k] = IF k <= Len(left) THEN left[k] ELSE right[k - Len(left)]
      BY <2>3, <2>4, ConcatProperties
    <3> HIDE DEF joined
    <3>2. Len(s) \in Nat /\ Len(left) + Len(right) = Len(s) - 1
      BY <2>2, <2>3, <2>4, LenProperties
    <3>3. ASSUME NEW k \in 1..Len(s)-1
          PROVE  joined[k] = IF k <= i - 1 THEN s[k] ELSE s[k + 1]
      <4>1. joined[k] = IF k <= i - 1 THEN left[k] ELSE right[k - (i - 1)]
        BY <2>3, <3>1, <3>2
      <4>2. k <= i - 1 => k \in 1..i-1
        BY <2>2, <3>2
      <4>3. ~(k <= i - 1) => k - (i - 1) \in 1..Len(s)-i /\ i + (k - (i - 1)) = k + 1
        BY <2>2, <3>2
      <4> QED
        BY <2>3, <2>4, <4>1, <4>2, <4>3
    <3> QED
      BY <3>1, <3>2, <3>3
  <2> HIDE DEF joined
  <2>6. DOMAIN joined = 1..Len(s)-1 /\ DOMAIN s = 1..Len(s) /\ Len(s) \in Nat
    BY <2>5, LenProperties
  <2>7. ASSUME NEW x, In(x, joined) PROVE In(x, s)
    <3>1. PICK k \in 1..Len(s)-1 : joined[k] = x
      BY <2>6, <2>7 DEF In
    <3>2. k \in 1..Len(s) /\ k + 1 \in 1..Len(s) /\ (s[k] = x \/ s[k + 1] = x)
      BY <2>5, <2>6, <3>1
    <3> QED
      BY <2>6, <3>2 DEF In
  <2>8. ASSUME NEW x, In(x, s), x # r PROVE In(x, joined)
    <3>1. PICK k \in 1..Len(s) : s[k] = x
      BY <2>6, <2>8 DEF In
    <3>2. CASE k < i
      <4>1. k \in 1..Len(s)-1 /\ joined[k] = x
        BY <2>2, <2>5, <2>6, <3>1, <3>2
      <4> QED
        BY <4>1, <2>6 DEF In
    <3>3. CASE k > i
      <4>1. k - 1 \in 1..Len(s)-1 /\ joined[k - 1] = x
        BY <2>2, <2>5, <2>6, <3>1, <3>3
      <4> QED
        BY <4>1, <2>6 DEF In
    <3> QED
      BY <2>2, <2>8, <3>1, <3>2, <3>3
  <2> QED
    BY <2>1, <2>5, <2>7, <2>8 DEF joined
<1> QED
  BY <1>1, <1>2

LEMMA AppendAdds ==
  ASSUME NEW s \in Seq(Jobs), NEW j \in Jobs
  PROVE  /\ Append(s, j) \in Seq(Jobs) /\ Append(s, j) # <<>>
         /\ \A x : In(x, Append(s, j)) <=> In(x, s) \/ x = j
<1>1. /\ Append(s, j) \in Seq(Jobs) /\ Len(Append(s, j)) = Len(s) + 1
      /\ \A i \in 1..Len(s) : Append(s, j)[i] = s[i]
      /\ Append(s, j)[Len(s) + 1] = j /\ Append(s, j) # <<>>
  BY AppendProperties
<1>2. DOMAIN s = 1..Len(s) /\ DOMAIN Append(s, j) = 1..Len(s)+1 /\ Len(s) \in Nat
  BY <1>1, LenProperties
<1>3. \A i \in 1..Len(s) : i \in 1..Len(s)+1
  BY <1>2
<1>4. \A i \in 1..Len(s)+1 : i \in 1..Len(s) \/ i = Len(s) + 1
  BY <1>2
<1>5. Len(s) + 1 \in 1..Len(s)+1
  BY <1>2
<1> QED
  BY <1>1, <1>2, <1>3, <1>4, <1>5 DEF In

-----------------------------------------------------------------------------
(* What a step of one job leaves to the others.                            *)

\* Of the new status t: what a living job other than j holds it still holds.
Respects(t, j) ==
    \A k \in Jobs \ {j} :
        pc[k] # "dead" =>
            /\ status.busy = k =>
                  /\ t.busy = k /\ t.kind = status.kind
                  /\ t.phase = status.phase /\ t.request = status.request
            /\ k \in status.tokens => k \in t.tokens
            /\ status.scanning = k => t.scanning = k
            /\ t.scanning = k /\ t.exclusive => status.scanning = k /\ status.exclusive

\* Reservations of the living are never given back by somebody else.
LEMMA ReapedRespects ==
  ASSUME LocalAssumption, TypeOK
  PROVE  /\ Reaped \in Statuses
         /\ \A k \in Jobs :
              pc[k] # "dead" =>
                 /\ status.busy = k =>
                       /\ Reaped.busy = k /\ Reaped.kind = status.kind
                       /\ Reaped.phase = status.phase /\ Reaped.request = status.request
                 /\ Reaped.busy = k => status.busy = k
                 /\ k \in status.tokens <=> k \in Reaped.tokens
                 /\ status.scanning = k <=> Reaped.scanning = k
                 /\ status.scanning = k => Reaped.exclusive = status.exclusive
         /\ Reaped.scanning \in {status.scanning, None}
         /\ Reaped.request \in {status.request, None}
<1> DEFINE s1 == DeadBusy(status)
           s2 == DeadScan(s1)
           s3 == DeadTokens(s2)
<1>1. /\ status \in Statuses
      /\ None \notin Jobs
  BY DEF TypeOK, LocalAssumption
<1>2. /\ s1 \in Statuses
      /\ s1.tokens = status.tokens /\ s1.scanning = status.scanning
      /\ s1.exclusive = status.exclusive
      /\ s1.request \in {status.request, None}
      /\ \/ s1 = status
         \/ status.busy \in Jobs /\ pc[status.busy] = "dead" /\ s1.busy = None
  <2>1. CASE status.busy = None \/ pc[status.busy] # "dead"
    <3>1. s1 = status
      BY <2>1 DEF DeadBusy
    <3> HIDE DEF s1
    <3> QED
      BY <1>1, <3>1
  <2>2. CASE ~(status.busy = None \/ pc[status.busy] # "dead")
    <3>1. s1 = [status EXCEPT !.phase = "idle", !.request = None, !.busy = None,
                              !.kind = "none",
                              !.recovery = status.recovery \/ status.kind # "processing"]
      BY <1>1, <2>2 DEF DeadBusy, Released, Unfrozen, Statuses
    <3>2. (status.recovery \/ status.kind # "processing") \in BOOLEAN
      OBVIOUS
    <3> HIDE DEF s1
    <3> QED
      BY <1>1, <2>2, <3>1, <3>2 DEF Statuses
  <2> QED
    BY <2>1, <2>2
<1> HIDE DEF s1
<1>3. /\ s2 \in Statuses
      /\ s2.tokens = s1.tokens /\ s2.busy = s1.busy /\ s2.kind = s1.kind
      /\ s2.phase = s1.phase /\ s2.request = s1.request
      /\ \/ s2 = s1
         \/ s1.scanning \in Jobs /\ pc[s1.scanning] = "dead" /\ s2.scanning = None
  <2>1. CASE s1.scanning = None \/ pc[s1.scanning] # "dead"
    <3>1. s2 = s1
      BY <2>1 DEF DeadScan
    <3> HIDE DEF s2
    <3> QED
      BY <1>2, <3>1 DEF Statuses
  <2>2. CASE ~(s1.scanning = None \/ pc[s1.scanning] # "dead")
    <3>1. s2 = [s1 EXCEPT !.scanning = None, !.exclusive = FALSE]
      BY <2>2 DEF DeadScan
    <3> HIDE DEF s2
    <3> QED
      BY <1>2, <2>2, <3>1 DEF Statuses
  <2> QED
    BY <2>1, <2>2
<1> HIDE DEF s2
<1>4. /\ s3 \in Statuses
      /\ s3.tokens = {j \in s2.tokens : pc[j] # "dead"}
      /\ s3.busy = s2.busy /\ s3.kind = s2.kind /\ s3.phase = s2.phase
      /\ s3.request = s2.request /\ s3.scanning = s2.scanning /\ s3.exclusive = s2.exclusive
  BY <1>3 DEF DeadTokens, Statuses
<1>5. Reaped = s3
  BY DEF Reaped, s1, s2, s3
<1> HIDE DEF s3
<1> QED
  BY <1>1, <1>2, <1>3, <1>4, <1>5

-----------------------------------------------------------------------------
(* Who holds what.  A step of j leaves to the others what they hold, and j  *)
(* has what it needs where it goes.                                        *)

Effect(j) ==
    /\ kind' = kind /\ pageSize' = pageSize
    /\ status' \in Statuses
    /\ Respects(status', j)
    /\ \/ status'.scanning \in {status.scanning, None}
       \/ status'.scanning = j /\ kind[j] = "scan"
    /\ \E l \in Places : Goto(j, l)

Alone(j) ==
    \/ pc[j] \in Frozen
    \/ Classifies(j)
    \/ Deletes(j) /\ kind[j] = "batch"

Lands(j) ==
    /\ pc'[j] \in Reserving =>
          /\ status'.busy = j
          /\ \A k \in Jobs \ {j} : Classifies(k) => kind[j] = "delete"
    /\ pc'[j] \in Frozen => status'.phase # "idle"
    /\ Stores(j)' => j \in status'.tokens /\ \A k \in Jobs \ {j} : ~Alone(k)
    /\ pc'[j] \in {"request", "claim"} => status'.scanning = j
    /\ pc'[j] = "delete" => kind[j] \in {"delete", "batch"} /\ status'.kind = kind[j]
    /\ pc'[j] = "handoff" => kind[j] = "delete"
    /\ pc'[j] = "unreserve" => kind[j] = "insert"
    /\ Alone(j)' => \A k \in Jobs \ {j} : ~Stores(k)
    /\ Classifies(j)' => \A k \in Jobs \ {j} : pc[k] \in Reserving => kind[k] = "delete"

Holding == JobsHold /\ KindsFit /\ IntakeStopped /\ ClassifiesAlone

LEMMA HoldingStep ==
  ASSUME LocalAssumption, TypeOK, Holding, NEW j \in Jobs, Effect(j), Lands(j)
  PROVE  Holding'
<1>1. /\ pc \in [Jobs -> Places] /\ None \notin Jobs
      /\ status.scanning \in Jobs \cup {None}
  BY DEF TypeOK, LocalAssumption, Statuses
<1>2. /\ \A k \in Jobs \ {j} : pc'[k] = pc[k]
      /\ kind' = kind
  BY <1>1 DEF Effect, Goto
<1>3. ASSUME NEW k \in Jobs \ {j}
      PROVE  /\ Stores(k)' <=> Stores(k)
             /\ Deletes(k)' <=> Deletes(k)
             /\ Classifies(k)' => Classifies(k)
             /\ Alone(k)' => Alone(k)
  <2>1. Classifies(k)' => Classifies(k)
    BY <1>2 DEF Effect, Respects, Classifies, Classifying
  <2>2. (Stores(k)' <=> Stores(k)) /\ (Deletes(k)' <=> Deletes(k))
    BY <1>2 DEF Stores, Enqueues, Deletes
  <2> QED
    BY <1>2, <2>1, <2>2 DEF Alone
<1>4. JobsHold'
  <2> SUFFICES ASSUME NEW k \in Jobs
               PROVE  /\ pc'[k] \in Reserving => status'.busy = k
                      /\ pc'[k] \in Frozen => status'.phase # "idle"
                      /\ Stores(k)' => k \in status'.tokens
                      /\ pc'[k] \in {"request", "claim"} => status'.scanning = k
    BY DEF JobsHold
  <2>1. CASE k = j
    BY <2>1 DEF Lands
  <2>2. CASE k # j
    <3>1. /\ pc[k] \in Reserving => status.busy = k /\ pc[k] # "dead"
          /\ pc[k] \in Frozen => status.busy = k /\ pc[k] # "dead" /\ status.phase # "idle"
          /\ Stores(k) => k \in status.tokens /\ pc[k] # "dead"
          /\ pc[k] \in {"request", "claim"} => status.scanning = k /\ pc[k] # "dead"
      BY DEF Holding, JobsHold, Reserving, Frozen, Stores
    <3> QED
      BY <1>2, <1>3, <2>2, <3>1 DEF Effect, Respects
  <2> QED
    BY <2>1, <2>2
<1>5. KindsFit'
  <2>1. status'.scanning # None => kind'[status'.scanning] = "scan"
    BY <1>2 DEF Effect, Holding, KindsFit
  <2>2. ASSUME NEW k \in Jobs
        PROVE  /\ pc'[k] = "delete" => kind'[k] \in {"delete", "batch"} /\ status'.kind = kind'[k]
               /\ pc'[k] = "handoff" => kind'[k] = "delete"
               /\ pc'[k] = "unreserve" => kind'[k] = "insert"
    <3>1. CASE k = j
      BY <1>2, <3>1 DEF Lands
    <3>2. CASE k # j
      <4>1. pc[k] = "delete" => status.busy = k /\ status'.kind = status.kind
        BY <3>2 DEF Effect, Respects, Holding, JobsHold, Reserving
      <4> QED
        BY <1>2, <3>2, <4>1 DEF Holding, KindsFit
    <3> QED
      BY <3>1, <3>2
  <2> QED
    BY <2>1, <2>2 DEF KindsFit
<1>6. IntakeStopped'
  <2> SUFFICES ASSUME NEW a \in Jobs, NEW b \in Jobs, Stores(b)'
               PROVE  ~Alone(a)'
    BY <1>2 DEF IntakeStopped, Alone
  <2>1. CASE a = b
    <3>1. Stores(a)' /\ Alone(a)' => FALSE
      <4>1. Stores(a)' => pc'[a] \in {"write", "unreserve"} /\ kind'[a] \in {"insert", "upload"}
        BY DEF Stores, Enqueues
      <4>2. Classifies(a)' => kind'[a] = "scan"
        <5>1. Classifies(a)' => status'.scanning = a /\ status'.scanning # None
          BY <1>1 DEF Classifies, Classifying
        <5> QED
          BY <1>5, <5>1 DEF KindsFit
      <4> QED
        BY <4>1, <4>2 DEF Alone, Frozen, Deletes
    <3> QED
      BY <2>1, <3>1
  <2>2. CASE a # b /\ a = j
    BY <1>3, <2>2 DEF Lands
  <2>3. CASE a # b /\ b = j
    BY <1>3, <2>3 DEF Lands
  <2>4. CASE a # b /\ a # j /\ b # j
    BY <1>3, <2>4 DEF Holding, IntakeStopped, Alone
  <2> QED
    BY <2>1, <2>2, <2>3, <2>4
<1>7. ClassifiesAlone'
  <2> SUFFICES ASSUME NEW a \in Jobs, NEW b \in Jobs, Classifies(a)', pc'[b] \in Reserving
               PROVE  kind[b] = "delete"
    BY <1>2 DEF ClassifiesAlone
  <2>1. a # b
    BY DEF Classifies, Reserving
  <2>2. CASE a = j
    BY <1>2, <2>1, <2>2 DEF Lands
  <2>3. CASE b = j
    BY <1>3, <2>1, <2>3 DEF Lands
  <2>4. CASE a # j /\ b # j
    BY <1>2, <1>3, <2>4 DEF Holding, ClassifiesAlone
  <2> QED
    BY <2>2, <2>3, <2>4
<1> QED
  BY <1>4, <1>5, <1>6, <1>7 DEF Holding

-----------------------------------------------------------------------------
(* The shapes of a step: it leaves the status alone, it is one of the owner *)
(* of busy, or it reserves something after a reaping.                      *)

LEMMA StatusKept ==
  ASSUME TypeOK, NEW j \in Jobs, NEW l \in Places, Goto(j, l), UNCHANGED <<settings, status>>
  PROVE  Effect(j) /\ pc'[j] = l
<1>1. status \in Statuses /\ pc \in [Jobs -> Places]
  BY DEF TypeOK
<1>2. pc'[j] = l
  BY <1>1 DEF Goto
<1>3. Respects(status', j)
  BY DEF Respects
<1> QED
  BY <1>1, <1>2, <1>3 DEF Effect, settings

\* The owner of busy may change all of the status but scans and tokens.
LEMMA OwnerWrites ==
  ASSUME LocalAssumption, TypeOK, NEW j \in Jobs, NEW l \in Places, Goto(j, l), UNCHANGED settings,
         status.busy = j, status' \in Statuses, status'.tokens = status.tokens,
         status'.scanning = status.scanning, status'.exclusive = status.exclusive
  PROVE  Effect(j) /\ pc'[j] = l /\ Classifying(j)' = Classifying(j)
<1>1. pc \in [Jobs -> Places]
  BY DEF TypeOK
<1>2. pc'[j] = l
  BY <1>1 DEF Goto
<1>3. Respects(status', j)
  BY DEF Respects
<1>4. Classifying(j)' = Classifying(j)
  BY DEF Classifying
<1> QED
  BY <1>2, <1>3, <1>4 DEF Effect, settings

LEMMA OwnerIsAlone ==
  ASSUME JobsHold, NEW j \in Jobs, status.busy = j
  PROVE  \A k \in Jobs \ {j} : pc[k] \notin Reserving
BY DEF JobsHold

\* What a reservation may add to a status that has been reaped.
Reserves(t, j) ==
    /\ t \in Statuses
    /\ \/ t.busy = Reaped.busy /\ t.kind = Reaped.kind
       \/ Reaped.busy \in {None, j}
    /\ t.phase = Reaped.phase /\ t.request = Reaped.request
    /\ Reaped.tokens \subseteq t.tokens
    /\ \/ t.scanning = Reaped.scanning /\ t.exclusive = Reaped.exclusive
       \/ Reaped.scanning = None /\ t.scanning = j /\ kind[j] = "scan"

LEMMA ReservationRespects ==
  ASSUME LocalAssumption, TypeOK, NEW j \in Jobs, NEW l \in Places, Goto(j, l),
         UNCHANGED settings, Reserves(status', j)
  PROVE  Effect(j) /\ pc'[j] = l
<1>1. pc \in [Jobs -> Places] /\ None \notin Jobs
  BY DEF TypeOK, LocalAssumption
<1>2. pc'[j] = l
  BY <1>1 DEF Goto
<1> DEFINE t == status'
<1>3. ASSUME NEW k \in Jobs \ {j}, pc[k] # "dead"
      PROVE  /\ status.busy = k =>
                   /\ t.busy = k /\ t.kind = status.kind
                   /\ t.phase = status.phase /\ t.request = status.request
             /\ k \in status.tokens => k \in t.tokens
             /\ status.scanning = k => t.scanning = k
             /\ t.scanning = k /\ t.exclusive => status.scanning = k /\ status.exclusive
  <2>1. k # None
    BY <1>1
  <2>2. /\ status.busy = k =>
              /\ Reaped.busy = k /\ Reaped.kind = status.kind
              /\ Reaped.phase = status.phase /\ Reaped.request = status.request
        /\ k \in status.tokens => k \in Reaped.tokens
        /\ status.scanning = k <=> Reaped.scanning = k
        /\ status.scanning = k => Reaped.exclusive = status.exclusive
    BY <1>3, ReapedRespects
  <2> HIDE DEF t
  <2>3. Reserves(t, j)
    BY DEF t
  <2>4. status.busy = k => t.busy = Reaped.busy /\ t.kind = Reaped.kind
    BY <2>1, <2>2, <2>3 DEF Reserves
  <2>5. t.scanning = k \/ Reaped.scanning = k =>
           t.scanning = Reaped.scanning /\ t.exclusive = Reaped.exclusive
    BY <2>1, <2>3 DEF Reserves
  <2> QED
    BY <2>2, <2>3, <2>4, <2>5 DEF Reserves
<1>4. Respects(status', j)
  BY <1>3 DEF Respects
<1>5. \/ t.scanning \in {status.scanning, None}
      \/ t.scanning = j /\ kind[j] = "scan"
  BY ReapedRespects DEF Reserves
<1> QED
  BY <1>2, <1>4, <1>5 DEF Effect, settings, Reserves

\* What a reservation finds out about the others.
LEMMA ReapedShows ==
  ASSUME LocalAssumption, TypeOK, Holding
  PROVE  \A k \in Jobs :
           /\ pc[k] \in Reserving => Reaped.busy = k
           /\ pc[k] \in Frozen => Reaped.phase # "idle"
           /\ Classifies(k) => Reaped.scanning = k /\ Reaped.exclusive
           /\ Deletes(k) /\ kind[k] = "batch" => Reaped.kind = "batch"
           /\ Stores(k) => k \in Reaped.tokens
<1> SUFFICES ASSUME NEW k \in Jobs
             PROVE  /\ pc[k] \in Reserving => Reaped.busy = k
                    /\ pc[k] \in Frozen => Reaped.phase # "idle"
                    /\ Classifies(k) => Reaped.scanning = k /\ Reaped.exclusive
                    /\ Deletes(k) /\ kind[k] = "batch" => Reaped.kind = "batch"
                    /\ Stores(k) => k \in Reaped.tokens
  OBVIOUS
<1>1. CASE pc[k] = "dead"
  BY <1>1 DEF Reserving, Frozen, Classifies, Deletes, Stores
<1>2. CASE pc[k] # "dead"
  <2>1. /\ status.busy = k =>
              /\ Reaped.busy = k /\ Reaped.kind = status.kind
              /\ Reaped.phase = status.phase
        /\ k \in status.tokens => k \in Reaped.tokens
        /\ status.scanning = k => Reaped.scanning = k /\ Reaped.exclusive = status.exclusive
    BY <1>2, ReapedRespects
  <2>2. /\ pc[k] \in Reserving => status.busy = k
        /\ pc[k] \in Frozen => status.busy = k /\ status.phase # "idle"
        /\ Deletes(k) => status.busy = k /\ status.kind = kind[k]
        /\ Stores(k) => k \in status.tokens
    BY DEF Holding, JobsHold, KindsFit, Reserving, Frozen, Deletes
  <2>3. Classifies(k) => status.scanning = k /\ status.exclusive
    BY DEF Classifies, Classifying
  <2> QED
    BY <2>1, <2>2, <2>3
<1> QED
  BY <1>1, <1>2

\* A job that goes where it needs nothing.
Free == {"release", "giveup", "unscan", "again", "drive", "done", "dead"}
LEMMA LandsFree ==
  ASSUME NEW j \in Jobs, pc'[j] \in Free
  PROVE  Lands(j)
BY DEF Lands, Free, Reserving, Frozen, Stores, Deletes, Classifies, Alone

\* The owner of busy keeps it.
LEMMA StaysOwner ==
  ASSUME Holding, UNCHANGED settings, NEW j \in Jobs, pc[j] \in Reserving,
         pc'[j] \in Reserving \ {"delete"}, status'.busy = j,
         pc'[j] = "handoff" => kind[j] = "delete",
         pc'[j] \in Frozen => status'.phase # "idle" /\ \A k \in Jobs \ {j} : ~Stores(k)
  PROVE  Lands(j)
<1>1. \A k \in Jobs \ {j} : Classifies(k) => kind[j] = "delete"
  BY DEF Holding, ClassifiesAlone
<1>2. ~Classifies(j)' /\ ~Deletes(j)' /\ ~Stores(j)'
  BY DEF Classifies, Deletes, Stores, Reserving
<1>3. pc'[j] \notin {"request", "claim", "unreserve"}
  BY DEF Reserving
<1>4. Alone(j)' => pc'[j] \in Frozen
  BY <1>2 DEF Alone
<1> QED
  BY <1>1, <1>2, <1>3, <1>4 DEF Lands

\* The intake stays stopped from the decision to be alone until the thaw.
LEMMA FrozenIsAlone ==
  ASSUME Holding, NEW j \in Jobs, pc[j] \in Frozen
  PROVE  status.phase # "idle" /\ \A k \in Jobs \ {j} : ~Stores(k)
BY DEF Holding, JobsHold, IntakeStopped
LEMMA NobodyStores ==
  ASSUME Holding, ~Enqueuing
  PROVE  \A k \in Jobs : ~Stores(k)
BY DEF Holding, JobsHold, Enqueuing

-----------------------------------------------------------------------------
(* The steps of a run.                                                     *)

Fitting == LocalAssumption /\ TypeOK /\ Holding

\* Steps that leave the status alone and keep busy.
LEMMA WorkHolds ==
  ASSUME Fitting, NEW j \in Jobs, pc[j] \in Reserving \ Frozen, UNCHANGED <<settings, status>>,
         NEW l \in Reserving \ (Frozen \cup {"delete", "handoff"}), Goto(j, l)
  PROVE  Effect(j) /\ Lands(j)
<1>1. l \in Places
  BY DEF Places
<1>2. Effect(j) /\ pc'[j] = l
  BY <1>1, StatusKept DEF Fitting
<1>3. status'.busy = j
  BY DEF Fitting, Holding, JobsHold
<1> QED
  BY <1>2, <1>3, StaysOwner DEF Fitting

LEMMA PlainRunHolds ==
  ASSUME Fitting, NEW j \in Jobs,
         Peek(j) \/ Fetch(j) \/ Validate(j) \/ EndBatch(j) \/ Drain(j) \/ Delete(j)
  PROVE  Effect(j) /\ Lands(j)
<1>1. \E l \in {"freeze", "page", "decide", "validate", "exit", "work", "leave"} : Goto(j, l)
  BY DEF Peek, Fetch, Validate, EndBatch, Drain, Delete
<1>2. pc[j] \in {"peek", "page", "validate", "work", "documents", "delete"} /\ UNCHANGED <<settings, status>>
  BY DEF Peek, Fetch, Validate, EndBatch, Drain, Delete
<1> QED
  BY <1>1, <1>2, WorkHolds DEF Reserving, Frozen

LEMMA WorkersHold ==
  ASSUME Fitting, NEW j \in Jobs, NEW d \in Docs, Begin(j, d) \/ Finish(j, d) \/ Feed(j, d)
  PROVE  Effect(j) /\ Lands(j)
<1>1. /\ pc[j] = "work" /\ pc' = pc
      /\ UNCHANGED <<settings, status>>
  BY DEF Begin, Finish, Feed
<1>2. Goto(j, "work")
  BY <1>1 DEF Goto, Fitting, TypeOK
<1> QED
  BY <1>1, <1>2, WorkHolds DEF Reserving, Frozen

LEMMA FailHolds ==
  ASSUME Fitting, NEW j \in Jobs, Fail(j)
  PROVE  Effect(j) /\ Lands(j)
<1>1. pc[j] \in Reserving /\ Goto(j, "exit") /\ UNCHANGED <<settings, status>>
  BY DEF Fail, Running, Reserving
<1>2. Effect(j) /\ pc'[j] = "exit"
  BY <1>1, StatusKept DEF Fitting, Places, Reserving
<1>3. status'.busy = j
  BY <1>1 DEF Fitting, Holding, JobsHold
<1> QED
  BY <1>1, <1>2, <1>3, StaysOwner DEF Fitting, Reserving, Frozen

LEMMA ExclusiveHolds ==
  ASSUME Fitting, NEW j \in Jobs, Reset(j) \/ Ack(j)
  PROVE  Effect(j) /\ Lands(j)
<1>1. /\ pc[j] \in Frozen /\ UNCHANGED <<settings, status>>
      /\ \E l \in {"exit", "ack", "reset", "thaw"} : Goto(j, l)
  BY DEF Reset, Ack, Frozen
<1>2. PICK l \in {"exit", "ack", "reset", "thaw"} : Goto(j, l)
  BY <1>1
<1>3. Effect(j) /\ pc'[j] = l
  BY <1>1, <1>2, StatusKept DEF Fitting, Places, Reserving
<1>4. pc[j] \in Reserving /\ status'.busy = j
  BY <1>1 DEF Fitting, Holding, JobsHold, Reserving, Frozen
<1>5. status'.phase # "idle" /\ \A k \in Jobs \ {j} : ~Stores(k)
  BY <1>1, FrozenIsAlone DEF Fitting
<1> QED
  BY <1>1, <1>2, <1>3, <1>4, <1>5, StaysOwner DEF Fitting, Reserving

LEMMA ReturnedIsFree ==
  ASSUME NEW j \in Jobs
  PROVE  Returned(j) \in Free /\ Returned(j) \in Places
BY DEF Returned, Free, Places

\* The owner's writes of the status.
LEMMA UnfrozenFits ==
  ASSUME LocalAssumption, NEW s \in Statuses
  PROVE  /\ Unfrozen(s) \in Statuses /\ Released(s) \in Statuses
         /\ Unfrozen(s) = [s EXCEPT !.phase = "idle", !.request = None]
         /\ Released(s) = [s EXCEPT !.phase = "idle", !.request = None,
                                    !.busy = None, !.kind = "none"]
BY DEF Unfrozen, Released, Statuses

LEMMA DecideHolds ==
  ASSUME Fitting, NEW j \in Jobs, Decide(j)
  PROVE  Effect(j) /\ Lands(j)
<1>1. pc[j] = "decide" /\ pc[j] \in Reserving /\ status.busy = j /\ UNCHANGED settings
  BY DEF Decide, Fitting, Holding, JobsHold, Reserving
<1>2. status \in Statuses /\ None \notin Jobs
  BY DEF Fitting, TypeOK, LocalAssumption
<1>3. CASE Decision(j) = "release"
  <2>1. /\ status' = [status EXCEPT !.busy = None, !.kind = "none"]
        /\ Goto(j, Returned(j))
    BY <1>3 DEF Decide
  <2>2. /\ status' \in Statuses /\ status'.tokens = status.tokens
        /\ status'.scanning = status.scanning /\ status'.exclusive = status.exclusive
    BY <1>2, <2>1 DEF Statuses
  <2>3. Effect(j) /\ pc'[j] = Returned(j)
    BY <1>1, <2>1, <2>2, ReturnedIsFree, OwnerWrites DEF Fitting
  <2> QED
    BY <2>3, ReturnedIsFree, LandsFree
<1>4. CASE Decision(j) = "confirm"
  <2>1. /\ Goto(j, "confirm") /\ UNCHANGED status /\ status.phase # "idle" /\ ~Enqueuing
    BY <1>4 DEF Decide, Decision
  <2>2. Effect(j) /\ pc'[j] = "confirm"
    BY <1>1, <2>1, StatusKept DEF Fitting, Places, Reserving
  <2>3. \A k \in Jobs : ~Stores(k)
    BY <2>1, NobodyStores DEF Fitting
  <2> QED
    BY <1>1, <2>1, <2>2, <2>3, StaysOwner DEF Fitting, Reserving
<1>5. CASE Decision(j) \notin {"release", "confirm"}
  <2>1. /\ UNCHANGED status
        /\ \E l \in {"exit", "freeze", "page", "documents", "wait"} : Goto(j, l)
    BY <1>5 DEF Decide, Decision
  <2> QED
    BY <1>1, <2>1, WorkHolds DEF Reserving, Frozen
<1> QED
  BY <1>3, <1>4, <1>5

\* Steps with which the owner changes the phase and keeps busy.
LEMMA PhaseHolds ==
  ASSUME Fitting, NEW j \in Jobs, Hold(j) \/ Quiet(j) \/ Freeze(j) \/ Confirm(j),
         status'.request \in Jobs \cup {None}
  PROVE  Effect(j) /\ Lands(j)
<1>1. pc[j] \in Reserving /\ status.busy = j /\ UNCHANGED settings
  BY DEF Hold, Quiet, Freeze, Confirm, Fitting, Holding, JobsHold, Reserving
<1>2. status \in Statuses
  BY DEF Fitting, TypeOK
<1>3. /\ status' \in Statuses /\ status'.tokens = status.tokens
      /\ status'.scanning = status.scanning /\ status'.exclusive = status.exclusive
      /\ status'.busy = status.busy
  <2>1. CASE status' = status
    BY <1>2, <2>1
  <2>2. CASE status' # status
    <3>1. \/ status' = [status EXCEPT !.phase = "reset"]
          \/ status' = [status EXCEPT !.phase = "drain", !.request = status'.request]
      <4>1. CASE Hold(j)
        <5>1. status' = [status EXCEPT !.phase = "drain", !.request = j]
          BY <4>1 DEF Hold
        <5>2. status'.request = j
          BY <1>2, <5>1 DEF Statuses
        <5> QED
          BY <5>1, <5>2
      <4>2. CASE Freeze(j)
        <5>1. status' = [status EXCEPT !.phase = "drain", !.request = Head(mailbox.manual)]
          BY <4>2, <2>2 DEF Freeze
        <5>2. status'.request = Head(mailbox.manual)
          BY <1>2, <5>1 DEF Statuses
        <5> QED
          BY <5>1, <5>2
      <4>3. CASE Quiet(j) \/ Confirm(j)
        BY <4>3, <2>2 DEF Quiet, Confirm
      <4> QED
        BY <4>1, <4>2, <4>3
    <3> QED
      BY <1>2, <3>1 DEF Statuses
  <2> QED
    BY <2>1, <2>2
<1>4. \/ \E l \in {"quiet", "exit", "page", "validate"} : Goto(j, l)
      \/ Goto(j, "reset") /\ status' = [status EXCEPT !.phase = "reset"]
         /\ \A k \in Jobs \ {j} : ~Stores(k)
  <2>1. CASE Hold(j) \/ Freeze(j)
    BY <2>1 DEF Hold, Freeze
  <2>2. CASE Quiet(j)
    BY <2>2, NobodyStores DEF Quiet, Fitting
  <2>3. CASE Confirm(j)
    <3>1. pc[j] \in Frozen
      BY <2>3 DEF Confirm, Frozen
    <3> QED
      BY <2>3, <3>1, FrozenIsAlone DEF Confirm, Fitting
  <2> QED
    BY <2>1, <2>2, <2>3
<1>5. CASE \E l \in {"quiet", "exit", "page", "validate"} : Goto(j, l)
  <2>1. PICK l \in {"quiet", "exit", "page", "validate"} : Goto(j, l)
    BY <1>5
  <2>2. Effect(j) /\ pc'[j] = l
    BY <1>1, <1>3, <2>1, OwnerWrites DEF Fitting, Places, Reserving
  <2> QED
    BY <1>1, <1>3, <2>1, <2>2, StaysOwner DEF Fitting, Reserving, Frozen
<1>6. CASE ~\E l \in {"quiet", "exit", "page", "validate"} : Goto(j, l)
  <2>1. /\ Goto(j, "reset") /\ status' = [status EXCEPT !.phase = "reset"]
        /\ \A k \in Jobs \ {j} : ~Stores(k)
    BY <1>4, <1>6
  <2>2. status'.phase # "idle"
    BY <1>2, <2>1 DEF Statuses
  <2>3. Effect(j) /\ pc'[j] = "reset"
    BY <1>1, <1>3, <2>1, OwnerWrites DEF Fitting, Places, Reserving
  <2> QED
    BY <1>1, <1>3, <2>1, <2>2, <2>3, StaysOwner DEF Fitting, Reserving
<1> QED
  BY <1>5, <1>6

LEMMA ThawHolds ==
  ASSUME Fitting, NEW j \in Jobs, Thaw(j)
  PROVE  Effect(j) /\ Lands(j)
<1>1. /\ pc[j] \in Frozen /\ pc[j] \in Reserving /\ status.busy = j /\ UNCHANGED settings
      /\ status \in Statuses /\ None \notin Jobs
  BY DEF Thaw, Fitting, Holding, JobsHold, Reserving, Frozen, TypeOK, LocalAssumption
<1>2. \A k \in Jobs \ {j} : pc[k] \notin Reserving /\ ~Stores(k)
  BY <1>1, OwnerIsAlone, FrozenIsAlone DEF Fitting, Holding
<1>3. CASE Classifying(j)
  <2>1. status' = [status EXCEPT !.phase = "idle", !.request = None, !.busy = None, !.kind = "none"]
        /\ Goto(j, "write")
    BY <1>1, <1>3, UnfrozenFits DEF Thaw, Fitting
  <2>2. /\ status' \in Statuses /\ status'.tokens = status.tokens
        /\ status'.scanning = status.scanning /\ status'.exclusive = status.exclusive
    BY <1>1, <2>1 DEF Statuses
  <2>3. Effect(j) /\ pc'[j] = "write"
    BY <1>1, <2>1, <2>2, OwnerWrites DEF Fitting, Places
  <2>4. kind'[j] = "scan"
    BY <1>1, <1>3 DEF Classifying, Fitting, Holding, KindsFit, settings
  <2>5. ~Stores(j)'
    BY <2>4 DEF Stores, Enqueues
  <2> QED
    BY <1>2, <2>3, <2>5 DEF Lands, Reserving, Frozen
<1>4. CASE ~Classifying(j)
  <2>1. status' = [status EXCEPT !.phase = "idle", !.request = None] /\ Goto(j, "page")
    BY <1>1, <1>4, UnfrozenFits DEF Thaw, Fitting
  <2>2. /\ status' \in Statuses /\ status'.tokens = status.tokens
        /\ status'.scanning = status.scanning /\ status'.exclusive = status.exclusive
        /\ status'.busy = j
    BY <1>1, <2>1 DEF Statuses
  <2>3. Effect(j) /\ pc'[j] = "page"
    BY <1>1, <2>1, <2>2, OwnerWrites DEF Fitting, Places, Reserving
  <2> QED
    BY <1>1, <2>2, <2>3, StaysOwner DEF Fitting, Reserving, Frozen
<1> QED
  BY <1>3, <1>4

LEMMA ExitHolds ==
  ASSUME Fitting, NEW j \in Jobs, Exit(j)
  PROVE  Effect(j) /\ Lands(j)
<1>1. status.busy = j /\ UNCHANGED settings /\ status \in Statuses /\ None \notin Jobs
  BY DEF Exit, Fitting, Holding, JobsHold, Reserving, TypeOK, LocalAssumption
<1> DEFINE cancel == status.cancel /\ Classifying(j)
<1>2. cancel \in BOOLEAN
  OBVIOUS
<1>3. status' = [status EXCEPT !.phase = "idle", !.request = None, !.busy = None,
                              !.kind = "none", !.cancel = cancel]
  <2>1. Released(status).cancel = status.cancel
    BY <1>1 DEF Released, Unfrozen, Statuses
  <2> QED
    BY <1>1, <2>1, UnfrozenFits DEF Exit, Fitting, Statuses
<1> HIDE DEF cancel
<1>4. /\ status' \in Statuses /\ status'.tokens = status.tokens
      /\ status'.scanning = status.scanning /\ status'.exclusive = status.exclusive
  BY <1>1, <1>2, <1>3 DEF Statuses
<1>5. PICK l : Goto(j, l) /\ l \in Free /\ l \in Places
  BY ReturnedIsFree DEF Exit, Free, Places
<1>6. Effect(j) /\ pc'[j] = l
  BY <1>1, <1>4, <1>5, OwnerWrites DEF Fitting
<1> QED
  BY <1>5, <1>6, LandsFree

LEMMA LeaveHolds ==
  ASSUME Fitting, NEW j \in Jobs, Leave(j)
  PROVE  Effect(j) /\ Lands(j)
<1>1. /\ pc[j] \in Reserving \ Frozen /\ status.busy = j /\ UNCHANGED settings
      /\ status \in Statuses /\ None \notin Jobs
  BY DEF Leave, Fitting, Holding, JobsHold, Reserving, Frozen, TypeOK, LocalAssumption
<1>2. CASE HasWork /\ kind[j] = "delete"
  <2>1. status' = [status EXCEPT !.cancel = FALSE] /\ Goto(j, "handoff")
    BY <1>2 DEF Leave
  <2>2. /\ status' \in Statuses /\ status'.tokens = status.tokens /\ status'.busy = j
        /\ status'.scanning = status.scanning /\ status'.exclusive = status.exclusive
    BY <1>1, <2>1 DEF Statuses
  <2>3. Effect(j) /\ pc'[j] = "handoff"
    BY <1>1, <2>1, <2>2, OwnerWrites DEF Fitting, Places, Reserving
  <2> QED
    BY <1>1, <1>2, <2>2, <2>3, StaysOwner DEF Fitting, Reserving, Frozen
<1>3. CASE ~(HasWork /\ kind[j] = "delete")
  <2>1. status' = [status EXCEPT !.phase = "idle", !.request = None, !.busy = None,
                                !.kind = "none", !.cancel = FALSE]
    BY <1>1, <1>3, UnfrozenFits DEF Leave, Fitting, Statuses
  <2>2. /\ status' \in Statuses /\ status'.tokens = status.tokens
        /\ status'.scanning = status.scanning /\ status'.exclusive = status.exclusive
    BY <1>1, <2>1 DEF Statuses
  <2>3. PICK l : Goto(j, l) /\ l \in Free /\ l \in Places
    BY <1>3 DEF Leave, Free, Places
  <2>4. Effect(j) /\ pc'[j] = l
    BY <1>1, <2>2, <2>3, OwnerWrites DEF Fitting
  <2> QED
    BY <2>3, <2>4, LandsFree
<1> QED
  BY <1>2, <1>3

LEMMA WaitHolds ==
  ASSUME Fitting, NEW j \in Jobs, Wait(j)
  PROVE  Effect(j) /\ Lands(j)
<1>1. pc[j] = "wait" /\ pc[j] \in Reserving /\ UNCHANGED settings /\ status' = Reaped /\ Goto(j, "decide")
  BY DEF Wait, Reserving
<1>2. Reaped \in Statuses /\ Reaped.busy = j
  BY <1>1, ReapedRespects, ReapedShows DEF Fitting
<1>3. Reserves(status', j)
  BY <1>1, <1>2 DEF Reserves
<1>4. Effect(j) /\ pc'[j] = "decide"
  BY <1>1, <1>3, ReservationRespects DEF Fitting, Places, Reserving
<1> QED
  BY <1>1, <1>2, <1>4, StaysOwner DEF Fitting, Reserving, Frozen

-----------------------------------------------------------------------------
(* The reservations.                                                       *)

LEMMA DriveHolds ==
  ASSUME Fitting, NEW j \in Jobs, Drive(j)
  PROVE  Effect(j) /\ Lands(j)
<1> DEFINE s == Reaped
           held == pc[j] = "handoff"
           t == [s EXCEPT !.busy = j, !.kind = "processing", !.deferred = FALSE, !.cancel = FALSE]
<1>1. /\ s \in Statuses /\ UNCHANGED settings
      /\ held => s.busy = j /\ kind[j] = "delete"
  BY ReapedRespects, ReapedShows DEF Drive, Fitting, Holding, KindsFit, Reserving
<1>2. \/ (status' = s \/ status' = [s EXCEPT !.deferred = TRUE]) /\ Goto(j, Returned(j))
      \/ held /\ status' = s /\ Goto(j, "exit")
      \/ /\ status' = t /\ Goto(j, "peek")
         /\ held \/ (~s.exclusive /\ s.busy = None)
  BY DEF Drive
<1>3. CASE (status' = s \/ status' = [s EXCEPT !.deferred = TRUE]) /\ Goto(j, Returned(j))
  <2>1. Reserves(status', j)
    BY <1>1, <1>3 DEF Reserves, Statuses
  <2>2. Effect(j) /\ pc'[j] = Returned(j)
    BY <1>1, <1>3, <2>1, ReturnedIsFree, ReservationRespects DEF Fitting
  <2> QED
    BY <2>2, ReturnedIsFree, LandsFree
<1>4. CASE held /\ status' = s /\ Goto(j, "exit")
  <2>1. Reserves(status', j)
    BY <1>1, <1>4 DEF Reserves
  <2>2. Effect(j) /\ pc'[j] = "exit"
    BY <1>1, <1>4, <2>1, ReservationRespects DEF Fitting, Places, Reserving
  <2> QED
    BY <1>1, <1>4, <2>2, StaysOwner DEF Fitting, Reserving, Frozen
<1>5. CASE /\ status' = t /\ Goto(j, "peek")
           /\ held \/ (~s.exclusive /\ s.busy = None)
  <2>1. t \in Statuses /\ t.busy = j /\ t.phase = s.phase /\ t.request = s.request
        /\ t.tokens = s.tokens /\ t.scanning = s.scanning /\ t.exclusive = s.exclusive
    BY <1>1 DEF Statuses
  <2>2. s.busy \in {None, j}
    BY <1>1, <1>5
  <2> HIDE DEF t
  <2>3. Reserves(status', j)
    BY <1>5, <2>1, <2>2 DEF Reserves
  <2>4. Effect(j) /\ pc'[j] = "peek"
    BY <1>1, <1>5, <2>3, ReservationRespects DEF Fitting, Places, Reserving
  <2>5. ASSUME NEW k \in Jobs \ {j}, Classifies(k) PROVE kind[j] = "delete"
    <3>1. s.exclusive
      BY <2>5, ReapedShows DEF Fitting
    <3> QED
      BY <1>1, <1>5, <3>1
  <2>6. ~Alone(j)' /\ ~Stores(j)' /\ ~Classifies(j)'
    BY <2>4 DEF Alone, Stores, Classifies, Deletes, Frozen
  <2> QED
    BY <1>5, <2>1, <2>4, <2>5, <2>6 DEF Lands, Reserving, Frozen
<1> QED
  BY <1>2, <1>3, <1>4, <1>5

LEMMA AdmitHolds ==
  ASSUME Fitting, NEW j \in Jobs, Admit(j)
  PROVE  Effect(j) /\ Lands(j)
<1> DEFINE s == Reaped
           enqueues == [s EXCEPT !.tokens = @ \cup {j}]
           scans == [s EXCEPT !.scanning = j, !.exclusive = TRUE]
           cancel == s.cancel /\ kind[j] = "batch"
           deletes == [s EXCEPT !.busy = j, !.kind = kind[j], !.cancel = cancel]
<1>1. s \in Statuses /\ UNCHANGED settings
  BY ReapedRespects DEF Admit, Fitting
<1>2. \/ status' = s /\ (Goto(j, "done") \/ Goto(j, "drive"))
      \/ ~Refused(j, s) /\ Enqueues(j) /\ status' = enqueues /\ Goto(j, "write")
      \/ ~Refused(j, s) /\ kind[j] = "scan" /\ status' = scans /\ Goto(j, "request")
      \/ /\ ~Refused(j, s) /\ kind[j] \in {"delete", "batch"} /\ status' = deletes
         /\ Goto(j, "delete")
  BY DEF Admit
<1>3. CASE status' = s /\ (Goto(j, "done") \/ Goto(j, "drive"))
  <2>1. Reserves(status', j)
    BY <1>1, <1>3 DEF Reserves
  <2>2. PICK l \in {"done", "drive"} : Goto(j, l)
    BY <1>3
  <2>3. Effect(j) /\ pc'[j] = l
    BY <1>1, <2>1, <2>2, ReservationRespects DEF Fitting, Places
  <2> QED
    BY <2>3, LandsFree DEF Free
<1>4. CASE ~Refused(j, s) /\ Enqueues(j) /\ status' = enqueues /\ Goto(j, "write")
  <2>1. /\ enqueues \in Statuses /\ enqueues.tokens = s.tokens \cup {j}
        /\ enqueues.busy = s.busy /\ enqueues.kind = s.kind /\ enqueues.phase = s.phase
        /\ enqueues.request = s.request /\ enqueues.scanning = s.scanning
        /\ enqueues.exclusive = s.exclusive
    BY <1>1 DEF Statuses
  <2>2. ~s.exclusive /\ s.kind # "batch" /\ s.phase = "idle"
    BY <1>4 DEF Refused
  <2> HIDE DEF enqueues, s
  <2>3. Reserves(status', j)
    BY <1>1, <1>4, <2>1 DEF Reserves, s
  <2>4. Effect(j) /\ pc'[j] = "write"
    BY <1>1, <1>4, <2>3, ReservationRespects DEF Fitting, Places
  <2>5. \A k \in Jobs : ~Alone(k)
    BY <2>2, ReapedShows DEF Alone, Fitting, s
  <2>6. ~Classifies(j)' /\ ~Alone(j)' /\ j \in status'.tokens
    BY <1>4, <2>1, <2>2, <2>4 DEF Classifies, Classifying, Alone, Frozen, Deletes
  <2> QED
    BY <2>4, <2>5, <2>6 DEF Lands, Reserving, Frozen
<1>5. CASE ~Refused(j, s) /\ kind[j] = "scan" /\ status' = scans /\ Goto(j, "request")
  <2>1. /\ scans \in Statuses /\ scans.tokens = s.tokens
        /\ scans.busy = s.busy /\ scans.kind = s.kind /\ scans.phase = s.phase
        /\ scans.request = s.request /\ scans.scanning = j
    BY <1>1 DEF Statuses
  <2>2. s.scanning = None
    BY <1>5 DEF Refused
  <2> HIDE DEF scans, s
  <2>3. Reserves(status', j)
    BY <1>5, <2>1, <2>2 DEF Reserves, s
  <2>4. Effect(j) /\ pc'[j] = "request"
    BY <1>1, <1>5, <2>3, ReservationRespects DEF Fitting, Places
  <2>5. ~Alone(j)' /\ ~Stores(j)' /\ ~Classifies(j)' /\ status'.scanning = j
    BY <1>5, <2>1, <2>4 DEF Alone, Stores, Classifies, Deletes, Frozen
  <2> QED
    BY <2>4, <2>5 DEF Lands, Reserving, Frozen
<1>6. CASE /\ ~Refused(j, s) /\ kind[j] \in {"delete", "batch"} /\ status' = deletes
           /\ Goto(j, "delete")
  <2>1. cancel \in BOOLEAN
    OBVIOUS
  <2> HIDE DEF cancel
  <2>2. /\ deletes \in Statuses /\ deletes.tokens = s.tokens
        /\ deletes.busy = j /\ deletes.kind = kind[j] /\ deletes.phase = s.phase
        /\ deletes.request = s.request /\ deletes.scanning = s.scanning
        /\ deletes.exclusive = s.exclusive
    BY <1>1, <1>6, <2>1 DEF Statuses
  <2>3. /\ s.busy = None
        /\ kind[j] = "batch" => s.scanning = None /\ s.tokens = {}
    BY <1>6 DEF Refused
  <2> HIDE DEF deletes, s
  <2>4. Reserves(status', j)
    BY <1>6, <2>2, <2>3 DEF Reserves, s
  <2>5. Effect(j) /\ pc'[j] = "delete"
    BY <1>1, <1>6, <2>4, ReservationRespects DEF Fitting, Places, Reserving
  <2>6. None \notin Jobs
    BY DEF Fitting, LocalAssumption
  <2>7. ASSUME NEW k \in Jobs \ {j}, kind[j] = "batch" PROVE ~Classifies(k) /\ ~Stores(k)
    BY <2>3, <2>6, <2>7, ReapedShows DEF Fitting, s
  <2>8. ~Stores(j)' /\ ~Classifies(j)' /\ (Alone(j)' => kind[j] = "batch")
    BY <1>1, <2>5 DEF Alone, Stores, Classifies, Frozen, settings
  <2> QED
    BY <1>6, <2>2, <2>5, <2>7, <2>8 DEF Lands, Reserving, Frozen
<1> QED
  BY <1>2, <1>3, <1>4, <1>5, <1>6

LEMMA ClaimHolds ==
  ASSUME Fitting, NEW j \in Jobs, Claim(j)
  PROVE  Effect(j) /\ Lands(j)
<1> DEFINE s == Reaped
           t == [s EXCEPT !.busy = j, !.kind = "processing", !.cancel = FALSE]
<1>1. s \in Statuses /\ UNCHANGED settings /\ status.scanning = j
  BY ReapedRespects DEF Claim, Fitting, Holding, JobsHold
<1>2. \/ s.busy = None /\ status' = t /\ Goto(j, "hold")
      \/ status' = s /\ Goto(j, "giveup")
  BY DEF Claim
<1>3. CASE s.busy = None /\ status' = t /\ Goto(j, "hold")
  <2>1. t \in Statuses /\ t.busy = j /\ t.phase = s.phase /\ t.request = s.request
        /\ t.tokens = s.tokens /\ t.scanning = s.scanning /\ t.exclusive = s.exclusive
    BY <1>1 DEF Statuses
  <2> HIDE DEF t
  <2>2. Reserves(status', j)
    BY <1>3, <2>1 DEF Reserves
  <2>3. Effect(j) /\ pc'[j] = "hold"
    BY <1>1, <1>3, <2>2, ReservationRespects DEF Fitting, Places, Reserving
  <2>4. \A k \in Jobs \ {j} : ~Classifies(k)
    BY <1>1 DEF Classifies, Classifying
  <2>5. ~Alone(j)' /\ ~Stores(j)' /\ ~Classifies(j)'
    BY <2>3 DEF Alone, Stores, Classifies, Deletes, Frozen
  <2> QED
    BY <1>3, <2>1, <2>3, <2>4, <2>5 DEF Lands, Reserving, Frozen
<1>4. CASE status' = s /\ Goto(j, "giveup")
  <2>1. Reserves(status', j)
    BY <1>1, <1>4 DEF Reserves
  <2>2. Effect(j) /\ pc'[j] = "giveup"
    BY <1>1, <1>4, <2>1, ReservationRespects DEF Fitting, Places
  <2> QED
    BY <2>2, LandsFree DEF Free
<1> QED
  BY <1>2, <1>3, <1>4

-----------------------------------------------------------------------------
(* Enqueueing and scanning.                                                *)

\* A scan that classifies goes on with it, as does one that enqueues.
LEMMA GoesOn ==
  ASSUME Fitting, NEW j \in Jobs, UNCHANGED <<settings, status>>,
         pc[j] \in {"write", "publish", "narrow"},
         pc'[j] \in {"unreserve", "publish", "narrow"},
         pc'[j] = "unreserve" => pc[j] = "write" /\ kind[j] = "insert"
  PROVE  Lands(j)
<1>1. kind' = kind /\ status' = status
  BY DEF settings
<1>2. Stores(j)' => Stores(j)
  BY <1>1 DEF Stores, Enqueues
<1>3. Classifies(j)' => Classifies(j)
  BY <1>1 DEF Classifies, Classifying
<1>4. Alone(j)' => Classifies(j)
  BY <1>3 DEF Alone, Frozen, Deletes
<1>5. Stores(j) => j \in status.tokens /\ \A k \in Jobs : ~Alone(k)
  BY DEF Fitting, Holding, JobsHold, IntakeStopped, Alone
<1>6. Classifies(j) => \A k \in Jobs : ~Stores(k) /\ (pc[k] \in Reserving => kind[k] = "delete")
  BY DEF Fitting, Holding, IntakeStopped, ClassifiesAlone
<1> QED
  BY <1>1, <1>2, <1>3, <1>4, <1>5, <1>6 DEF Lands, Reserving, Frozen

LEMMA WriteHolds ==
  ASSUME Fitting, NEW j \in Jobs, Write(j)
  PROVE  Effect(j) /\ Lands(j)
<1>1. pc[j] = "write" /\ UNCHANGED <<settings, status>>
  BY DEF Write
<1>2. PICK l \in {"unreserve", "publish", "narrow"} :
         Goto(j, l) /\ (l = "unreserve" => kind[j] = "insert")
  BY DEF Write
<1>3. Effect(j) /\ pc'[j] = l
  BY <1>1, <1>2, StatusKept DEF Fitting, Places
<1> QED
  BY <1>1, <1>2, <1>3, GoesOn

LEMMA PutHolds ==
  ASSUME Fitting, NEW j \in Jobs, PutDocument(j)
  PROVE  Effect(j) /\ Lands(j)
<1>1. pc[j] = "publish" /\ UNCHANGED <<settings, status>>
  BY DEF PutDocument
<1>2. PICK l \in {"narrow", "drive"} : Goto(j, l)
  BY DEF PutDocument
<1>3. Effect(j) /\ pc'[j] = l
  BY <1>1, <1>2, StatusKept DEF Fitting, Places
<1>4. CASE l = "narrow"
  BY <1>1, <1>3, <1>4, GoesOn
<1>5. CASE l = "drive"
  BY <1>3, <1>5, LandsFree DEF Free
<1> QED
  BY <1>4, <1>5

LEMMA UnreserveHolds ==
  ASSUME Fitting, NEW j \in Jobs, Unreserve(j)
  PROVE  Effect(j) /\ Lands(j)
<1>1. /\ status \in Statuses /\ pc \in [Jobs -> Places] /\ UNCHANGED settings
      /\ status' = [status EXCEPT !.tokens = @ \ {j}]
  BY DEF Unreserve, Fitting, TypeOK
<1>2. /\ status' \in Statuses /\ status'.tokens = status.tokens \ {j}
      /\ status'.busy = status.busy /\ status'.kind = status.kind
      /\ status'.phase = status.phase /\ status'.request = status.request
      /\ status'.scanning = status.scanning /\ status'.exclusive = status.exclusive
  BY <1>1 DEF Statuses
<1>3. Respects(status', j)
  BY <1>2 DEF Respects
<1>4. \/ pc[j] = "unreserve" /\ Goto(j, "publish") /\ pc'[j] = "publish"
      \/ pc[j] = "release" /\ Goto(j, "done") /\ pc'[j] = "done"
  BY <1>1 DEF Unreserve, Goto
<1>5. Effect(j)
  BY <1>1, <1>2, <1>3, <1>4 DEF Effect, Places, settings
<1>6. CASE pc'[j] = "publish"
  <2>1. kind[j] = "insert" /\ None \notin Jobs
    BY <1>4, <1>6 DEF Fitting, Holding, KindsFit, LocalAssumption
  <2>2. ~Classifying(j)'
    BY <1>2, <2>1 DEF Classifying, Fitting, Holding, KindsFit
  <2> QED
    BY <1>5, <1>6, <2>2 DEF Lands, Reserving, Frozen, Stores, Deletes, Classifies, Alone
<1>7. CASE pc'[j] = "done"
  BY <1>5, <1>7, LandsFree DEF Free
<1> QED
  BY <1>4, <1>6, <1>7

LEMMA ScanHolds ==
  ASSUME Fitting, NEW j \in Jobs, RequestOwn(j) \/ Narrow(j) \/ Unscan(j) \/ Again(j)
  PROVE  Effect(j) /\ Lands(j)
<1>1. status \in Statuses /\ pc \in [Jobs -> Places] /\ UNCHANGED settings
  BY DEF RequestOwn, Narrow, Unscan, Again, Fitting, TypeOK
<1>2. CASE RequestOwn(j)
  <2>1. Effect(j) /\ pc'[j] = "claim" /\ status' = status /\ status.scanning = j
    BY <1>2, StatusKept DEF RequestOwn, Fitting, Places, Holding, JobsHold
  <2> QED
    BY <2>1 DEF Lands, Reserving, Frozen, Stores, Deletes, Classifies, Alone
<1>3. CASE Again(j)
  <2>1. PICK l \in {"drive", "done"} : Goto(j, l) /\ UNCHANGED <<settings, status>>
    BY <1>3 DEF Again
  <2>2. Effect(j) /\ pc'[j] = l
    BY <2>1, StatusKept DEF Fitting, Places
  <2> QED
    BY <2>2, LandsFree DEF Free
<1>4. CASE Narrow(j) \/ Unscan(j)
  <2> DEFINE narrow == status.exclusive /\ status.scanning # j
  <2>1. narrow \in BOOLEAN /\ (narrow => status.exclusive)
    OBVIOUS
  <2>2. PICK l \in {"drive", "again"} : Goto(j, l)
    BY <1>4 DEF Narrow, Unscan
  <2>3. \/ status' = [status EXCEPT !.exclusive = narrow]
        \/ status.scanning = j /\ status' = [status EXCEPT !.scanning = None, !.exclusive = FALSE]
        \/ status' = status
    BY <1>4 DEF Narrow, Unscan
  <2> HIDE DEF narrow
  <2>4. /\ status' \in Statuses /\ status'.tokens = status.tokens
        /\ status'.busy = status.busy /\ status'.kind = status.kind
        /\ status'.phase = status.phase /\ status'.request = status.request
        /\ status'.scanning = status.scanning \/ status.scanning = j
        /\ status'.scanning \in {status.scanning, None}
        /\ status'.exclusive => status.exclusive
    BY <1>1, <2>1, <2>3 DEF Statuses
  <2>5. None \notin Jobs
    BY DEF Fitting, LocalAssumption
  <2>6. Respects(status', j)
    BY <2>4, <2>5 DEF Respects
  <2>7. pc'[j] = l
    BY <1>1, <2>2 DEF Goto
  <2>8. Effect(j)
    BY <1>1, <2>2, <2>4, <2>6 DEF Effect, Places, settings
  <2> QED
    BY <2>7, <2>8, LandsFree DEF Free
<1> QED
  BY <1>2, <1>3, <1>4

-----------------------------------------------------------------------------
(* Every step.                                                             *)

\* A killed worker, a cancellation and a stutter take nothing from the living.
LEMMA FaultHolds ==
  ASSUME Holding, UNCHANGED settings,
         status'.busy = status.busy, status'.kind = status.kind, status'.phase = status.phase,
         status'.tokens = status.tokens, status'.scanning = status.scanning,
         status'.exclusive = status.exclusive,
         \A k \in Jobs : pc'[k] \in {pc[k], "dead"}
  PROVE  Holding'
<1>1. kind' = kind
  BY DEF settings
<1>2. ASSUME NEW k \in Jobs
      PROVE  /\ Stores(k)' => Stores(k)
             /\ Deletes(k)' => Deletes(k)
             /\ Classifies(k)' => Classifies(k)
             /\ pc'[k] \in Reserving => pc[k] \in Reserving
             /\ pc'[k] \in Frozen => pc[k] \in Frozen
             /\ pc'[k] # "dead" => pc'[k] = pc[k]
  <2>1. pc'[k] \in {pc[k], "dead"}
    OBVIOUS
  <2> QED
    BY <1>1, <2>1 DEF Stores, Enqueues, Deletes, Classifies, Classifying, Reserving, Frozen
<1>3. JobsHold'
  BY <1>2 DEF Holding, JobsHold
<1>4. KindsFit'
  BY <1>1, <1>2 DEF Holding, KindsFit
<1>5. IntakeStopped'
  BY <1>1, <1>2 DEF Holding, IntakeStopped
<1>6. ClassifiesAlone'
  BY <1>1, <1>2 DEF Holding, ClassifiesAlone
<1> QED
  BY <1>3, <1>4, <1>5, <1>6 DEF Holding

LEMMA JobHolds ==
  ASSUME Fitting, NEW j \in Jobs, status'.request \in Jobs \cup {None},
         Admit(j) \/ JobStep(j) \/ RunStep(j) \/ Fail(j)
  PROVE  Effect(j) /\ Lands(j)
<1>1. CASE Admit(j) \/ Fail(j)
  BY <1>1, AdmitHolds, FailHolds
<1>2. CASE JobStep(j)
  BY <1>2, WriteHolds, UnreserveHolds, PutHolds, ScanHolds, ClaimHolds, PhaseHolds,
     PlainRunHolds, LeaveHolds, DriveHolds DEF JobStep
<1>3. CASE RunStep(j)
  BY <1>3, PlainRunHolds, PhaseHolds, DecideHolds, WaitHolds, ExclusiveHolds, ThawHolds,
     ExitHolds, WorkersHold DEF RunStep
<1> QED
  BY <1>1, <1>2, <1>3

LEMMA HoldingNext ==
  ASSUME Fitting, [Next]_vars, status'.request \in Jobs \cup {None}
  PROVE  Holding'
<1>1. ASSUME NEW j \in Jobs, Admit(j) \/ JobStep(j) \/ RunStep(j) \/ Fail(j)
      PROVE  Holding'
  BY <1>1, JobHolds, HoldingStep DEF Fitting
<1>2. ASSUME NEW p \in Procs, Kill(p)
      PROVE  Holding'
  <2>1. \A k \in Jobs : pc'[k] \in {pc[k], "dead"}
    BY <1>2 DEF Kill
  <2> QED
    BY <1>2, <2>1, FaultHolds DEF Kill, Fitting
<1>3. CASE Cancel
  <2>1. status \in Statuses /\ status' = [status EXCEPT !.cancel = TRUE] /\ pc' = pc /\ UNCHANGED settings
    BY <1>3 DEF Cancel, Fitting, TypeOK
  <2>2. /\ status'.busy = status.busy /\ status'.kind = status.kind
        /\ status'.phase = status.phase /\ status'.tokens = status.tokens
        /\ status'.scanning = status.scanning /\ status'.exclusive = status.exclusive
    BY <2>1 DEF Statuses
  <2> QED
    BY <2>1, <2>2, FaultHolds DEF Fitting
<1>4. CASE UNCHANGED vars
  BY <1>4, FaultHolds DEF vars, Fitting
<1> QED
  BY <1>1, <1>2, <1>3, <1>4 DEF Next

-----------------------------------------------------------------------------
(* The mailbox, the documents and the runs.                                *)

Step(j) == Admit(j) \/ JobStep(j) \/ RunStep(j) \/ Fail(j)

\* Only a request lengthens the queue of retries, and only an acknowledgement
\* shortens it.
Requests(j) ==
    /\ Request(j)
    /\ pc[j] \in {"start", "request"} /\ pc'[j] \in {"drive", "claim"}
Acknowledges(j) ==
    /\ pc[j] = "ack" /\ pc'[j] = "thaw"
    /\ mailbox'.manual = Acked(mailbox.manual, status.request)
    /\ UNCHANGED <<status, doc, due, run>>

LEMMA MailboxStep ==
  ASSUME Fitting, NEW j \in Jobs, Step(j)
  PROVE  /\ mailbox' \in Mailboxes
         /\ \/ mailbox'.manual = mailbox.manual
            \/ Requests(j)
            \/ Acknowledges(j)
<1>1. /\ mailbox \in Mailboxes /\ pc \in [Jobs -> Places] /\ DocOf[j] \in Docs
      /\ mailbox.manual \in Seq(Jobs)
  BY DEF Fitting, TypeOK, LocalAssumption, Mailboxes
<1>2. CASE mailbox' = mailbox
  BY <1>1, <1>2
<1>3. CASE mailbox' = Armed(mailbox)
  BY <1>1, <1>3 DEF Armed, Mailboxes
<1>4. CASE PutDocument(j)
  BY <1>1, <1>3, <1>4 DEF PutDocument, Mailboxes
<1>5. CASE Peek(j) \/ Decide(j) \/ Drain(j)
  <2>1. \/ mailbox' = mailbox
        \/ mailbox' = [mailbox EXCEPT !.auto = FALSE]
        \/ mailbox' = [mailbox EXCEPT !.docs = {}]
    BY <1>5 DEF Peek, Decide, Drain
  <2> QED
    BY <1>1, <2>1 DEF Mailboxes
<1>6. ASSUME NEW d \in Docs, Feed(j, d)
      PROVE  mailbox' \in Mailboxes /\ mailbox'.manual = mailbox.manual
  <2>1. mailbox' = [mailbox EXCEPT !.docs = @ \ {d}]
    BY <1>6 DEF Feed
  <2> QED
    BY <1>1, <2>1 DEF Mailboxes
<1>7. CASE /\ Request(j) /\ pc[j] \in {"start", "request"}
           /\ Goto(j, "drive") \/ Goto(j, "claim")
  <2>1. mailbox' = [mailbox EXCEPT !.manual = Append(mailbox.manual, j)]
    BY <1>1, <1>7 DEF Request, Publish
  <2>2. Append(mailbox.manual, j) \in Seq(Jobs)
    BY <1>1, AppendAdds
  <2>3. mailbox' \in Mailboxes
    BY <1>1, <2>1, <2>2 DEF Mailboxes
  <2>4. pc'[j] \in {"drive", "claim"}
    BY <1>1, <1>7 DEF Goto
  <2> QED
    BY <1>7, <2>3, <2>4 DEF Requests
<1>8. CASE Ack(j)
  <2>1. mailbox' = [mailbox EXCEPT !.manual = Acked(mailbox.manual, status.request)]
    BY <1>1, <1>8 DEF Ack
  <2>2. Acked(mailbox.manual, status.request) \in Seq(Jobs)
    BY <1>1, AckedTakesOne
  <2>3. mailbox' \in Mailboxes /\ mailbox'.manual = Acked(mailbox.manual, status.request)
    BY <1>1, <2>1, <2>2 DEF Mailboxes
  <2>4. pc'[j] = "thaw" /\ pc[j] = "ack" /\ UNCHANGED <<status, doc, due, run>>
    BY <1>1, <1>8 DEF Ack, Goto
  <2> QED
    BY <2>3, <2>4 DEF Acknowledges
<1>9. CASE Admit(j)
  BY <1>2, <1>7, <1>9 DEF Admit
<1>10. CASE JobStep(j)
  <2>1. CASE \/ Write(j) \/ Unreserve(j) \/ Hold(j) \/ Quiet(j) \/ Narrow(j)
             \/ Unscan(j) \/ Again(j) \/ Delete(j) \/ Leave(j)
    BY <1>2, <2>1 DEF Write, Unreserve, Hold, Quiet, Narrow, Unscan, Again, Delete, Leave
  <2>2. CASE Claim(j) \/ Drive(j)
    BY <1>2, <1>3, <2>2 DEF Claim, Drive
  <2>3. CASE RequestOwn(j)
    BY <1>7, <2>3 DEF RequestOwn
  <2> QED
    BY <1>4, <1>10, <2>1, <2>2, <2>3 DEF JobStep
<1>11. CASE RunStep(j)
  <2>1. CASE \/ Freeze(j) \/ Fetch(j) \/ Validate(j) \/ EndBatch(j) \/ Wait(j)
             \/ Confirm(j) \/ Reset(j) \/ Thaw(j)
    BY <1>2, <2>1 DEF Freeze, Fetch, Validate, EndBatch, Wait, Confirm, Reset, Thaw
  <2>2. CASE Exit(j)
    BY <1>2, <1>3, <2>2 DEF Exit
  <2>3. ASSUME NEW d \in Docs, Begin(j, d) \/ Finish(j, d)
        PROVE  mailbox' = mailbox
    BY <2>3 DEF Begin, Finish
  <2> QED
    BY <1>2, <1>5, <1>6, <1>8, <1>11, <2>1, <2>2, <2>3 DEF RunStep
<1>12. CASE Fail(j)
  BY <1>2, <1>3, <1>12 DEF Fail
<1> QED
  BY <1>9, <1>10, <1>11, <1>12 DEF Step

Fates == {"none", "pending", "processing", "processed", "failed"}

\* A document that a retry has still to reset stays failed until it is reset or
\* deleted.
LEMMA DocStep ==
  ASSUME Fitting, RetriesFit, NEW j \in Jobs, Step(j)
  PROVE  /\ doc' \in [Docs -> Fates]
         /\ due' \in [Jobs -> SUBSET Docs]
         /\ \A r \in Jobs : \A d \in due'[r] : doc'[d] = "failed"
         /\ \A r \in Jobs : due'[r] \subseteq due[r] \/ (r = j /\ Request(j))
<1>1. /\ doc \in [Docs -> Fates] /\ due \in [Jobs -> SUBSET Docs] /\ DocOf[j] \in Docs
      /\ \A r \in Jobs : \A d \in due[r] : doc[d] = "failed"
      /\ \A r \in Jobs : \A d \in due[r] : d \in Docs
  BY DEF Fitting, TypeOK, RetriesFit, Rows, Fates, LocalAssumption
<1>2. CASE doc' = doc /\ due' = due
  BY <1>1, <1>2
<1>3. CASE doc' = doc /\ Request(j)
  <2>1. due' = [due EXCEPT ![j] = {d \in Docs : doc[d] = "failed"}]
    BY <1>3 DEF Request, Rows
  <2> QED
    BY <1>1, <1>3, <2>1
<1>4. ASSUME NEW d \in Docs, NEW f \in Fates, doc[d] # "failed", doc' = [doc EXCEPT ![d] = f], due' = due
      PROVE  /\ doc' \in [Docs -> Fates]
             /\ \A r \in Jobs : \A e \in due'[r] : doc'[e] = "failed"
  <2>1. doc' \in [Docs -> Fates]
    BY <1>1, <1>4
  <2>2. ASSUME NEW r \in Jobs, NEW e \in due'[r] PROVE doc'[e] = "failed"
    BY <1>1, <1>4
  <2> QED
    BY <2>1, <2>2
<1>5. CASE Write(j)
  <2>1. due' = due
    BY <1>5 DEF Write
  <2>2. CASE doc[DocOf[j]] = "none"
    <3>1. doc' = [doc EXCEPT ![DocOf[j]] = "pending"]
      BY <1>5, <2>2 DEF Write
    <3> QED
      BY <1>1, <1>4, <2>1, <2>2, <3>1 DEF Fates
  <2> QED
    BY <1>2, <1>5, <2>1, <2>2 DEF Write
<1>6. CASE Delete(j)
  <2>1. /\ doc' = [doc EXCEPT ![DocOf[j]] = "none"]
        /\ due' = [r \in Jobs |-> due[r] \ {DocOf[j]}]
    BY <1>6 DEF Delete
  <2>2. ASSUME NEW r \in Jobs, NEW d \in due'[r] PROVE doc'[d] = "failed"
    <3>1. d \in due[r] /\ d # DocOf[j]
      BY <2>1
    <3> QED
      BY <1>1, <2>1, <3>1
  <2> QED
    BY <1>1, <2>1, <2>2 DEF Fates
<1>7. CASE Validate(j)
  <2>1. due' = due
    BY <1>7 DEF Validate
  <2>2. CASE ~status.cancel
    <3>1. doc' = [d \in Docs |-> IF d \in run[j].todo /\ doc[d] = "processing"
                                 THEN "pending" ELSE doc[d]]
      BY <1>7, <2>2 DEF Validate
    <3>2. doc' \in [Docs -> Fates]
      BY <1>1, <3>1 DEF Fates
    <3>3. ASSUME NEW r \in Jobs, NEW d \in due'[r] PROVE doc'[d] = "failed"
      BY <1>1, <2>1, <3>1
    <3> QED
      BY <1>1, <2>1, <3>2, <3>3
  <2> QED
    BY <1>2, <1>7, <2>1, <2>2 DEF Validate
<1>8. ASSUME NEW d \in Docs, Begin(j, d) \/ Finish(j, d)
      PROVE  /\ doc' \in [Docs -> Fates] /\ due' = due
             /\ \A r \in Jobs : \A e \in due'[r] : doc'[e] = "failed"
  <2>1. due' = due /\ doc[d] # "failed" /\ \E f \in Fates : doc' = [doc EXCEPT ![d] = f]
    BY <1>8 DEF Begin, Finish, Fates
  <2> QED
    BY <1>4, <2>1
<1>9. CASE Reset(j)
  <2> DEFINE owns == status.busy = j
             page == Page(Rows({"failed"}), run[j].cursor)
  <2>1. /\ doc' = [d \in Docs |-> IF owns /\ d \in page THEN "pending" ELSE doc[d]]
        /\ due' = [r \in Jobs |-> IF owns THEN due[r] \ page ELSE due[r]]
    BY <1>9 DEF Reset
  <2> HIDE DEF page
  <2>2. doc' \in [Docs -> Fates]
    BY <1>1, <2>1 DEF Fates
  <2>3. ASSUME NEW r \in Jobs, NEW d \in due'[r] PROVE doc'[d] = "failed" /\ d \in due[r]
    <3>1. d \in due[r] /\ ~(owns /\ d \in page)
      BY <2>1
    <3> QED
      BY <1>1, <2>1, <3>1
  <2>4. due' \in [Jobs -> SUBSET Docs]
    BY <1>1, <2>1
  <2> QED
    BY <2>2, <2>3, <2>4
<1>10. CASE Admit(j)
  BY <1>2, <1>3, <1>10 DEF Admit
<1>11. CASE JobStep(j)
  <2>1. CASE \/ Unreserve(j) \/ PutDocument(j) \/ Claim(j) \/ Hold(j) \/ Quiet(j)
             \/ Narrow(j) \/ Unscan(j) \/ Again(j) \/ Leave(j) \/ Drive(j)
    BY <1>2, <2>1 DEF Unreserve, PutDocument, Claim, Hold, Quiet, Narrow, Unscan, Again,
       Leave, Drive
  <2>2. CASE RequestOwn(j)
    BY <1>3, <2>2 DEF RequestOwn
  <2> QED
    BY <1>5, <1>6, <1>11, <2>1, <2>2 DEF JobStep
<1>12. CASE RunStep(j)
  <2>1. CASE \/ Peek(j) \/ Freeze(j) \/ Fetch(j) \/ EndBatch(j) \/ Decide(j) \/ Drain(j)
             \/ Wait(j) \/ Confirm(j) \/ Ack(j) \/ Thaw(j) \/ Exit(j)
    BY <1>2, <2>1 DEF Peek, Freeze, Fetch, EndBatch, Decide, Drain, Wait, Confirm, Ack, Thaw, Exit
  <2>2. ASSUME NEW d \in Docs, Feed(j, d)
        PROVE  doc' = doc /\ due' = due
    BY <2>2 DEF Feed
  <2>3. ASSUME NEW d \in Docs, Begin(j, d) \/ Finish(j, d) \/ Feed(j, d)
        PROVE  /\ doc' \in [Docs -> Fates]
               /\ due' \in [Jobs -> SUBSET Docs]
               /\ \A r \in Jobs : \A e \in due'[r] : doc'[e] = "failed"
               /\ \A r \in Jobs : due'[r] \subseteq due[r]
    BY <1>1, <1>8, <2>2, <2>3
  <2> QED
    BY <1>7, <1>9, <1>12, <2>1, <2>3 DEF RunStep
<1>13. CASE Fail(j)
  BY <1>2, <1>13 DEF Fail
<1> QED
  BY <1>10, <1>11, <1>12, <1>13 DEF Step

LEMMA RunsStep ==
  ASSUME Fitting, NEW j \in Jobs, Step(j)
  PROVE  \/ run' = run
         \/ \E r \in Runs : Keep(j, r)
<1>1. /\ run[j] \in Runs /\ pageSize \in Nat /\ LocalAssumption /\ 0 \in Nat
      /\ \A S : Rows(S) \subseteq Docs
  BY DEF Fitting, TypeOK, LocalAssumption, Rows
<1>2. NoRun \in Runs /\ Sweep \in Runs
  BY DEF NoRun, Sweep, Runs
<1>3. \A w : [Sweep EXCEPT !.wake = w].cursor = 0
  BY DEF Sweep, NoRun
<1>4. ASSUME NEW S, NEW c
      PROVE  /\ Page(Rows(S), c) \subseteq Docs
             /\ NextCursor(Page(Rows(S), c)) \in Nat \cup {None}
  <2>1. Page(Rows(S), c) \subseteq Docs
    BY <1>1 DEF Page
  <2>2. NextCursor(Page(Rows(S), c)) \in Nat \cup {None}
    BY <1>1, <2>1, CursorIsLast, DocsAreNumbered
  <2> QED
    BY <2>1, <2>2
<1>5. CASE Admit(j) \/ Fail(j)
  BY <1>5 DEF Admit, Fail
<1>6. CASE JobStep(j)
  <2>1. CASE ~Quiet(j)
    BY <1>6, <2>1 DEF JobStep, Write, Unreserve, PutDocument, RequestOwn, Claim, Hold, Narrow,
       Unscan, Again, Delete, Leave, Drive
  <2>2. CASE Quiet(j)
    BY <1>2, <2>2 DEF Quiet
  <2> QED
    BY <2>1, <2>2
<1>7. CASE Peek(j) \/ Drain(j) \/ Decide(j)
  <2>1. \A w \in BOOLEAN : [Sweep EXCEPT !.wake = w] \in Runs
    BY DEF Sweep, NoRun, Runs
  <2>2. mailbox.auto \in BOOLEAN
    BY DEF Fitting, TypeOK, Mailboxes
  <2>3. CASE Peek(j)
    BY <2>1, <2>2, <2>3 DEF Peek
  <2>4. CASE Drain(j) \/ Decide(j)
    BY <1>2, <2>1, <2>4 DEF Drain, Decide
  <2> QED
    BY <1>7, <2>3, <2>4
<1>8. CASE Fetch(j)
  <2> DEFINE page == Page(Rows(AutoResume), run[j].cursor)
             wake == run[j].wake /\ page # {}
             r == [todo |-> page, inflight |-> page, cursor |-> NextCursor(page), wake |-> wake]
  <2>1. Keep(j, r)
    BY <1>8 DEF Fetch
  <2>2. wake \in BOOLEAN
    OBVIOUS
  <2>3. page \subseteq Docs /\ NextCursor(page) \in Nat \cup {None}
    BY <1>4
  <2> HIDE DEF wake, page
  <2>4. r \in Runs
    BY <2>2, <2>3 DEF Runs
  <2> QED
    BY <2>1, <2>4
<1>9. CASE Confirm(j)
  <2> DEFINE page == Page(Rows(AutoResume), 0)
             r == [NoRun EXCEPT !.todo = page, !.inflight = page, !.cursor = NextCursor(page)]
  <2>1. Keep(j, r) \/ Keep(j, Sweep)
    BY <1>9 DEF Confirm
  <2>2. page \subseteq Docs /\ NextCursor(page) \in Nat \cup {None}
    BY <1>4
  <2> HIDE DEF page
  <2>3. r \in Runs
    BY <1>2, <2>2 DEF Runs, NoRun
  <2> HIDE DEF r
  <2> QED
    BY <1>2, <2>1, <2>3
<1>10. CASE Reset(j)
  <2> DEFINE next == NextCursor(Page(Rows({"failed"}), run[j].cursor))
  <2>1. Keep(j, [run[j] EXCEPT !.cursor = next]) /\ next \in Nat \cup {None}
    BY <1>4, <1>10 DEF Reset
  <2> HIDE DEF next
  <2> QED
    BY <1>1, <2>1 DEF Runs
<1>11. CASE Validate(j) \/ EndBatch(j) \/ Freeze(j) \/ Wait(j) \/ Ack(j) \/ Thaw(j) \/ Exit(j)
  <2>1. [run[j] EXCEPT !.wake = FALSE] \in Runs
    BY <1>1 DEF Runs
  <2> QED
    BY <1>2, <1>11, <2>1 DEF Validate, EndBatch, Freeze, Wait, Ack, Thaw, Exit
<1>12. ASSUME NEW d \in Docs, Begin(j, d) \/ Finish(j, d) \/ Feed(j, d)
       PROVE  \E r \in Runs : Keep(j, r)
  <2> DEFINE new == IF doc[d] = "pending" THEN {d} \ run[j].inflight ELSE {}
  <2>1. \/ Keep(j, run[j])
        \/ Keep(j, [run[j] EXCEPT !.todo = @ \ {d}])
        \/ Keep(j, [run[j] EXCEPT !.todo = @ \cup new, !.inflight = @ \cup new])
    BY <1>12 DEF Begin, Finish, Feed
  <2>2. new \subseteq Docs
    OBVIOUS
  <2> HIDE DEF new
  <2>3. /\ [run[j] EXCEPT !.todo = @ \ {d}] \in Runs
        /\ [run[j] EXCEPT !.todo = @ \cup new, !.inflight = @ \cup new] \in Runs
    BY <1>1, <2>2 DEF Runs
  <2> QED
    BY <1>1, <2>1, <2>3
<1>13. CASE RunStep(j)
  BY <1>7, <1>8, <1>9, <1>10, <1>11, <1>12, <1>13 DEF RunStep
<1> QED
  BY <1>5, <1>6, <1>13 DEF Step

\* Whose request a drain serves: one that waits in the queue.
LEMMA RequestStep ==
  ASSUME Fitting, RetriesFit, NEW j \in Jobs, Step(j)
  PROVE  /\ status'.request \in Jobs \cup {None}
         /\ \/ status'.request \in {status.request, None}
            \/ status'.request = j /\ pc[j] = "hold" /\ pc'[j] = "quiet"
            \/ Waits(status'.request)
<1>1. /\ status \in Statuses /\ status.request \in Jobs \cup {None}
      /\ pc \in [Jobs -> Places]
  BY DEF Fitting, TypeOK, Statuses
<1>2. Reaped \in Statuses /\ Reaped.request \in {status.request, None}
  BY ReapedRespects DEF Fitting
<1>3. CASE status' = status
  BY <1>1, <1>3
<1>4. CASE status'.request \in {Reaped.request, status.request, None}
  BY <1>1, <1>2, <1>4
<1>5. CASE Admit(j)
  <2>1. \/ status' = Reaped
        \/ status' = [Reaped EXCEPT !.tokens = @ \cup {j}]
        \/ status' = [Reaped EXCEPT !.scanning = j, !.exclusive = TRUE]
        \/ status' = [Reaped EXCEPT !.busy = j, !.kind = kind[j],
                                     !.cancel = @ /\ kind[j] = "batch"]
    BY <1>5 DEF Admit
  <2>2. status'.request = Reaped.request
    BY <1>2, <2>1 DEF Statuses
  <2> QED
    BY <1>4, <2>2
<1>6. CASE Claim(j) \/ Drive(j) \/ Wait(j)
  <2>1. \/ status' = Reaped
        \/ status' = [Reaped EXCEPT !.deferred = TRUE]
        \/ status' = [Reaped EXCEPT !.busy = j, !.kind = "processing", !.cancel = FALSE]
        \/ status' = [Reaped EXCEPT !.busy = j, !.kind = "processing",
                                     !.deferred = FALSE, !.cancel = FALSE]
    BY <1>6 DEF Claim, Drive, Wait
  <2>2. status'.request = Reaped.request
    BY <1>2, <2>1 DEF Statuses
  <2> QED
    BY <1>4, <2>2
<1>7. CASE Hold(j)
  <2>1. status' = [status EXCEPT !.phase = "drain", !.request = j] /\ pc'[j] = "quiet" /\ pc[j] = "hold"
    BY <1>1, <1>7 DEF Hold, Goto
  <2>2. status'.request = j
    BY <1>1, <2>1 DEF Statuses
  <2> QED
    BY <2>1, <2>2
<1>8. CASE Freeze(j)
  <2> DEFINE head == Head(mailbox.manual)
  <2>1. mailbox.manual \in Seq(Jobs) /\ mailbox.manual # <<>>
    BY <1>8 DEF Freeze, RetriesFit, Fitting, TypeOK, Mailboxes
  <2>2. head \in Jobs /\ head = mailbox.manual[1]
    BY <2>1
  <2>3. 1 \in DOMAIN mailbox.manual
    BY <2>1, LenProperties, EmptySeq
  <2>4. Waits(head)
    BY <2>2, <2>3 DEF Waits
  <2>5. status' = status \/ status' = [status EXCEPT !.phase = "drain", !.request = head]
    BY <1>8 DEF Freeze
  <2> HIDE DEF head
  <2>6. CASE status' # status
    <3>1. status'.request = head
      BY <1>1, <2>5, <2>6 DEF Statuses
    <3> QED
      BY <2>2, <2>4, <3>1
  <2> QED
    BY <1>3, <2>6
<1>9. CASE \/ Unreserve(j) \/ Quiet(j) \/ Narrow(j) \/ Unscan(j) \/ Leave(j)
           \/ Decide(j) \/ Confirm(j) \/ Thaw(j) \/ Exit(j)
  <2>1. \A s \in {status, Unfrozen(status), Released(status)} :
           s \in Statuses /\ s.request \in {status.request, None}
    <3>1. Unfrozen(status) \in Statuses /\ Released(status) \in Statuses
      BY <1>1, UnfrozenFits DEF Fitting
    <3>2. Unfrozen(status).request = None
      BY <1>1 DEF Unfrozen, Statuses
    <3>3. Released(status).request = None
      BY <1>1 DEF Released, Unfrozen, Statuses
    <3> QED
      BY <1>1, <3>1, <3>2, <3>3
  <2>2. CASE Leave(j) \/ Exit(j) \/ Thaw(j)
    <3>1. PICK s \in {status, Unfrozen(status), Released(status)} :
             \/ status' = s
             \/ status' = [s EXCEPT !.cancel = FALSE]
             \/ status' = [s EXCEPT !.cancel = @ /\ Classifying(j)]
      BY <2>2 DEF Leave, Exit, Thaw
    <3>2. status'.request = s.request
      BY <2>1, <3>1 DEF Statuses
    <3> QED
      BY <1>4, <2>1, <3>2
  <2>3. CASE Unreserve(j) \/ Quiet(j) \/ Narrow(j) \/ Unscan(j) \/ Decide(j) \/ Confirm(j)
    <3>1. \/ status' = status
          \/ status' = [status EXCEPT !.tokens = @ \ {j}]
          \/ status' = [status EXCEPT !.phase = "reset"]
          \/ status' = [status EXCEPT !.exclusive = @ /\ status.scanning # j]
          \/ status' = [status EXCEPT !.scanning = None, !.exclusive = FALSE]
          \/ status' = [status EXCEPT !.busy = None, !.kind = "none"]
      BY <2>3 DEF Unreserve, Quiet, Narrow, Unscan, Decide, Confirm
    <3>2. status'.request = status.request
      BY <1>1, <3>1 DEF Statuses
    <3> QED
      BY <1>4, <3>2
  <2> QED
    BY <1>9, <2>2, <2>3
<1>10. CASE JobStep(j)
  BY <1>3, <1>6, <1>7, <1>9, <1>10 DEF JobStep, Write, PutDocument, RequestOwn, Again, Delete
<1>11. CASE RunStep(j)
  <2>1. ASSUME NEW d \in Docs, Begin(j, d) \/ Finish(j, d) \/ Feed(j, d) PROVE status' = status
    BY <2>1 DEF Begin, Finish, Feed
  <2>2. CASE \/ Peek(j) \/ Fetch(j) \/ Validate(j) \/ EndBatch(j) \/ Drain(j) \/ Reset(j) \/ Ack(j)
    BY <1>3, <2>2 DEF Peek, Fetch, Validate, EndBatch, Drain, Reset, Ack
  <2> QED
    BY <1>3, <1>6, <1>8, <1>9, <1>11, <2>1, <2>2 DEF RunStep
<1>12. CASE Fail(j)
  BY <1>3, <1>12 DEF Fail
<1> QED
  BY <1>5, <1>10, <1>11, <1>12 DEF Step

LEMMA GoesStep ==
  ASSUME Fitting, NEW j \in Jobs, Step(j)
  PROVE  /\ pc'[j] # "start"
         /\ pc'[j] = "request" => pc[j] = "start"
         /\ pc'[j] = "freeze" => mailbox' = mailbox /\ mailbox.manual # <<>>
         /\ pc'[j] \in {"reset", "ack"} => Quiet(j) \/ Confirm(j) \/ Reset(j)
<1>1. pc \in [Jobs -> Places]
  BY DEF Fitting, TypeOK
<1>2. ASSUME NEW l \in Free \cup {"write", "delete", "unreserve", "publish", "narrow", "claim",
                                 "hold", "quiet", "handoff", "leave", "exit", "peek", "page",
                                 "validate", "work", "decide", "documents", "wait", "confirm",
                                 "thaw"},
             Goto(j, l)
      PROVE  pc'[j] \notin {"start", "request", "freeze", "reset", "ack"}
  BY <1>1, <1>2 DEF Goto, Free
<1>3. Returned(j) \in Free
  BY ReturnedIsFree
<1>4. CASE Admit(j)
  <2>1. \/ pc[j] = "start" /\ Goto(j, "request")
        \/ Goto(j, "done") \/ Goto(j, "write") \/ Goto(j, "drive") \/ Goto(j, "delete")
    BY <1>4 DEF Admit
  <2> QED
    BY <1>1, <1>2, <2>1 DEF Goto, Free
<1>5. CASE JobStep(j)
  <2>1. CASE Quiet(j)
    BY <1>1, <2>1 DEF Quiet, Goto
  <2>2. CASE Write(j) \/ Unreserve(j) \/ PutDocument(j) \/ RequestOwn(j) \/ Claim(j) \/ Hold(j)
    BY <1>2, <2>2 DEF Write, Unreserve, PutDocument, RequestOwn, Claim, Hold, Free
  <2>3. CASE Narrow(j) \/ Unscan(j) \/ Again(j) \/ Delete(j) \/ Leave(j) \/ Drive(j)
    BY <1>2, <1>3, <2>3 DEF Narrow, Unscan, Again, Delete, Leave, Drive, Free
  <2> QED
    BY <1>5, <2>1, <2>2, <2>3 DEF JobStep
<1>6. CASE RunStep(j)
  <2>1. CASE Confirm(j)
    BY <1>1, <2>1 DEF Confirm, Goto
  <2>2. CASE Reset(j)
    BY <1>1, <2>2 DEF Reset, Goto
  <2>3. CASE Peek(j)
    <3>1. \/ mailbox.manual # <<>> /\ Goto(j, "freeze") /\ UNCHANGED mailbox
          \/ Goto(j, "page")
      BY <2>3 DEF Peek
    <3> QED
      BY <1>1, <1>2, <3>1 DEF Goto
  <2>4. CASE Decide(j)
    <3>1. \/ Goto(j, "freeze") /\ mailbox.manual # <<>> /\ UNCHANGED mailbox
          \/ Goto(j, Returned(j))
          \/ \E l \in {"exit", "page", "documents", "wait", "confirm"} : Goto(j, l)
      BY <2>4 DEF Decide, Decision
    <3> QED
      BY <1>1, <1>2, <1>3, <3>1 DEF Goto
  <2>5. CASE \/ Freeze(j) \/ Fetch(j) \/ Validate(j) \/ EndBatch(j) \/ Drain(j) \/ Wait(j)
             \/ Ack(j) \/ Thaw(j)
    BY <1>2, <2>5 DEF Freeze, Fetch, Validate, EndBatch, Drain, Wait, Ack, Thaw
  <2>6. CASE Exit(j)
    BY <1>2, <1>3, <2>6 DEF Exit, Free
  <2>7. ASSUME NEW d \in Docs, Begin(j, d) \/ Finish(j, d) \/ Feed(j, d)
        PROVE  pc'[j] = "work"
    BY <2>7 DEF Begin, Finish, Feed
  <2> QED
    BY <1>6, <2>1, <2>2, <2>3, <2>4, <2>5, <2>6, <2>7 DEF RunStep
<1>7. CASE Fail(j)
  BY <1>2, <1>7 DEF Fail
<1> QED
  BY <1>4, <1>5, <1>6, <1>7 DEF Step

\* A reset pages over the failed documents in order and leaves none behind.
LEMMA ResetStep ==
  ASSUME Fitting, RetriesFit, ResetsFit, NEW j \in Jobs, Step(j)
  PROVE  \A r \in Jobs :
           /\ pc'[j] = "reset" =>
                  /\ run'[j].cursor \in Nat
                  /\ status'.request = r => \A d \in due'[r] : run'[j].cursor < d
           /\ pc'[j] = "ack" /\ status'.request = r => due'[r] = {}
<1>1. /\ pc \in [Jobs -> Places] /\ run \in [Jobs -> Runs] /\ pageSize \in Nat
      /\ due \in [Jobs -> SUBSET Docs] /\ LocalAssumption
  BY DEF Fitting, TypeOK, LocalAssumption
<1>2. CASE pc'[j] \notin {"reset", "ack"}
  BY <1>2
<1>3. CASE Quiet(j) \/ Confirm(j)
  <2>1. CASE pc'[j] = "reset"
    <3>1. Keep(j, Sweep) /\ due' = due
      BY <1>1, <1>3, <2>1 DEF Quiet, Confirm, Goto
    <3>2. run'[j].cursor = 0
      BY <1>1, <3>1 DEF Keep, Sweep, NoRun
    <3>3. \A r \in Jobs : \A d \in due'[r] : 0 < d
      BY <1>1, <3>1, DocsAreNumbered
    <3> QED
      BY <2>1, <3>2, <3>3
  <2>2. CASE pc'[j] = "ack"
    BY <1>1, <1>3, <2>2 DEF Quiet, Confirm, Goto
  <2> QED
    BY <1>2, <2>1, <2>2
<1>4. CASE Reset(j)
  <2> DEFINE S == Rows({"failed"})
             c == run[j].cursor
             page == Page(S, c)
             next == NextCursor(page)
  <2>1. /\ pc[j] = "reset" /\ status.busy = j /\ c \in Nat /\ S \subseteq Docs
    BY <1>4 DEF Reset, Fitting, Holding, JobsHold, Reserving, ResetsFit, Rows
  <2>2. /\ next \in Nat \cup {None}
        /\ \A d \in S \ page : c < d => next \in Nat /\ next < d
    BY <1>1, <2>1, PagesAreWhole
  <2>3. /\ due' = [r \in Jobs |-> due[r] \ page]
        /\ Keep(j, [run[j] EXCEPT !.cursor = next]) /\ status' = status
        /\ Goto(j, IF next = None THEN "ack" ELSE "reset")
    BY <1>4, <2>1 DEF Reset
  <2> HIDE DEF page, next
  <2>4. ASSUME NEW r \in Jobs, status'.request = r, NEW d \in due'[r]
        PROVE  next \in Nat /\ next < d
    <3>1. d \in due[r] /\ d \notin page
      BY <2>3, <2>4
    <3>2. d \in S
      BY <3>1 DEF RetriesFit
    <3>3. c < d
      BY <2>1, <2>3, <2>4, <3>1 DEF ResetsFit
    <3> QED
      BY <2>2, <3>1, <3>2, <3>3
  <2>5. run'[j].cursor = next
    BY <1>1, <2>3 DEF Keep, Runs
  <2>6. /\ pc'[j] = "reset" => next # None
        /\ pc'[j] = "ack" => next = None
    BY <1>1, <2>3 DEF Goto
  <2>7. None \notin Nat
    BY <1>1, DocsAreNumbered
  <2> QED
    BY <2>2, <2>4, <2>5, <2>6, <2>7
<1> QED
  BY <1>2, <1>3, <1>4, GoesStep

LEMMA RetriesNext ==
  ASSUME Fitting, RetriesFit, ResetsFit, NEW j \in Jobs, Step(j)
  PROVE  TypeOK' /\ RetriesFit' /\ ResetsFit'
<1>1. /\ pc \in [Jobs -> Places] /\ run \in [Jobs -> Runs] /\ mailbox.manual \in Seq(Jobs)
      /\ None \notin Jobs /\ faults \in Nat /\ lapsed \in BOOLEAN
  BY DEF Fitting, TypeOK, Mailboxes, LocalAssumption
<1>2. Effect(j) /\ Lands(j)
  BY RequestStep, JobHolds DEF Step
<1>3. \A k \in Jobs \ {j} : pc'[k] = pc[k] /\ run'[k] = run[k]
  BY <1>1, <1>2, RunsStep DEF Effect, Goto, Keep
<1>4. TypeOK'
  <2>1. pc' \in [Jobs -> Places] /\ status' \in Statuses /\ kind' \in Mixes /\ pageSize' \in PageSizes
    BY <1>1, <1>2 DEF Effect, Goto, Fitting, TypeOK
  <2>2. run' \in [Jobs -> Runs]
    BY <1>1, RunsStep DEF Keep
  <2>3. faults' \in Nat /\ lapsed' \in BOOLEAN
    <3>1. faults' \in {faults, faults + 1} /\ lapsed' \in {lapsed, TRUE, FALSE}
      <4>1. CASE Admit(j)
        BY <4>1 DEF Admit
      <4>2. CASE Fail(j)
        BY <4>2 DEF Fail, Fault
      <4>3. CASE JobStep(j)
        BY <4>3 DEF JobStep, Write, Unreserve, PutDocument, RequestOwn, Claim, Hold, Quiet,
           Narrow, Unscan, Again, Delete, Leave, Drive
      <4>4. CASE RunStep(j)
        BY <4>4 DEF RunStep, Peek, Freeze, Fetch, Validate, EndBatch, Decide, Drain, Wait,
           Confirm, Reset, Ack, Thaw, Exit, Begin, Finish, Feed
      <4> QED
        BY <4>1, <4>2, <4>3, <4>4 DEF Step
    <3>2. faults' \in {faults, faults + 1} => faults' \in Nat
      BY <1>1
    <3>3. lapsed' \in {lapsed, TRUE, FALSE} => lapsed' \in BOOLEAN
      BY <1>1, Zenon
    <3> QED
      BY <3>1, <3>2, <3>3
  <2> QED
    BY <2>1, <2>2, <2>3, MailboxStep, DocStep DEF TypeOK, Fates
<1>5. ASSUME NEW r \in Jobs, Waits(r)'
      PROVE  Waits(r) \/ (r = j /\ Requests(j))
  <2>1. In(r, mailbox'.manual)
    BY <1>5 DEF Waits, In
  <2>2. CASE mailbox'.manual = mailbox.manual
    BY <2>1, <2>2 DEF Waits, In
  <2>3. CASE Requests(j)
    <3>1. mailbox'.manual = Append(mailbox.manual, j)
      BY <2>3 DEF Requests, Request, Publish, Fitting, TypeOK, Mailboxes
    <3>2. In(r, mailbox.manual) \/ r = j
      BY <1>1, <2>1, <3>1, AppendAdds
    <3> QED
      BY <2>3, <3>2 DEF Waits, In
  <2>4. CASE Acknowledges(j)
    <3>1. In(r, mailbox.manual)
      BY <1>1, <2>1, <2>4, AckedTakesOne DEF Acknowledges
    <3> QED
      BY <3>1 DEF Waits, In
  <2> QED
    BY <2>2, <2>3, <2>4, MailboxStep
<1>6. ASSUME NEW r \in Jobs, Waits(r)' \/ status'.request = r
      PROVE  pc'[r] \notin {"start", "request"}
  <2>1. Waits(r) \/ status.request = r => pc[r] \notin {"start", "request"}
    BY DEF RetriesFit
  <2>2. CASE Waits(r) \/ status.request = r
    BY <1>3, <2>1, <2>2, GoesStep
  <2>3. CASE r = j /\ Requests(j)
    BY <2>3 DEF Requests
  <2>4. CASE status'.request = r
    BY <1>1, <2>2, <2>4, RequestStep
  <2> QED
    BY <1>5, <1>6, <2>2, <2>3, <2>4
<1>7. ASSUME NEW k \in Jobs, pc'[k] = "freeze"
      PROVE  mailbox'.manual # <<>>
  <2>1. CASE k = j
    BY <1>7, <2>1, GoesStep
  <2>2. CASE k # j
    <3>1. pc[k] = "freeze" /\ mailbox.manual # <<>> /\ status.busy = k
      BY <1>3, <1>7, <2>2 DEF RetriesFit, Fitting, Holding, JobsHold, Reserving
    <3>2. ~Acknowledges(j)
      BY <2>2, <3>1 DEF Acknowledges, Fitting, Holding, JobsHold, Reserving
    <3>3. CASE Requests(j)
      <4>1. mailbox'.manual = Append(mailbox.manual, j)
        BY <3>3 DEF Requests, Request, Publish, Fitting, TypeOK, Mailboxes
      <4> QED
        BY <1>1, <4>1, AppendAdds
    <3> QED
      BY <3>1, <3>2, <3>3, MailboxStep
  <2> QED
    BY <2>1, <2>2
<1>8. \A r \in Jobs : due'[r] \subseteq Rows({"failed"})'
  BY <1>4, DocStep DEF Rows
<1>9. RetriesFit'
  <2>1. ASSUME NEW r \in Jobs
        PROVE  /\ Waits(r)' \/ status'.request = r => pc'[r] \notin {"start", "request"}
               /\ due'[r] \subseteq Rows({"failed"})'
               /\ pc'[r] = "freeze" => mailbox'.manual # <<>>
    BY <1>6, <1>7, <1>8
  <2> QED
    BY <2>1 DEF RetriesFit
<1>10. ASSUME NEW k \in Jobs, NEW r \in Jobs
       PROVE  /\ pc'[k] = "reset" =>
                    /\ run'[k].cursor \in Nat
                    /\ status'.request = r => \A d \in due'[r] : run'[k].cursor < d
              /\ pc'[k] = "ack" /\ status'.request = r => due'[r] = {}
  <2>1. CASE k = j
    BY <2>1, ResetStep
  <2>2. CASE k # j /\ pc'[k] \in {"reset", "ack"}
    <3>1. pc[k] = pc'[k] /\ run'[k] = run[k] /\ status.busy = k /\ pc[k] # "dead"
      BY <1>3, <2>2 DEF Fitting, Holding, JobsHold, Reserving
    <3>2. status'.request = status.request
      BY <1>2, <2>2, <3>1 DEF Effect, Respects
    <3>3. status.request = r => due'[r] \subseteq due[r]
      <4>1. CASE r = j /\ Request(j)
        <5>1. pc[j] \in {"start", "request"}
          <6>1. ASSUME mailbox'.manual = mailbox.manual PROVE FALSE
            <7>1. mailbox'.manual = Append(mailbox.manual, j)
              BY <4>1 DEF Request, Publish, Fitting, TypeOK, Mailboxes
            <7>2. Len(Append(mailbox.manual, j)) = Len(mailbox.manual) + 1 /\ Len(mailbox.manual) \in Nat
              BY <1>1, AppendProperties, LenProperties
            <7> QED
              BY <6>1, <7>1, <7>2
          <6>2. ASSUME Acknowledges(j) PROVE FALSE
            BY <2>2, <3>1, <6>2 DEF Acknowledges, Fitting, Holding, JobsHold, Reserving
          <6> QED
            BY <6>1, <6>2, MailboxStep DEF Requests
        <5> QED
          BY <4>1, <5>1 DEF RetriesFit
      <4> QED
        BY <4>1, DocStep
    <3> QED
      BY <2>2, <3>1, <3>2, <3>3 DEF ResetsFit
  <2> QED
    BY <2>1, <2>2
<1>11. ResetsFit'
  BY <1>10 DEF ResetsFit
<1> QED
  BY <1>4, <1>9, <1>11

-----------------------------------------------------------------------------
(* The theorems.                                                           *)

LEMMA InitFits ==
  ASSUME LocalAssumption, Init
  PROVE  IInv
<1>1. /\ None \notin Jobs
      /\ \A j \in Jobs : pc[j] \in {"start", "done"}
      /\ pc \in [Jobs -> {"start", "done"}]
  BY DEF Init, LocalAssumption
<1>2. status \in Statuses /\ status.busy = None /\ status.scanning = None
      /\ status.request = None /\ mailbox \in Mailboxes /\ mailbox.manual = <<>>
  BY DEF Init, Statuses, Mailboxes
<1>3. TypeOK
  <2>1. NoRun \in Runs
    BY DEF NoRun, Runs
  <2>2. pc \in [Jobs -> Places]
    BY <1>1 DEF Places
  <2>3. doc \in [Docs -> {"none", "pending", "processing", "processed", "failed"}]
    BY DEF Init
  <2>4. due \in [Jobs -> SUBSET Docs] /\ run \in [Jobs -> Runs] /\ faults \in Nat /\ lapsed \in BOOLEAN
    BY <2>1 DEF Init
  <2> QED
    BY <1>2, <2>2, <2>3, <2>4 DEF TypeOK, Init
<1>4. \A j \in Jobs : ~Stores(j) /\ ~Classifies(j) /\ ~Waits(j) /\ status.request # j
  BY <1>1, <1>2 DEF Stores, Classifies, Waits
<1>5. JobsHold /\ KindsFit /\ IntakeStopped /\ ClassifiesAlone
  BY <1>1, <1>2, <1>4 DEF JobsHold, KindsFit, IntakeStopped, ClassifiesAlone, Reserving, Frozen
<1>6. RetriesFit /\ ResetsFit
  <2>1. \A r \in Jobs : due[r] = {}
    BY DEF Init
  <2> QED
    BY <1>1, <1>4, <2>1 DEF RetriesFit, ResetsFit
<1> QED
  BY <1>3, <1>5, <1>6 DEF IInv

LEMMA NextFits ==
  ASSUME LocalAssumption, IInv, [Next]_vars
  PROVE  IInv'
<1>1. Fitting /\ RetriesFit /\ ResetsFit
  BY DEF IInv, Fitting, Holding
<1>2. status \in Statuses /\ status.request \in Jobs \cup {None} /\ pc \in [Jobs -> Places]
      /\ run \in [Jobs -> Runs] /\ faults \in Nat
  BY <1>1 DEF Fitting, TypeOK, Statuses
<1>3. ASSUME NEW j \in Jobs, Step(j)
      PROVE  status'.request \in Jobs \cup {None} /\ TypeOK' /\ RetriesFit' /\ ResetsFit'
  BY <1>1, <1>3, RequestStep, RetriesNext
<1>4. ASSUME mailbox' = mailbox, doc' = doc, due' = due, kind' = kind, pageSize' = pageSize,
             status' = status \/ status' = [status EXCEPT !.cancel = TRUE],
             \A k \in Jobs : \/ pc'[k] = pc[k] /\ run'[k] = run[k]
                             \/ pc'[k] \in {"dead", "done"},
             pc' \in [Jobs -> Places], run' \in [Jobs -> Runs], faults' \in Nat,
             lapsed' \in BOOLEAN
      PROVE  status'.request \in Jobs \cup {None} /\ TypeOK' /\ RetriesFit' /\ ResetsFit'
  <2>1. status' \in Statuses /\ status'.request = status.request
    BY <1>2, <1>4 DEF Statuses
  <2>2. TypeOK'
    BY <1>1, <1>4, <2>1 DEF Fitting, TypeOK
  <2>3. RetriesFit'
    BY <1>1, <1>4, <2>1 DEF RetriesFit, Waits, Rows
  <2>4. ResetsFit'
    BY <1>1, <1>4, <2>1 DEF ResetsFit
  <2> QED
    BY <1>2, <2>1, <2>2, <2>3, <2>4
<1>5. ASSUME NEW p \in Procs, Kill(p)
      PROVE  status'.request \in Jobs \cup {None} /\ TypeOK' /\ RetriesFit' /\ ResetsFit'
  <2>1. pc' \in [Jobs -> Places] /\ run' \in [Jobs -> Runs]
    BY <1>2, <1>5 DEF Kill, Places, NoRun, Runs
  <2>2. \A k \in Jobs : \/ pc'[k] = pc[k] /\ run'[k] = run[k]
                        \/ pc'[k] \in {"dead", "done"}
    BY <1>5 DEF Kill
  <2>3. faults' \in Nat /\ lapsed' \in BOOLEAN
    BY <1>2, <1>5 DEF Kill, Fault
  <2> QED
    BY <1>4, <1>5, <2>1, <2>2, <2>3 DEF Kill, settings
<1>6. ASSUME Cancel
      PROVE  status'.request \in Jobs \cup {None} /\ TypeOK' /\ RetriesFit' /\ ResetsFit'
  <2>1. faults' \in Nat /\ lapsed' \in BOOLEAN
    BY <1>2, <1>6 DEF Cancel, Fault
  <2> QED
    BY <1>2, <1>4, <1>6, <2>1 DEF Cancel, settings
<1>7. ASSUME UNCHANGED vars
      PROVE  status'.request \in Jobs \cup {None} /\ TypeOK' /\ RetriesFit' /\ ResetsFit'
  <2>1. lapsed' \in BOOLEAN
    BY <1>1, <1>7 DEF vars, Fitting, TypeOK
  <2> QED
    BY <1>2, <1>4, <1>7, <2>1 DEF vars, settings
<1>8. status'.request \in Jobs \cup {None} /\ TypeOK' /\ RetriesFit' /\ ResetsFit'
  BY <1>3, <1>5, <1>6, <1>7 DEF Next, Step
<1>9. Holding'
  BY <1>1, <1>8, HoldingNext
<1> QED
  BY <1>8, <1>9 DEF IInv, Holding

\* The invariant of local mode: where a job is says what it holds of the status
\* that the workers share, whoever wants to be alone with doc_status has stopped
\* the intake, and a reset owes only what it has not paged over.
THEOREM Inductive == Spec => []IInv
<1>1. Init => IInv
  BY LocalAssumption, InitFits
<1>2. IInv /\ [Next]_vars => IInv'
  BY LocalAssumption, NextFits
<1> QED
  BY <1>1, <1>2, PTL DEF Spec

\* Every flag of pipeline_status, every message and every row has its type.
THEOREM TypeCorrect == Spec => []TypeOK
<1>1. IInv => TypeOK
  BY DEF IInv
<1> QED
  BY <1>1, Inductive, PTL

LEMMA IInvApart ==
  ASSUME LocalAssumption, IInv
  PROVE  WritersApart
<1> SUFFICES ASSUME NEW j \in Jobs, NEW k \in Jobs, j # k
             PROVE  /\ Processes(j) => ~Processes(k) /\ ~Deletes(k) /\ ~Resets(k)
                    /\ Resets(j) => ~Resets(k) /\ ~Deletes(k) /\ ~Stores(k)
                    /\ Deletes(j) => ~Deletes(k)
                    /\ Stores(j) => ~Classifies(k) /\ ~(Deletes(k) /\ kind[k] = "batch")
                    /\ Classifies(j) =>
                         /\ ~Classifies(k)
                         /\ Processes(k) \/ Deletes(k) \/ Resets(k) => kind[k] = "delete"
  BY DEF WritersApart
<1>1. pc[j] \in Reserving => pc[k] \notin Reserving
  BY DEF IInv, JobsHold
<1>2. \A i \in Jobs : Processes(i) \/ Resets(i) \/ Deletes(i) => pc[i] \in Reserving
  BY DEF Processes, Resets, Deletes, Reserving
<1>3. Resets(j) => ~Stores(k)
  BY DEF IInv, IntakeStopped, Resets, Frozen
<1>4. Stores(j) => ~Classifies(k) /\ ~(Deletes(k) /\ kind[k] = "batch")
  BY DEF IInv, IntakeStopped
<1>5. Classifies(j) => ~Classifies(k) /\ (pc[k] \in Reserving => kind[k] = "delete")
  BY DEF IInv, ClassifiesAlone, Classifies, Classifying
<1> QED
  BY <1>1, <1>2, <1>3, <1>4, <1>5

\* Of the jobs that write doc_status only those work side by side that may: the
\* flags of acquire_reservation and its siblings keep the others apart, also
\* when workers die and their reservations are given back.
THEOREM NobodyWritesBeside == Spec => []WritersApart
<1>1. IInv => WritersApart
  BY LocalAssumption, IInvApart
<1> QED
  BY <1>1, Inductive, PTL

LEMMA AckIsDue ==
  ASSUME LocalAssumption, IInv, [Next]_vars
  PROVE  [\A r \in Jobs : Waits(r) /\ ~Waits(r)' => due[r] = {}]_vars
<1> SUFFICES ASSUME NEW r \in Jobs, Waits(r), ~Waits(r)'
             PROVE  due[r] = {}
  OBVIOUS
<1>1. Fitting /\ ResetsFit /\ mailbox.manual \in Seq(Jobs) /\ mailbox \in Mailboxes
  BY DEF IInv, Fitting, Holding, TypeOK, Mailboxes
<1>2. In(r, mailbox.manual) /\ ~In(r, mailbox'.manual)
  BY DEF Waits, In
<1>3. mailbox'.manual # mailbox.manual
  BY <1>2
<1>4. PICK j \in Jobs : Step(j)
  BY <1>3 DEF Next, Step, Kill, Cancel, vars
<1>5. ~Requests(j)
  <2>1. ASSUME Requests(j) PROVE FALSE
    <3>1. mailbox'.manual = Append(mailbox.manual, j)
      BY <1>1, <2>1 DEF Requests, Request, Publish, Mailboxes
    <3> QED
      BY <1>1, <1>2, <3>1, AppendAdds
  <2> QED
    BY <2>1
<1>6. Acknowledges(j)
  BY <1>1, <1>3, <1>4, <1>5, MailboxStep
<1>7. status.request = r
  BY <1>1, <1>2, <1>6, AckedTakesOne DEF Acknowledges
<1> QED
  BY <1>1, <1>6, <1>7 DEF Acknowledges, ResetsFit

\* A retry leaves the queue only when every document that had failed when it was
\* asked for has been reset or deleted: the keyset pages of
\* _run_exclusive_failed_reset() leave none behind, in however many attempts.
THEOREM RetriesAreServed == Spec => AckedIsReset
<1>1. IInv /\ [Next]_vars => [\A r \in Jobs : Waits(r) /\ ~Waits(r)' => due[r] = {}]_vars
  BY LocalAssumption, AckIsDue
<1> QED
  BY <1>1, Inductive, PTL DEF Spec, AckedIsReset
=============================================================================
