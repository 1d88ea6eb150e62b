----------------------------- MODULE WandProofs -----------------------------
(***************************************************************************)
(* Proofs about Wand, for every index, query, queue size and ranker, over  *)
(* a wand_data that bounds what it says it bounds (the raw one; Lowest of  *)
(* the compressed one is no bound on a document's weight): pruning loses   *)
(* no document that belongs in the answer.                                 *)
(***************************************************************************)
EXTENDS Wand, QueryProofs

IndInv ==
    /\ QueueInv
    /\ ordered_enums \in Bijection(Lists, Lists)
    /\ ListsInOrder
    /\ SkippedIsHopeless
    /\ pc = "search" => EnumsOnLists
-----------------------------------------------------------------------------
LEMMA InvFacts ==
  ASSUME IndInv
  PROVE  /\ query \in Queries /\ NumDocs \in Nat
         /\ docid \in [Lists -> 0..NumDocs]
         /\ \A t \in Lists : docid[t] \in Int
         /\ ordered_enums \in [Lists -> Lists]
         /\ \A t \in Lists : \E i \in Lists : ordered_enums[i] = t
         /\ \A i \in Lists : At(i) \in 0..NumDocs
<1>1. /\ query \in Queries /\ NumDocs \in Nat
      /\ docid \in [Lists -> 0..NumDocs]
  BY QueryAssumption DEF IndInv, QueueInv, QueryTypeOK
<1>2. /\ ordered_enums \in [Lists -> Lists]
      /\ \A t \in Lists : \E i \in Lists : ordered_enums[i] = t
  BY BijectionMeans DEF IndInv
<1> QED BY <1>1, <1>2 DEF At

LEMMA InitInv == Init => IndInv
<1> SUFFICES ASSUME Init PROVE IndInv
  OBVIOUS
<1>1. QueueInv /\ query \in Queries /\ NumDocs \in Nat
  BY InitQueue, QueryAssumption DEF Init, QueueInv, QueryTypeOK
<1>2. \A t \in Lists : docid[t] = FirstGeq(t, 0) /\ docid[t] \in 0..NumDocs
  BY <1>1, FirstGeqLands DEF Init, QueryInit
<1>3. /\ ordered_enums \in Bijection(Lists, Lists)
      /\ \A i, j \in Lists : i < j => At(i) <= At(j)
  BY InSortedBy DEF Init, At
<1>4. EnumsOnLists
  <2>1. \A t \in Lists : docid[t] = NumDocs \/ docid[t] \in Postings(t)
    BY <1>1, <1>2, FirstGeqLands
  <2>2. offered = {}
    BY DEF Init, QueryInit
  <2> QED BY <2>1, <2>2 DEF EnumsOnLists
<1>5. SkippedIsHopeless
  <2>1. ASSUME NEW d \in Docs, NEW t \in Matching(d) PROVE ~(docid[t] > d)
    <3>1. t \in Lists /\ d \in Postings(t) /\ d \in Int /\ d >= 0
      BY <1>1 DEF Matching, Docs
    <3>2. docid[t] <= d /\ docid[t] \in Int
      BY <1>1, <1>2, <3>1, FirstGeqLands
    <3> QED BY <3>1, <3>2
  <2> QED BY <2>1 DEF SkippedIsHopeless
<1> QED BY <1>1, <1>3, <1>4, <1>5 DEF IndInv, ListsInOrder

(* The pivot is the first candidate.                                       *)
LEMMA PivotIsFirst ==
  ASSUME query \in Queries
  PROVE  /\ Pivot = 0 <=> PivotCandidates = {}
         /\ Pivot # 0 => /\ Pivot \in PivotCandidates
                         /\ \A j \in PivotCandidates : Pivot <= j
<1>1. PivotCandidates \in SUBSET Nat /\ 0 \notin PivotCandidates
  BY QueryFacts DEF PivotCandidates, Lists
<1>2. CASE PivotCandidates = {}
  BY <1>2 DEF Pivot
<1>3. CASE PivotCandidates # {}
  <2>1. \E i \in PivotCandidates : \A j \in PivotCandidates : i <= j
    BY <1>1, <1>3, LeastOf
  <2>2. /\ Pivot \in PivotCandidates
        /\ \A j \in PivotCandidates : Pivot <= j
    BY <1>3, <2>1 DEF Pivot
  <2> QED BY <1>1, <1>3, <2>2
<1> QED BY <1>2, <1>3

(* A document before the pivot document that no enumerator of its lists is *)
(* past cannot enter the queue; without a pivot no document can.           *)
LEMMA BeforePivot ==
  ASSUME Storage = "raw", IndInv, pc = "search",
         NEW d \in Docs, Matching(d) # {}, NotOffered(d),
         Pivot = 0 \/ d < At(Pivot)
  PROVE  ~Topk!WouldEnter(FullScore(d))
<1>1. CASE \E t \in Matching(d) : docid[t] > d
  BY <1>1 DEF IndInv, SkippedIsHopeless
<1>2. CASE ~\E t \in Matching(d) : docid[t] > d
  <2>1. \A t \in Matching(d) : docid[t] <= d
    <3>1. \A t \in Matching(d) : docid[t] \in Int /\ d \in Int
      BY InvFacts DEF Matching, Docs
    <3> QED BY <1>2, <3>1
  <2>2. ASSUME NEW k \in Lists, \A j \in 1..k : docid[ordered_enums[j]] <= d
        PROVE  ~Topk!WouldEnter(ListBound(UpTo(k)))
    <3>1. \A j \in 1..k : At(j) \in Int /\ At(j) <= d /\ d < NumDocs /\ NumDocs \in Int
      <4>1. \A j \in 1..k : j \in Lists
        BY InvFacts, QueryFacts DEF Lists
      <4> QED BY <2>2, <4>1, InvFacts DEF At, Docs
    <3>2. \A j \in 1..k : At(j) # NumDocs
      BY <3>1 DEF Docs
    <3>3. k \notin PivotCandidates
      <4>1. CASE Pivot = 0
        BY <4>1, InvFacts, PivotIsFirst
      <4>2. CASE Pivot # 0
        <5>1. k \in 1..k /\ k \in Int
          BY InvFacts, QueryFacts DEF Lists
        <5>2. SUFFICES ASSUME k \in PivotCandidates PROVE FALSE
          OBVIOUS
        <5>3. Pivot <= k /\ Pivot \in Lists
          BY <4>2, <5>2, InvFacts, PivotIsFirst DEF PivotCandidates
        <5>4. Pivot = k \/ Pivot < k
          BY <5>1, <5>3, QueryFacts, InvFacts DEF Lists
        <5>5. At(Pivot) <= At(k)
          <6>1. At(k) \in Int
            BY <5>1, <3>1
          <6> QED BY <5>3, <5>4, <6>1 DEF IndInv, ListsInOrder
        <5>6. At(Pivot) \in Int /\ d \in Int
          BY <5>3, InvFacts DEF Docs
        <5> QED BY <3>1, <4>2, <5>1, <5>5, <5>6
      <4> QED BY <4>1, <4>2
    <3> QED BY <3>2, <3>3 DEF PivotCandidates
  <2>3. \A k \in Lists : (\A j \in 1..k : docid[ordered_enums[j]] <= d)
          => ~Topk!WouldEnter(ListBound({ordered_enums[j] : j \in 1..k}))
    BY <2>2 DEF UpTo
  <2>4. \A a, b \in Lists : a < b => docid[ordered_enums[a]] <= docid[ordered_enums[b]]
    BY DEF IndInv, ListsInOrder, At
  <2> QED BY <2>1, <2>3, <2>4, HopelessPrefix DEF IndInv
<1> QED BY <1>1, <1>2

LEMMA SameLists ==
  ASSUME query' = query
  PROVE  /\ Lists' = Lists
         /\ \A t : Postings(t)' = Postings(t)
         /\ \A d : Matching(d)' = Matching(d)
         /\ \A d : FullScore(d)' = FullScore(d)
BY SameQuery DEF Lists, Postings

(* Scoring the pivot: the lists at its head hold it.  When another list    *)
(* holds it too but is past it, the document cannot enter, and no more can *)
(* the part of its score that is offered.                                  *)
LEMMA ScorePivotStep ==
  ASSUME Storage = "raw", IndInv, pc = "search", Pivot # 0,
         ScorePivot(Pivot), UNCHANGED <<query, pc>>
  PROVE  /\ IndInv' /\ Topk!Next
         /\ \E t \in Lists : docid'[t] > docid[t]
         /\ \A t \in Lists : docid'[t] >= docid[t]
<1> DEFINE id == At(Pivot)
           hits == {ordered_enums[i] : i \in {j \in Lists :
                      \A h \in 1..j : At(h) = id}}
           s == Score(hits, id)
<1>1. /\ query \in Queries /\ NumDocs \in Nat
      /\ docid \in [Lists -> 0..NumDocs]
      /\ ordered_enums \in [Lists -> Lists]
      /\ QueueInv /\ SkippedIsHopeless /\ EnumsOnLists
  BY InvFacts DEF IndInv
<1>2. /\ At(1) = id
      /\ docid' = [t \in Lists |-> IF t \in hits THEN NextDoc(t) ELSE docid[t]]
      /\ Topk!Insert(Entry(s, id))
      /\ ordered_enums' \in SortedBy(docid')
  BY DEF ScorePivot
<1>3. /\ Pivot \in Lists /\ 1 \in Lists /\ id \in Docs /\ id # NumDocs
  <2>1. Pivot \in Lists /\ \A j \in 1..Pivot : At(j) # NumDocs
    BY <1>1, PivotIsFirst DEF PivotCandidates
  <2>2. Pivot \in 1..Pivot /\ 1 \in Lists
    BY <1>1, <2>1, QueryFacts DEF Lists
  <2> QED BY <1>1, <2>1, <2>2, InvFacts DEF Docs
<1>4. hits \in SUBSET Lists /\ ordered_enums[1] \in hits
  <2>1. \A h \in 1..1 : At(h) = id
    BY <1>2
  <2> QED BY <1>1, <1>3, <2>1
<1>5. \A t \in hits : docid[t] = id
  <2>1. ASSUME NEW j \in Lists, \A h \in 1..j : At(h) = id
        PROVE  docid[ordered_enums[j]] = id
    <3>1. j \in 1..j
      BY <1>1, QueryFacts DEF Lists
    <3> QED BY <2>1, <3>1 DEF At
  <2> QED BY <2>1
<1>6. \A t \in Lists : t \notin hits => docid[t] > id
  <2>1. SUFFICES ASSUME NEW t \in Lists, t \notin hits PROVE docid[t] > id
    OBVIOUS
  <2>2. PICK j \in Lists : ordered_enums[j] = t
    BY InvFacts
  <2>3. PICK h \in 1..j : At(h) # id
    BY <2>1, <2>2
  <2>4. h \in Lists /\ h >= 1 /\ h <= j /\ h \in Int /\ j \in Int
    BY <1>1, QueryFacts DEF Lists
  <2>5. At(1) \in Int /\ At(h) \in Int /\ At(j) \in Int
    BY <1>3, <2>4, InvFacts
  <2>6. At(1) <= At(h) /\ At(h) <= At(j)
    BY <1>3, <2>4, <2>5 DEF IndInv, ListsInOrder
  <2> QED BY <1>2, <2>2, <2>3, <2>5, <2>6 DEF At
<1> HIDE DEF hits
<1>7. s \in Scores /\ s \in Int /\ FullScore(id) \in Int
  BY <1>1, <1>3, <1>4, ScoreIsScore
<1>8. /\ hits \subseteq Matching(id)
      /\ hits = Matching(id) \/ ~Topk!WouldEnter(FullScore(id))
  BY <1>1, <1>3, <1>4, <1>5, <1>6, FirstDocument
<1>9. \/ s = FullScore(id)
      \/ ~Topk!WouldEnter(s) /\ ~Topk!WouldEnter(FullScore(id))
  <2>1. CASE hits = Matching(id)
    BY <2>1 DEF FullScore
  <2>2. CASE hits # Matching(id)
    <3>1. s <= FullScore(id)
      BY <1>1, <1>3, <1>8, PartialScore
    <3> HIDE DEF s
    <3> QED BY <1>1, <1>7, <1>8, <2>2, <3>1, BarIsOrdered
  <2> QED BY <2>1, <2>2
<1> HIDE DEF s
<1>10. /\ QueueInv' /\ SkippedIsHopeless' /\ EnumsOnLists' /\ Topk!Next
       /\ \E t \in Lists : docid'[t] > docid[t]
       /\ \A t \in Lists : docid'[t] >= docid[t]
  BY <1>1, <1>2, <1>3, <1>4, <1>5, <1>6, <1>7, <1>9, ScoreFirstStep
<1>11. ordered_enums' \in Bijection(Lists, Lists) /\ ListsInOrder'
  BY <1>2, InSortedBy, SameLists DEF ListsInOrder, At
<1>12. IndInv'
  BY <1>10, <1>11, SameLists DEF IndInv
<1> QED BY <1>10, <1>12

(* Where BubbleDown puts the list.                                         *)
LEMMA BubbleDownMoves ==
  ASSUME query \in Queries, NEW i \in Lists, NEW at,
         ordered_enums \in [Lists -> Lists]
  PROVE  \E last \in Lists :
           /\ i <= last
           /\ BubbleDown(i, at) = MovedDown(ordered_enums, i, last)
           /\ \A h \in i+1 .. last :
                at[ordered_enums[h]] < at[ordered_enums[i]]
           /\ last + 1 \in Lists =>
                ~(at[ordered_enums[last + 1]] < at[ordered_enums[i]])
<1> DEFINE p == ordered_enums
           W == {h \in Lists : at[p[h]] < at[p[i]]}
           passed == {j \in Lists : j > i /\
                        \A h \in i+1 .. j : at[p[h]] < at[p[i]]}
           reached == {j \in Lists : j > i /\ \A h \in i+1 .. j : h \in W}
           last == Greatest(passed \cup {i})
<1>1. passed = reached
  <2>1. \A j \in Lists : \A h \in i+1 .. j : h \in Lists
    BY QueryFacts DEF Lists
  <2> QED BY <2>1
<1>2. last = Greatest(reached \cup {i})
  BY <1>1
<1>3. BubbleDown(i, at) = MovedDown(p, i, last)
  BY DEF BubbleDown, MovedDown
<1>4. /\ last \in Lists /\ i <= last
      /\ \A h \in i+1 .. last : h \in W
      /\ last + 1 \in Lists => last + 1 \notin W
  <2> HIDE DEF last, W
  <2>1. last = Greatest({j \in Lists : j > i /\ \A h \in i+1 .. j : h \in W} \cup {i})
    BY <1>2
  <2> HIDE DEF p, passed, reached
  <2> QED BY SMTT(30), <2>1, LastPassed
<1> HIDE DEF last
<1> QED BY <1>3, <1>4

(* Moving a list up to the pivot document: what it moves past comes before *)
(* the pivot.                                                              *)
LEMMA AdvanceStep ==
  ASSUME Storage = "raw", IndInv, pc = "search", Pivot # 0,
         AdvanceToPivot(Pivot), UNCHANGED <<query, pc>>
  PROVE  /\ IndInv' /\ UNCHANGED Topk!vars
         /\ \E t \in Lists : docid'[t] > docid[t]
         /\ \A t \in Lists : docid'[t] >= docid[t]
<1> DEFINE id == At(Pivot)
           B == {i \in 1..Pivot : At(i) # id}
           i == Greatest(B)
           t == ordered_enums[i]
<1>1. /\ query \in Queries /\ NumDocs \in Nat
      /\ docid \in [Lists -> 0..NumDocs]
      /\ ordered_enums \in [Lists -> Lists]
      /\ ordered_enums \in Bijection(Lists, Lists)
      /\ QueueInv /\ SkippedIsHopeless /\ EnumsOnLists
  BY InvFacts DEF IndInv
<1>2. PICK kind \in Kinds :
        docid' = [docid EXCEPT ![t] = NextGeq(kind, t, id)]
  BY DEF AdvanceToPivot
<1>3. /\ At(1) # id /\ ordered_enums' = BubbleDown(i, docid') /\ UNCHANGED topk
  BY DEF AdvanceToPivot
<1>4. /\ Pivot \in Lists /\ 1 \in Lists /\ id \in 0..NumDocs
      /\ 1..Pivot \subseteq Lists
  <2>1. Pivot \in Lists
    BY <1>1, PivotIsFirst DEF PivotCandidates
  <2>2. 1 \in Lists /\ 1..Pivot \subseteq Lists
    BY <1>1, <2>1, QueryFacts DEF Lists
  <2> QED BY <2>1, <2>2, InvFacts
<1>5. i \in B
  <2>1. B # {} /\ B \in SUBSET Lists
    BY <1>3, <1>4 DEF Lists
  <2>2. IsFiniteSet(B) /\ \A x \in B : x \in Int
    <3>1. \A x \in Lists : x \in Int
      BY DEF Lists
    <3> HIDE DEF B
    <3> QED BY <1>1, <2>1, <3>1, QueryFacts, FS_Subset
  <2> HIDE DEF B
  <2> QED BY <2>1, <2>2, GreatestIs
<1>6. i \in Lists /\ i <= Pivot /\ At(i) # id
  BY <1>4, <1>5
<1> HIDE DEF i, id
<1>7. t \in Lists /\ docid[t] < id /\ docid[t] \in 0..NumDocs
  <2>1. At(i) \in Int /\ id \in Int /\ i \in Int /\ Pivot \in Int
    BY <1>4, <1>6, InvFacts DEF Lists
  <2>2. At(i) <= id
    BY <1>4, <1>6, <2>1 DEF IndInv, ListsInOrder, id
  <2>3. At(i) < id
    BY <1>6, <2>1, <2>2
  <2>4. At(i) = docid[t]
    BY DEF At
  <2>5. t \in Lists
    BY <1>1, <1>6
  <2> QED BY <1>1, <2>3, <2>4, <2>5
<1>8. UNCHANGED <<query, pc, m_q, threshold, offered, sorted>>
  BY <1>3 DEF topk
<1>9. \A d \in Postings(t) : NotOffered(d) /\ d < id => ~Topk!WouldEnter(FullScore(d))
  <2>1. SUFFICES ASSUME NEW d \in Postings(t), NotOffered(d), d < id
                 PROVE  ~Topk!WouldEnter(FullScore(d))
    OBVIOUS
  <2>2. d \in Docs /\ Matching(d) # {}
    BY <1>7 DEF Matching, Postings
  <2> QED BY <2>1, <2>2, BeforePivot DEF id
<1>10. /\ QueueInv' /\ SkippedIsHopeless' /\ EnumsOnLists' /\ UNCHANGED Topk!vars
       /\ docid' \in [Lists -> 0..NumDocs]
       /\ \A u \in Lists : u # t => docid'[u] = docid[u]
       /\ docid'[t] > docid[t]
       /\ \A u \in Lists : docid'[u] >= docid[u]
  BY <1>1, <1>2, <1>4, <1>7, <1>8, <1>9, AdvanceOneStep
<1>11. PICK last \in Lists :
         /\ i <= last
         /\ ordered_enums' = MovedDown(ordered_enums, i, last)
         /\ \A h \in i+1 .. last : docid'[ordered_enums[h]] < docid'[t]
         /\ last + 1 \in Lists => ~(docid'[ordered_enums[last + 1]] < docid'[t])
  BY <1>1, <1>3, <1>6, BubbleDownMoves DEF t
<1>12. /\ \A h \in i+1 .. last : docid'[ordered_enums[h]] <= docid'[ordered_enums[i]]
       /\ last + 1 \in Lists => docid'[ordered_enums[i]] <= docid'[ordered_enums[last + 1]]
  <2>1. \A h \in i+1 .. last : h \in Lists
    BY <1>1, <1>6, <1>11, QueryFacts DEF Lists
  <2>2. \A h \in Lists : docid'[ordered_enums[h]] \in Int
    BY <1>1, <1>10
  <2> QED BY <1>6, <1>11, <2>1, <2>2 DEF t
<1>13. \A a, b \in Lists : a < b => docid[ordered_enums[a]] <= docid[ordered_enums[b]]
  BY DEF IndInv, ListsInOrder, At
<1>14. /\ \A u \in Lists : u # ordered_enums[i] => docid'[u] = docid[u]
       /\ docid'[ordered_enums[i]] > docid[ordered_enums[i]]
  BY <1>10 DEF t
<1>15. /\ ordered_enums' \in Bijection(Lists, Lists)
       /\ \A a, b \in Lists : a < b => docid'[ordered_enums'[a]] <= docid'[ordered_enums'[b]]
  BY <1>1, <1>6, <1>10, <1>11, <1>12, <1>13, <1>14, AdvancedOrder
<1>16. IndInv'
  BY <1>8, <1>10, <1>15, SameLists DEF IndInv, ListsInOrder, At
<1> QED BY <1>7, <1>8, <1>10, <1>16

LEMMA FinishStep ==
  ASSUME Storage = "raw", IndInv, Finish
  PROVE  IndInv' /\ Topk!Next
<1>1. /\ query \in Queries /\ QueueInv /\ pc = "search" /\ Pivot = 0
      /\ Return /\ ordered_enums' = ordered_enums
  BY InvFacts DEF IndInv, Finish
<1>2. NothingLeft
  BY <1>1, BeforePivot DEF NothingLeft
<1>3. QueueInv' /\ Topk!Next
  BY <1>1, <1>2, ReturnStep
<1>4. query' = query /\ pc' = "done"
  BY <1>1 DEF Return
<1>5. ordered_enums' \in Bijection(Lists', Lists')
  BY <1>1, <1>4, SameLists DEF IndInv
<1> QED BY <1>3, <1>4, <1>5 DEF IndInv, ListsInOrder, SkippedIsHopeless

LEMMA PassStep ==
  ASSUME Storage = "raw", IndInv, Pass
  PROVE  /\ IndInv' /\ [Topk!Next]_(Topk!vars)
         /\ \E t \in Lists : docid'[t] > docid[t]
         /\ \A t \in Lists : docid'[t] >= docid[t]
<1>1. /\ pc = "search" /\ Pivot # 0 /\ UNCHANGED <<query, pc>>
      /\ ScorePivot(Pivot) \/ AdvanceToPivot(Pivot)
  BY DEF Pass
<1> QED BY <1>1, ScorePivotStep, AdvanceStep

LEMMA StepInv ==
  ASSUME Storage = "raw", IndInv, [Next]_vars
  PROVE  IndInv' /\ [Topk!Next]_(Topk!vars)
<1>1. CASE UNCHANGED vars
  <2>1. /\ UNCHANGED <<query, pc, m_q, threshold, offered, sorted>>
        /\ docid' = docid /\ ordered_enums' = ordered_enums
    BY <1>1 DEF vars
  <2>2. docid' \in [Lists -> 0..NumDocs]
    BY <2>1, InvFacts
  <2>3. QueueInv' /\ \A r : Topk!WouldEnter(r)' <=> Topk!WouldEnter(r)
    BY <2>1, <2>2, QuietStep DEF IndInv
  <2>4. EnumsOnLists' <=> EnumsOnLists
    BY <2>1, SameLists DEF EnumsOnLists
  <2>5. SkippedIsHopeless'
    <3>1. SUFFICES ASSUME pc = "search", NEW d \in Docs, NotOffered(d),
                          NEW t \in Matching(d), docid[t] > d
                   PROVE  \E r : r = FullScore(d) /\ ~Topk!WouldEnter(r)'
      BY <2>1, SameLists DEF SkippedIsHopeless, NotOffered
    <3>2. ~Topk!WouldEnter(FullScore(d))
      BY <3>1 DEF IndInv, SkippedIsHopeless
    <3> QED BY <2>3, <3>2
  <2>6. ListsInOrder' /\ ordered_enums' \in Bijection(Lists', Lists')
    BY <2>1, SameLists DEF ListsInOrder, At, IndInv
  <2>7. UNCHANGED Topk!vars
    BY <2>1 DEF Topk!vars
  <2> QED BY <2>1, <2>3, <2>4, <2>5, <2>6, <2>7 DEF IndInv
<1> QED BY <1>1, PassStep, FinishStep DEF Next

LEMMA Inductive ==
  ASSUME Storage = "raw"
  PROVE  Spec => []IndInv
BY InitInv, StepInv, PTL DEF Spec

(* What the invariants of the queries follow from.                         *)
LEMMA Implied ==
  ASSUME IndInv
  PROVE  /\ TypeOK /\ AnswerIsExhaustive /\ QueueScoresAreFull
         /\ SkippedIsHopeless /\ ListsInOrder
<1>1. ordered_enums \in [Lists -> Lists] /\ IsInjective(ordered_enums)
  BY BijectionMeans DEF IndInv, IsInjective
<1> QED BY <1>1 DEF IndInv, QueueInv, TypeOK
-----------------------------------------------------------------------------
(* Every variable keeps its type: the order is always one of all lists.    *)
THEOREM TypeCorrect ==
  ASSUME Storage = "raw"
  PROVE  Spec => []TypeOK
BY Inductive, Implied, PTL

(* wand_query returns the answer of an exhaustive evaluation.              *)
THEOREM IsExhaustive ==
  ASSUME Storage = "raw"
  PROVE  Spec => []AnswerIsExhaustive
BY Inductive, Implied, PTL

(* No document enters the queue with the score of some of its lists only.  *)
THEOREM ScoresAreFull ==
  ASSUME Storage = "raw"
  PROVE  Spec => []QueueScoresAreFull
BY Inductive, Implied, PTL

(* What an enumerator has jumped over cannot enter the queue any more.     *)
THEOREM SkippedStaysOut ==
  ASSUME Storage = "raw"
  PROVE  Spec => []SkippedIsHopeless
BY Inductive, Implied, PTL

(* Bubbling one list down leaves the lists as sorted as sorting would.     *)
THEOREM OrderIsKept ==
  ASSUME Storage = "raw"
  PROVE  Spec => []ListsInOrder
BY Inductive, Implied, PTL

(* The search is a legal use of topk_queue.                                *)
THEOREM ImplementsQueue ==
  ASSUME Storage = "raw"
  PROVE  Spec => UsesQueueLegally
<1>1. Init => Topk!Init
  BY InitQueue DEF Init
<1> QED BY <1>1, Inductive, StepInv, PTL DEF Spec, UsesQueueLegally, Topk!Spec
=============================================================================
