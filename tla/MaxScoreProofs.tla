--------------------------- MODULE MaxScoreProofs ---------------------------
(***************************************************************************)
(* Proofs about MaxScore, for every index, query, queue size and ranker,   *)
(* over a wand_data that bounds what it says it bounds (the raw one): the  *)
(* lists that are not searched any more and the documents that are passed  *)
(* over have nothing that belongs in the answer.                           *)
(***************************************************************************)
EXTENDS MaxScore, QueryProofs

(* No enumerator is past a document of its list that is not before         *)
(* cur_doc, though a non-essential one may be far behind; the essential    *)
(* ones are not behind, and cur_doc is a document of some list.            *)
EnumsAroundCurDoc ==
    /\ \A t \in Lists :
         /\ docid[t] = NumDocs \/ docid[t] \in Postings(t)
         /\ \A d \in Postings(t) : cur_doc <= d => docid[t] <= d
    /\ \A t \in Essential : cur_doc <= docid[t]
    /\ cur_doc = NumDocs \/ Matching(cur_doc) # {}

(* What is offered lies before cur_doc.                                    *)
OfferedBehind == \A e \in offered : e.doc < cur_doc

(* The non-essential lists together are below the bar.                     *)
BoundBelowBar ==
    non_essential_lists > 0 =>
        ~Topk!WouldEnter(ListBound(UpTo(non_essential_lists)))

IndInv ==
    /\ QueueInv
    /\ ordered_enums \in Bijection(Lists, Lists)
    /\ non_essential_lists \in 0..query.lists
    /\ cur_doc \in 0..NumDocs
    /\ PassedOverIsHopeless
    /\ pc = "search" => EnumsAroundCurDoc /\ OfferedBehind /\ BoundBelowBar
-----------------------------------------------------------------------------
LEMMA SameLists ==
  ASSUME query' = query
  PROVE  /\ Lists' = Lists
         /\ \A t : Postings(t)' = Postings(t)
         /\ \A d : Matching(d)' = Matching(d)
         /\ \A d : FullScore(d)' = FullScore(d)
         /\ \A L : ListBound(L)' = ListBound(L)
BY SameQuery DEF Lists, Postings, ListBound, MaxDocumentWeight, MaxTermWeight

LEMMA InvFacts ==
  ASSUME IndInv
  PROVE  /\ query \in Queries /\ NumDocs \in Nat /\ query.lists \in Nat
         /\ docid \in [Lists -> 0..NumDocs]
         /\ \A t \in Lists : docid[t] \in Int
         /\ ordered_enums \in [Lists -> Lists]
         /\ \A i, j \in Lists : ordered_enums[i] = ordered_enums[j] => i = j
         /\ \A t \in Lists : \E i \in Lists : ordered_enums[i] = t
         /\ non_essential_lists \in 0..query.lists /\ cur_doc \in 0..NumDocs
         /\ \A i \in 0..query.lists : UpTo(i) \in SUBSET Lists
<1>1. /\ query \in Queries /\ NumDocs \in Nat /\ query.lists \in Nat
      /\ docid \in [Lists -> 0..NumDocs]
  BY QueryAssumption DEF IndInv, QueueInv, QueryTypeOK
<1>2. /\ ordered_enums \in [Lists -> Lists]
      /\ \A i, j \in Lists : ordered_enums[i] = ordered_enums[j] => i = j
      /\ \A t \in Lists : \E i \in Lists : ordered_enums[i] = t
  BY BijectionMeans DEF IndInv
<1>3. \A i \in 0..query.lists : UpTo(i) \in SUBSET Lists
  <2>1. \A i \in 0..query.lists : \A j \in 1..i : j \in Lists
    BY <1>1 DEF Lists
  <2> QED BY <1>2, <2>1 DEF UpTo
<1> QED BY <1>1, <1>2, <1>3 DEF IndInv

(* The bounds of the first lists are the bound of these lists.             *)
LEMMA BoundsAdd ==
  ASSUME IndInv, Storage = "raw", NEW i \in 1..query.lists
  PROVE  /\ UpTo(i) # {}
         /\ UpperBound(i) \in Int /\ DocWeightBound(i) \in Int
         /\ UpperBound(i) + DocWeightBound(i) = ListBound(UpTo(i))
<1>1. UpTo(i) \in SUBSET Lists
  BY InvFacts
<1>2. UpTo(i) # {}
  <2>1. 1 \in 1..i
    BY InvFacts
  <2> QED BY <2>1 DEF UpTo
<1>3. UpperBound(i) \in Int /\ DocWeightBound(i) \in Int
  BY <1>1, <1>2, InvFacts, ListBoundType DEF UpperBound, DocWeightBound
<1>4. ListBound(UpTo(i)) = DocWeightBound(i) + UpperBound(i)
  BY DEF ListBound, UpperBound, DocWeightBound
<1> QED BY <1>2, <1>3, <1>4

LEMMA LeastIsLeast ==
  ASSUME NEW L, NEW at, \A t \in L : at[t] \in 0..NumDocs
  PROVE  /\ Least(L, at) \in 0..NumDocs
         /\ \A t \in L : Least(L, at) <= at[t]
         /\ Least(L, at) = NumDocs \/ \E t \in L : Least(L, at) = at[t]
BY FirstOfSome DEF Least

(* A document of non-essential lists only cannot enter the queue.          *)
LEMMA NonEssentialOnly ==
  ASSUME IndInv, Storage = "raw", pc = "search", NEW d \in Docs,
         Matching(d) # {}, Matching(d) \subseteq UpTo(non_essential_lists)
  PROVE  ~Topk!WouldEnter(FullScore(d))
<1> DEFINE L == UpTo(non_essential_lists)
<1>1. non_essential_lists > 0
  <2>1. ASSUME non_essential_lists = 0 PROVE FALSE
    BY <2>1 DEF UpTo
  <2> QED BY <2>1, InvFacts
<1>2. ~Topk!WouldEnter(ListBound(L)) /\ QueueInv
  BY <1>1 DEF IndInv, BoundBelowBar
<1>3. L \in SUBSET Lists /\ L # {} /\ query \in Queries
  BY InvFacts
<1> HIDE DEF L
<1>4. /\ ListBound(L) \in Int /\ FullScore(d) \in Int
      /\ FullScore(d) <= ListBound(L)
  BY <1>3, BoundAdmissible, ListBoundType, ScoreIsScore DEF L
<1> QED BY <1>2, <1>4, BarIsOrdered

LEMMA InitInv == Init => IndInv
<1> SUFFICES ASSUME Init PROVE IndInv
  OBVIOUS
<1>1. QueueInv /\ query \in Queries /\ NumDocs \in Nat /\ query.lists \in Nat
  BY InitQueue, QueryAssumption DEF Init, QueueInv, QueryTypeOK
<1>2. \A t \in Lists : docid[t] = FirstGeq(t, 0) /\ docid[t] \in 0..NumDocs
  BY <1>1, FirstGeqLands DEF Init, QueryInit
<1>3. /\ ordered_enums \in Bijection(Lists, Lists)
      /\ non_essential_lists = 0
  BY InSortedBy DEF Init
<1>4. /\ cur_doc \in 0..NumDocs
      /\ \A t \in Lists : cur_doc <= docid[t]
      /\ cur_doc = NumDocs \/ \E t \in Lists : cur_doc = docid[t]
  BY <1>2, LeastIsLeast DEF Init
<1>5. \A t \in Lists :
        /\ docid[t] = NumDocs \/ docid[t] \in Postings(t)
        /\ \A d \in Postings(t) : docid[t] <= d /\ d \in Int
  <2>1. \A t \in Lists : \A d \in Postings(t) : d >= 0 /\ d \in Int
    BY <1>1 DEF Postings, Docs
  <2> QED BY <1>1, <1>2, <2>1, FirstGeqLands
<1>6. EnumsAroundCurDoc
  <2>1. Essential \subseteq Lists
    BY DEF Essential
  <2>2. cur_doc = NumDocs \/ Matching(cur_doc) # {}
    BY <1>4, <1>5 DEF Matching
  <2> QED BY <1>4, <1>5, <2>1, <2>2 DEF EnumsAroundCurDoc
<1>7. offered = {}
  BY DEF Init, QueryInit
<1>8. PassedOverIsHopeless
  <2>1. ASSUME NEW d \in Docs, Matching(d) # {} PROVE ~(d < cur_doc)
    <3>1. PICK t \in Lists : d \in Postings(t)
      BY <2>1 DEF Matching
    <3>2. cur_doc <= docid[t] /\ docid[t] <= d /\ docid[t] \in Int /\ d \in Int
      BY <1>2, <1>4, <1>5, <3>1
    <3> QED BY <1>4, <3>2
  <2> QED BY <2>1 DEF PassedOverIsHopeless
<1> QED BY <1>1, <1>3, <1>4, <1>6, <1>7, <1>8
        DEF IndInv, OfferedBehind, BoundBelowBar
-----------------------------------------------------------------------------
(* An enumerator asked for cur_doc answers whether its list has it.        *)
LEMMA NextGeqAnswers ==
  ASSUME IndInv, pc = "search", cur_doc < NumDocs,
         NEW kind \in Kinds, NEW t \in Lists
  PROVE  LET to == NextGeq(kind, t, cur_doc) IN
         /\ to \in 0..NumDocs
         /\ to = NumDocs \/ to \in Postings(t)
         /\ to = cur_doc <=> t \in Matching(cur_doc)
         /\ \A d \in Postings(t) : cur_doc <= d => to <= d
<1>1. /\ query \in Queries /\ NumDocs \in Nat /\ cur_doc \in Docs /\ cur_doc \in Int
      /\ docid[t] \in 0..NumDocs
      /\ docid[t] = NumDocs \/ docid[t] \in Postings(t)
      /\ \A d \in Postings(t) : cur_doc <= d => docid[t] <= d
  BY InvFacts DEF IndInv, EnumsAroundCurDoc, Docs
<1>2. t \in Matching(cur_doc) <=> cur_doc \in Postings(t)
  BY DEF Matching
<1>3. CASE kind = "block" /\ cur_doc < docid[t]
  <2>1. NextGeq(kind, t, cur_doc) = docid[t]
    BY <1>3 DEF NextGeq
  <2>2. cur_doc \notin Postings(t)
    BY <1>1, <1>3
  <2> QED BY <1>1, <1>2, <1>3, <2>1, <2>2
<1>4. CASE ~(kind = "block" /\ cur_doc < docid[t])
  <2>1. NextGeq(kind, t, cur_doc) = FirstGeq(t, cur_doc)
    BY <1>4 DEF NextGeq
  <2>2. /\ FirstGeq(t, cur_doc) \in 0..NumDocs
        /\ FirstGeq(t, cur_doc) = NumDocs \/ FirstGeq(t, cur_doc) \in Postings(t)
        /\ cur_doc <= FirstGeq(t, cur_doc)
        /\ \A c \in Postings(t) : c >= cur_doc => FirstGeq(t, cur_doc) <= c
    BY <1>1, FirstGeqLands DEF Docs
  <2>3. Postings(t) \subseteq Int
    BY <1>1 DEF Postings, Docs
  <2> QED BY <1>1, <1>2, <2>1, <2>2, <2>3 DEF Docs
<1> QED BY <1>3, <1>4

(* The essential lists that have cur_doc are at it.                        *)
LEMMA HitsMatch ==
  ASSUME IndInv, pc = "search", cur_doc < NumDocs
  PROVE  Hits = Essential \cap Matching(cur_doc)
<1>1. ASSUME NEW t \in Essential
      PROVE  docid[t] = cur_doc <=> cur_doc \in Postings(t)
  <2>1. t \in Lists /\ docid[t] \in Int /\ cur_doc \in Int /\ cur_doc # NumDocs
    BY InvFacts DEF Essential
  <2> QED BY <2>1 DEF IndInv, EnumsAroundCurDoc
<1>2. Essential \subseteq Lists
  BY DEF Essential
<1> QED BY <1>1, <1>2 DEF Hits, Matching

(* ScoreFrom is the score from all lists but those still to be completed.  *)
LEMMA ScoreFromIs ==
  ASSUME IndInv, pc = "search", cur_doc < NumDocs,
         NEW kind \in Kinds, NEW i \in 0..non_essential_lists
  PROVE  ScoreFrom(kind, i) = Score(Matching(cur_doc) \ UpTo(i), cur_doc)
<1> DEFINE completed == {ordered_enums[j] : j \in i + 1 .. non_essential_lists}
<1>1. /\ non_essential_lists \in 0..query.lists /\ query.lists \in Nat
      /\ ordered_enums \in [Lists -> Lists]
      /\ \A a, b \in Lists : ordered_enums[a] = ordered_enums[b] => a = b
      /\ \A t \in Lists : \E a \in Lists : ordered_enums[a] = t
  BY InvFacts
<1>2. completed \subseteq Lists
  BY <1>1 DEF Lists
<1>3. {t \in completed : NextGeq(kind, t, cur_doc) = cur_doc}
        = completed \cap Matching(cur_doc)
  <2> HIDE DEF completed
  <2> QED BY <1>2, NextGeqAnswers
<1>4. \A t \in Lists : t \in Essential \cup completed <=> t \notin UpTo(i)
  <2>1. SUFFICES ASSUME NEW a \in Lists
                 PROVE  ordered_enums[a] \in Essential \cup completed
                          <=> ordered_enums[a] \notin UpTo(i)
    BY <1>1
  <2>2. \A k \in 0..query.lists : ordered_enums[a] \in UpTo(k) <=> a <= k
    <3>1. ASSUME NEW k \in 0..query.lists, ordered_enums[a] \in UpTo(k) PROVE a <= k
      <4>1. PICK j \in 1..k : ordered_enums[a] = ordered_enums[j]
        BY <3>1 DEF UpTo
      <4>2. j \in Lists
        BY <1>1 DEF Lists
      <4> QED BY <1>1, <4>1, <4>2
    <3>2. ASSUME NEW k \in 0..query.lists, a <= k PROVE ordered_enums[a] \in UpTo(k)
      <4>1. a \in 1..k
        BY <1>1, <3>2 DEF Lists
      <4> QED BY <4>1 DEF UpTo
    <3> QED BY <3>1, <3>2
  <2>3. ordered_enums[a] \in completed <=> i < a /\ a <= non_essential_lists
    <3>1. ASSUME ordered_enums[a] \in completed
          PROVE  i < a /\ a <= non_essential_lists
      <4>1. PICK j \in i + 1 .. non_essential_lists : ordered_enums[a] = ordered_enums[j]
        BY <3>1
      <4>2. j \in Lists
        BY <1>1 DEF Lists
      <4> QED BY <1>1, <4>1, <4>2
    <3>2. ASSUME i < a, a <= non_essential_lists PROVE ordered_enums[a] \in completed
      <4>1. a \in i + 1 .. non_essential_lists
        BY <1>1, <3>2 DEF Lists
      <4> QED BY <4>1
    <3> QED BY <3>1, <3>2
  <2>4. ordered_enums[a] \in Essential <=> ~(a <= non_essential_lists)
    BY <1>1, <2>2 DEF Essential
  <2>5. ordered_enums[a] \in UpTo(i) <=> a <= i
    BY <1>1, <2>2
  <2>6. a \in Int /\ i \in Int /\ non_essential_lists \in Int /\ i <= non_essential_lists
    BY <1>1 DEF Lists
  <2> QED BY <2>3, <2>4, <2>5, <2>6
<1>5. Hits \cup (completed \cap Matching(cur_doc)) = Matching(cur_doc) \ UpTo(i)
  <2>1. Matching(cur_doc) \subseteq Lists /\ Essential \subseteq Lists
    BY DEF Matching, Essential
  <2>2. Hits = Essential \cap Matching(cur_doc)
    BY HitsMatch
  <2> HIDE DEF completed
  <2> QED BY <1>2, <1>4, <2>1, <2>2
<1>6. ScoreFrom(kind, i)
        = Score(Hits \cup {t \in completed : NextGeq(kind, t, cur_doc) = cur_doc}, cur_doc)
  BY DEF ScoreFrom
<1> HIDE DEF completed
<1> QED BY <1>3, <1>5, <1>6

LEMMA StopsAtOne ==
  ASSUME IndInv, NEW kind \in Kinds
  PROVE  /\ StopsAt(kind) \in 0..non_essential_lists
         /\ StopsAt(kind) > 0 =>
              ~Topk!WouldEnter(ScoreFrom(kind, StopsAt(kind)) + UpperBound(StopsAt(kind)))
<1> DEFINE S == {i \in 1..non_essential_lists :
                   ~Topk!WouldEnter(ScoreFrom(kind, i) + UpperBound(i))}
<1>1. non_essential_lists \in Nat
  BY InvFacts
<1>2. IsFiniteSet({0} \cup S) /\ {0} \cup S # {} /\ \A x \in {0} \cup S : x \in Int
  <2>1. {0} \cup S \in SUBSET (0..non_essential_lists)
    BY <1>1
  <2>2. IsFiniteSet(0..non_essential_lists)
    BY <1>1, FS_Interval
  <2> HIDE DEF S
  <2> QED BY <1>1, <2>1, <2>2, FS_Subset
<1>3. StopsAt(kind) = Greatest({0} \cup S)
  BY DEF StopsAt
<1>4. StopsAt(kind) \in {0} \cup S
  <2> HIDE DEF S
  <2> QED BY <1>2, <1>3, GreatestIs
<1>5. StopsAt(kind) \in 0..non_essential_lists
  BY <1>1, <1>4
<1> QED BY <1>4, <1>5

(* The score a pass offers is the full one, unless the loop stopped early: *)
(* then neither it nor the full one would enter.                           *)
LEMMA OfferedScore ==
  ASSUME IndInv, Storage = "raw", pc = "search", cur_doc < NumDocs, NEW kind \in Kinds
  PROVE  LET score == ScoreFrom(kind, StopsAt(kind)) IN
         /\ score \in Scores
         /\ \/ score = FullScore(cur_doc)
            \/ ~Topk!WouldEnter(score) /\ ~Topk!WouldEnter(FullScore(cur_doc))
<1> DEFINE stop == StopsAt(kind)
           A == Matching(cur_doc) \ UpTo(stop)
           score == ScoreFrom(kind, stop)
<1>1. /\ stop \in 0..non_essential_lists /\ stop \in 0..query.lists
      /\ query \in Queries /\ cur_doc \in Docs /\ QueueInv
      /\ stop > 0 => ~Topk!WouldEnter(score + UpperBound(stop))
  <2>1. stop \in 0..non_essential_lists
    BY StopsAtOne
  <2>2. stop \in 0..query.lists
    BY <2>1, InvFacts
  <2> QED BY <2>1, <2>2, InvFacts, StopsAtOne DEF IndInv, Docs
<1>2. score = Score(A, cur_doc)
  <2> HIDE DEF stop
  <2> QED BY <1>1, ScoreFromIs
<1>3. A \in SUBSET Matching(cur_doc) /\ A \in SUBSET Lists
  BY DEF Matching
<1>4. score \in Scores /\ score \in Int /\ FullScore(cur_doc) \in Int
  <2> HIDE DEF A, score
  <2> QED BY <1>1, <1>2, <1>3, ScoreIsScore
<1>5. CASE stop = 0
  <2>1. UpTo(stop) = {}
    BY <1>5 DEF UpTo
  <2>2. A = Matching(cur_doc)
    BY <2>1
  <2> QED BY <1>2, <1>4, <2>2 DEF FullScore
<1>6. CASE stop > 0
  <2>1. UpTo(stop) \in SUBSET Lists /\ Matching(cur_doc) \ A \subseteq UpTo(stop)
    BY <1>1, InvFacts
  <2>2. FullScore(cur_doc) <= score + UpperBound(stop)
    <3> HIDE DEF A, score, stop
    <3> QED BY <1>1, <1>2, <1>3, <2>1, PartialBound DEF UpperBound
  <2>3. UpperBound(stop) \in Int
    <3>1. stop \in 1..query.lists
      BY <1>1, <1>6, InvFacts
    <3> HIDE DEF stop
    <3> QED BY <3>1, BoundsAdd
  <2>4. score <= FullScore(cur_doc)
    <3> HIDE DEF A, score
    <3> QED BY <1>1, <1>2, <1>3, PartialScore
  <2> HIDE DEF score, stop
  <2>5. ~Topk!WouldEnter(FullScore(cur_doc))
    BY <1>1, <1>4, <1>6, <2>2, <2>3, BarIsOrdered
  <2>6. ~Topk!WouldEnter(score)
    BY <1>1, <1>4, <2>4, <2>5, BarIsOrdered
  <2> QED BY <1>4, <2>5, <2>6 DEF score, stop
<1> QED BY <1>1, <1>4, <1>5, <1>6

(* Growing the non-essential lists stops before the bar.                   *)
LEMMA GrowStep ==
  ASSUME IndInv, Storage = "raw", pc = "search", query' = query,
         ordered_enums' = ordered_enums, QueueInv',
         non_essential_lists < query.lists,
         \A r \in Int : ~Topk!WouldEnter(r) => ~Topk!WouldEnter(r)',
         GrowNonEssential \/ UNCHANGED non_essential_lists
  PROVE  /\ non_essential_lists' \in non_essential_lists .. query.lists
         /\ BoundBelowBar'
<1>1. /\ non_essential_lists \in Nat /\ query.lists \in Nat /\ query \in Queries
      /\ non_essential_lists \in 0..query.lists
  BY InvFacts
<1>2. ASSUME non_essential_lists' \in 0..query.lists,
             non_essential_lists' > 0 =>
               \E b \in Int : /\ b = ListBound(UpTo(non_essential_lists'))
                              /\ ~Topk!WouldEnter(b)'
      PROVE  BoundBelowBar'
  <2>1. ListBound(UpTo(non_essential_lists))' = ListBound(UpTo(non_essential_lists'))
    BY DEF ListBound, UpTo, MaxDocumentWeight, MaxTermWeight, Postings, Lists
  <2> QED BY <1>2, <2>1 DEF BoundBelowBar, Topk!WouldEnter
<1>3. non_essential_lists > 0 =>
        \E b \in Int : /\ b = ListBound(UpTo(non_essential_lists))
                       /\ ~Topk!WouldEnter(b)'
  <2>1. SUFFICES ASSUME non_essential_lists > 0
                 PROVE \E b \in Int : /\ b = ListBound(UpTo(non_essential_lists))
                                      /\ ~Topk!WouldEnter(b)'
    OBVIOUS
  <2>2. UpTo(non_essential_lists) \in SUBSET Lists /\ UpTo(non_essential_lists) # {}
    BY <1>1, <2>1, InvFacts, BoundsAdd
  <2>3. ListBound(UpTo(non_essential_lists)) \in Int
    BY <1>1, <2>2, ListBoundType
  <2>4. ~Topk!WouldEnter(ListBound(UpTo(non_essential_lists)))
    BY <2>1 DEF IndInv, BoundBelowBar
  <2> QED BY <2>3, <2>4
<1>4. CASE UNCHANGED non_essential_lists
  BY <1>1, <1>2, <1>3, <1>4
<1>5. CASE GrowNonEssential
  <2> DEFINE bound(i) == UpperBound(i + 1) + DocWeightBound(i + 1)
             stops == {i \in non_essential_lists .. query.lists - 1 :
                         \E b \in {bound(i)} : Topk!WouldEnter(b)'}
  <2>1. ASSUME NEW i \in non_essential_lists .. query.lists - 1, i \notin stops
        PROVE  \E b \in Int : b = ListBound(UpTo(i + 1)) /\ ~Topk!WouldEnter(b)'
    <3>1. i + 1 \in 1..query.lists
      BY <1>1
    <3>2. bound(i) = ListBound(UpTo(i + 1)) /\ bound(i) \in Int
      BY <3>1, BoundsAdd
    <3>3. \E b \in Int : b = bound(i) /\ ~Topk!WouldEnter(b)'
      <4>1. \A b \in {bound(i)} : ~Topk!WouldEnter(b)'
        BY <2>1
      <4> QED BY <3>2, <4>1
    <3> QED BY <3>2, <3>3
  <2>2. non_essential_lists' = IF stops = {} THEN query.lists
                               ELSE CHOOSE i \in stops : \A j \in stops : i <= j
    BY <1>5 DEF GrowNonEssential
  <2>3. stops \in SUBSET (non_essential_lists .. query.lists - 1)
    OBVIOUS
  <2> HIDE DEF stops
  <2>4. /\ non_essential_lists' \in non_essential_lists .. query.lists
        /\ non_essential_lists' > non_essential_lists =>
             non_essential_lists' - 1 \notin stops
    <3>1. CASE stops = {}
      BY <1>1, <2>2, <3>1
    <3>2. CASE stops # {}
      <4>1. stops \in SUBSET Nat
        BY <1>1, <2>3
      <4>2. \E i \in stops : \A j \in stops : i <= j
        BY <3>2, <4>1, LeastOf
      <4>3. /\ non_essential_lists' \in stops
            /\ \A j \in stops : non_essential_lists' <= j
        BY <2>2, <3>2, <4>2
      <4> QED BY <1>1, <2>3, <4>1, <4>3
    <3> QED BY <3>1, <3>2
  <2>5. CASE non_essential_lists' = non_essential_lists
    BY <1>1, <1>2, <1>3, <2>5
  <2>6. CASE non_essential_lists' > non_essential_lists
    <3>1. PICK n \in Int : n = non_essential_lists'
      BY <1>1, <2>4
    <3>2. n \in Nat /\ non_essential_lists < n /\ n <= query.lists /\ n - 1 \notin stops
      BY <1>1, <2>4, <2>6, <3>1
    <3>3. n - 1 \in non_essential_lists .. query.lists - 1 /\ (n - 1) + 1 = n
      BY <1>1, <3>2
    <3>4. \E b \in Int : b = ListBound(UpTo(n)) /\ ~Topk!WouldEnter(b)'
      BY <2>1, <3>2, <3>3
    <3> QED BY <1>1, <1>2, <2>4, <3>1, <3>4
  <2> QED BY <1>1, <2>4, <2>5, <2>6
<1> QED BY <1>4, <1>5

(* A pass offers cur_doc and moves on; what it moves past is in            *)
(* non-essential lists only.                                               *)
LEMMA PassStep ==
  ASSUME IndInv, Storage = "raw", Pass
  PROVE  IndInv' /\ Topk!Next /\ cur_doc' > cur_doc
<1>1. PICK kind \in Kinds :
        LET stop == StopsAt(kind)
            completed == {ordered_enums[i] : i \in stop + 1 .. non_essential_lists}
            score == ScoreFrom(kind, stop)
        IN
        /\ pc = "search"
        /\ non_essential_lists < query.lists /\ cur_doc < NumDocs
        /\ UNCHANGED <<query, pc, ordered_enums>>
        /\ docid' = [t \in Lists |->
                       IF t \in Hits THEN NextDoc(t)
                       ELSE IF t \in completed THEN NextGeq(kind, t, cur_doc)
                       ELSE docid[t]]
        /\ cur_doc' = Least(Essential, docid')
        /\ Topk!Insert(Entry(score, cur_doc))
        /\ IF Topk!WouldEnter(score) THEN GrowNonEssential
           ELSE UNCHANGED non_essential_lists
  BY DEF Pass
<1> DEFINE stop == StopsAt(kind)
           completed == {ordered_enums[i] : i \in stop + 1 .. non_essential_lists}
           score == ScoreFrom(kind, stop)
<1>2. /\ pc = "search" /\ non_essential_lists < query.lists /\ cur_doc < NumDocs
      /\ UNCHANGED <<query, pc, ordered_enums>>
      /\ docid' = [t \in Lists |->
                     IF t \in Hits THEN NextDoc(t)
                     ELSE IF t \in completed THEN NextGeq(kind, t, cur_doc)
                     ELSE docid[t]]
      /\ cur_doc' = Least(Essential, docid')
      /\ Topk!Insert(Entry(score, cur_doc))
      /\ GrowNonEssential \/ UNCHANGED non_essential_lists
  BY <1>1
<1>3. /\ query \in Queries /\ NumDocs \in Nat /\ query.lists \in Nat
      /\ cur_doc \in Docs /\ cur_doc \in Nat /\ cur_doc # NumDocs
      /\ docid \in [Lists -> 0..NumDocs]
      /\ QueueInv /\ EnumsAroundCurDoc /\ OfferedBehind /\ PassedOverIsHopeless
      /\ Essential \in SUBSET Lists /\ Hits \in SUBSET Essential
      /\ non_essential_lists \in 0..query.lists
  BY <1>2, InvFacts DEF IndInv, Docs, Essential, Hits
<1>4. /\ score \in Scores
      /\ \/ score = FullScore(cur_doc)
         \/ ~Topk!WouldEnter(score) /\ ~Topk!WouldEnter(FullScore(cur_doc))
  BY <1>2, OfferedScore
<1>5. completed \cap Essential = {}
  <2>1. stop \in 0..non_essential_lists
    BY StopsAtOne
  <2>2. completed \subseteq UpTo(non_essential_lists)
    <3>1. stop + 1 .. non_essential_lists \subseteq 1..non_essential_lists
      BY <1>3, <2>1
    <3> HIDE DEF stop
    <3> QED BY <3>1 DEF UpTo
  <2> HIDE DEF completed
  <2> QED BY <2>2 DEF Essential
<1> HIDE DEF stop, completed, score
<1>6. ASSUME NEW t \in Lists
      PROVE  /\ docid'[t] \in 0..NumDocs
             /\ docid'[t] = NumDocs \/ docid'[t] \in Postings(t)
             /\ \A d \in Postings(t) : cur_doc < d => docid'[t] <= d
             /\ t \in Essential => docid'[t] > cur_doc
  <2>1. Postings(t) \subseteq Int
    BY <1>3 DEF Postings, Docs
  <2>2. CASE t \in Hits
    <3>1. docid[t] = cur_doc
      BY <2>2 DEF Hits
    <3>2. docid'[t] = FirstGeq(t, cur_doc + 1)
      BY <1>2, <2>2, <3>1 DEF NextDoc
    <3>3. cur_doc + 1 \in Int /\ cur_doc + 1 <= NumDocs
      BY <1>2, <1>3
    <3>4. /\ docid'[t] \in 0..NumDocs
          /\ docid'[t] = NumDocs \/ docid'[t] \in Postings(t)
          /\ cur_doc + 1 <= docid'[t]
          /\ \A d \in Postings(t) : d >= cur_doc + 1 => docid'[t] <= d
      BY <1>3, <3>2, <3>3, FirstGeqLands
    <3> QED BY <1>3, <2>1, <3>4
  <2>3. CASE t \notin Hits /\ t \in completed
    <3>1. docid'[t] = NextGeq(kind, t, cur_doc)
      BY <1>2, <2>3
    <3>2. \A d \in Postings(t) : cur_doc < d => cur_doc <= d
      BY <1>3, <2>1
    <3> QED BY <1>2, <1>5, <2>3, <3>1, <3>2, NextGeqAnswers
  <2>4. CASE t \notin Hits /\ t \notin completed
    <3>1. docid'[t] = docid[t]
      BY <1>2, <2>4
    <3>2. t \in Essential => cur_doc <= docid[t] /\ docid[t] # cur_doc
      BY <1>3, <2>4 DEF Hits, EnumsAroundCurDoc
    <3>3. /\ docid[t] \in 0..NumDocs
          /\ docid[t] = NumDocs \/ docid[t] \in Postings(t)
          /\ \A d \in Postings(t) : cur_doc < d => docid[t] <= d
      BY <1>3, <2>1 DEF EnumsAroundCurDoc
    <3> QED BY <1>3, <3>1, <3>2, <3>3
  <2> QED BY <2>2, <2>3, <2>4
<1>7. docid' \in [Lists -> 0..NumDocs]
  <2>1. docid' = [t \in Lists |-> docid'[t]]
    BY <1>2
  <2> QED BY <1>6, <2>1
<1>8. /\ cur_doc' \in 0..NumDocs
      /\ \A t \in Essential : cur_doc' <= docid'[t]
      /\ cur_doc' = NumDocs \/ \E t \in Essential : cur_doc' = docid'[t]
  BY <1>2, <1>3, <1>6, LeastIsLeast
<1>9. cur_doc' > cur_doc
  BY <1>2, <1>3, <1>6, <1>8
<1>10. NotOffered(cur_doc) /\ Matching(cur_doc) # {}
  BY <1>3 DEF NotOffered, OfferedBehind, EnumsAroundCurDoc
<1>11. /\ QueueInv' /\ Topk!Next /\ offered' = offered \cup {Entry(score, cur_doc)}
       /\ \A r \in Int : ~Topk!WouldEnter(r) => ~Topk!WouldEnter(r)'
  BY <1>2, <1>3, <1>4, <1>7, <1>10, OfferStep
<1>12. /\ non_essential_lists' \in non_essential_lists .. query.lists
       /\ BoundBelowBar'
  BY <1>2, <1>11, GrowStep
<1>13. Essential' \in SUBSET Essential
  <2>1. 1..non_essential_lists \subseteq 1..non_essential_lists'
    BY <1>3, <1>12
  <2>2. UpTo(non_essential_lists)' = {ordered_enums[j] : j \in 1..non_essential_lists'}
    BY <1>2 DEF UpTo
  <2>3. UpTo(non_essential_lists) \subseteq UpTo(non_essential_lists)'
    BY <2>1, <2>2 DEF UpTo
  <2> QED BY <1>2, <2>3, SameLists DEF Essential
<1>14. EnumsAroundCurDoc'
  <2>1. ASSUME NEW t \in Lists, NEW d \in Postings(t), cur_doc' <= d
        PROVE  docid'[t] <= d
    <3>1. cur_doc < d
      BY <1>3, <1>8, <1>9, <2>1 DEF Postings, Docs
    <3> QED BY <1>6, <3>1
  <2>2. cur_doc' = NumDocs \/ Matching(cur_doc') # {}
    BY <1>3, <1>6, <1>8 DEF Matching
  <2>3. cur_doc' = NumDocs \/ (Matching(cur_doc) # {})'
    BY <1>2, <2>2 DEF Matching, Lists, Postings
  <2> QED BY <1>2, <1>6, <1>8, <1>13, <2>1, <2>3, SameLists DEF EnumsAroundCurDoc
<1>15. OfferedBehind'
  <2>1. ASSUME NEW e \in offered PROVE e.doc < cur_doc'
    <3>1. e \in Topk!Entries
      BY <1>3 DEF QueueInv, QueryTypeOK, Topk!TypeOK
    <3>2. e.doc < cur_doc /\ e.doc \in Int
      BY <1>3, <3>1 DEF OfferedBehind, Topk!Entries, Docs
    <3> QED BY <1>3, <1>8, <1>9, <3>2
  <2>2. Entry(score, cur_doc).doc < cur_doc'
    BY <1>3, <1>8, <1>9 DEF Entry
  <2> QED BY <1>11, <2>1, <2>2 DEF OfferedBehind
<1>16. PassedOverIsHopeless'
  <2>1. SUFFICES ASSUME NEW d \in Docs, d < cur_doc', Matching(d) # {}, NotOffered(d)'
                 PROVE  \E r \in Int : r = FullScore(d) /\ ~Topk!WouldEnter(r)'
    BY <1>2, SameLists DEF PassedOverIsHopeless
  <2>2. /\ FullScore(d) \in Int /\ d \in Int
        /\ NotOffered(d) /\ d # cur_doc
    <3>1. Entry(score, cur_doc).doc = cur_doc
      BY DEF Entry
    <3> QED BY <1>3, <1>11, <2>1, <3>1, ScoreIsScore DEF NotOffered, Docs
  <2>3. ~Topk!WouldEnter(FullScore(d))
    <3>1. CASE d < cur_doc
      BY <1>2, <1>3, <2>1, <2>2, <3>1 DEF PassedOverIsHopeless
    <3>2. CASE d > cur_doc
      <4>1. Matching(d) \cap Essential = {}
        <5>1. ASSUME NEW t \in Essential, d \in Postings(t) PROVE FALSE
          <6>1. docid'[t] <= d /\ cur_doc' <= docid'[t] /\ docid'[t] \in Int /\ cur_doc' \in Int
            BY <1>3, <1>6, <1>8, <2>2, <3>2, <5>1
          <6> QED BY <2>1, <2>2, <6>1
        <5> QED BY <5>1 DEF Matching
      <4>2. Matching(d) \subseteq UpTo(non_essential_lists)
        BY <4>1 DEF Matching, Essential
      <4> QED BY <1>2, <2>1, <4>2, NonEssentialOnly
    <3> QED BY <1>3, <2>2, <3>1, <3>2
  <2> QED BY <1>11, <2>2, <2>3
<1>17. IndInv'
  <2>1. ordered_enums' \in Bijection(Lists', Lists')
    BY <1>2, SameLists DEF IndInv
  <2>2. non_essential_lists' \in 0..query.lists
    BY <1>3, <1>12
  <2> QED BY <1>2, <1>8, <1>11, <1>12, <1>14, <1>15, <1>16, <2>1, <2>2 DEF IndInv
<1> QED BY <1>9, <1>11, <1>17

LEMMA FinishStep ==
  ASSUME IndInv, Storage = "raw", Finish
  PROVE  IndInv' /\ Topk!Next
<1>1. /\ QueueInv /\ pc = "search" /\ Return
      /\ UNCHANGED <<ordered_enums, non_essential_lists, cur_doc>>
      /\ non_essential_lists >= query.lists \/ cur_doc >= NumDocs
  BY DEF IndInv, Finish
<1>2. NothingLeft
  <2>1. SUFFICES ASSUME NEW d \in Docs, Matching(d) # {}, NotOffered(d)
                 PROVE  ~Topk!WouldEnter(FullScore(d))
    BY DEF NothingLeft
  <2>2. CASE cur_doc >= NumDocs
    <3>1. d < cur_doc
      BY <2>2, InvFacts DEF Docs
    <3> QED BY <1>1, <2>1, <3>1 DEF IndInv, PassedOverIsHopeless
  <2>3. CASE non_essential_lists >= query.lists
    <3>1. Matching(d) \subseteq UpTo(non_essential_lists)
      <4>1. ASSUME NEW t \in Lists PROVE t \in UpTo(non_essential_lists)
        <5>1. PICK i \in Lists : ordered_enums[i] = t
          BY InvFacts
        <5>2. i \in 1..non_essential_lists
          BY <2>3, InvFacts DEF Lists
        <5> QED BY <5>1, <5>2 DEF UpTo
      <4> QED BY <4>1 DEF Matching
    <3> QED BY <1>1, <2>1, <3>1, NonEssentialOnly
  <2> QED BY <1>1, <2>2, <2>3
<1>3. QueueInv' /\ Topk!Next
  BY <1>1, <1>2, ReturnStep
<1>4. query' = query /\ pc' = "done"
  BY <1>1 DEF Return
<1>5. /\ ordered_enums' \in Bijection(Lists', Lists')
      /\ non_essential_lists' \in 0..query'.lists /\ cur_doc' \in 0..NumDocs
  BY <1>1, <1>4, SameLists DEF IndInv
<1> QED BY <1>3, <1>4, <1>5 DEF IndInv, PassedOverIsHopeless

LEMMA StepInv ==
  ASSUME IndInv, Storage = "raw", [Next]_vars
  PROVE  IndInv' /\ [Topk!Next]_(Topk!vars)
<1>1. CASE UNCHANGED vars
  <2>1. /\ UNCHANGED <<query, pc, m_q, threshold, offered, sorted>>
        /\ docid' = docid /\ ordered_enums' = ordered_enums
        /\ non_essential_lists' = non_essential_lists /\ cur_doc' = cur_doc
    BY <1>1 DEF vars
  <2>2. docid' \in [Lists -> 0..NumDocs]
    BY <2>1, InvFacts
  <2>3. QueueInv' /\ \A r : Topk!WouldEnter(r)' <=> Topk!WouldEnter(r)
    BY <2>1, <2>2, QuietStep DEF IndInv
  <2>4. EnumsAroundCurDoc' <=> EnumsAroundCurDoc
    <3>1. Essential' = Essential
      BY <2>1, SameLists DEF Essential, UpTo
    <3>2. Matching(cur_doc)' = Matching(cur_doc)
      BY <2>1 DEF Matching, Lists, Postings
    <3> QED BY <2>1, <3>1, <3>2, SameLists DEF EnumsAroundCurDoc
  <2>5. OfferedBehind' <=> OfferedBehind
    BY <2>1 DEF OfferedBehind
  <2>6. BoundBelowBar' <=> BoundBelowBar
    BY <2>1 DEF BoundBelowBar, Topk!WouldEnter, ListBound, UpTo,
                MaxDocumentWeight, MaxTermWeight, Postings, Lists
  <2>7. PassedOverIsHopeless'
    <3>1. SUFFICES ASSUME pc = "search", NEW d \in Docs, d < cur_doc,
                          Matching(d) # {}, NotOffered(d)
                   PROVE  \E r : r = FullScore(d) /\ ~Topk!WouldEnter(r)'
      BY <2>1, SameLists DEF PassedOverIsHopeless, NotOffered
    <3>2. ~Topk!WouldEnter(FullScore(d))
      BY <3>1 DEF IndInv, PassedOverIsHopeless
    <3> QED BY <2>3, <3>2
  <2>8. ordered_enums' \in Bijection(Lists', Lists') /\ query'.lists = query.lists
    BY <2>1, SameLists DEF IndInv
  <2>9. UNCHANGED Topk!vars
    BY <2>1 DEF Topk!vars
  <2> QED BY <2>1, <2>3, <2>4, <2>5, <2>6, <2>7, <2>8, <2>9 DEF IndInv
<1> QED BY <1>1, PassStep, FinishStep DEF Next

LEMMA Inductive ==
  ASSUME Storage = "raw"
  PROVE  Spec => []IndInv
BY InitInv, StepInv, PTL DEF Spec

(* What the invariants of the queries follow from.                         *)
LEMMA Implied ==
  ASSUME IndInv, Storage = "raw"
  PROVE  /\ TypeOK /\ AnswerIsExhaustive /\ QueueScoresAreFull
         /\ SkippedIsHopeless /\ NonEssentialIsHopeless /\ PassedOverIsHopeless
<1>1. ordered_enums \in [Lists -> Lists] /\ IsInjective(ordered_enums)
  BY InvFacts DEF IsInjective
<1>2. TypeOK
  BY <1>1 DEF IndInv, QueueInv, TypeOK
<1>3. SkippedIsHopeless
  <2>1. SUFFICES ASSUME pc = "search", NEW d \in Docs, NotOffered(d),
                        NEW t \in Matching(d), docid[t] > d
                 PROVE  ~Topk!WouldEnter(FullScore(d))
    BY DEF SkippedIsHopeless
  <2>2. /\ t \in Lists /\ d \in Postings(t) /\ Matching(d) # {}
        /\ d \in Int /\ docid[t] \in Int /\ cur_doc \in Int
    BY InvFacts DEF Matching, Docs
  <2>3. d < cur_doc
    BY <2>1, <2>2 DEF IndInv, EnumsAroundCurDoc
  <2> QED BY <2>1, <2>2, <2>3 DEF IndInv, PassedOverIsHopeless
<1>4. NonEssentialIsHopeless
  BY NonEssentialOnly DEF NonEssentialIsHopeless
<1> QED BY <1>2, <1>3, <1>4 DEF IndInv, QueueInv
-----------------------------------------------------------------------------
(* Every variable keeps its type.                                          *)
THEOREM TypeCorrect ==
  ASSUME Storage = "raw"
  PROVE  Spec => []TypeOK
BY Inductive, Implied, PTL

(* maxscore_query returns the answer of an exhaustive evaluation.          *)
THEOREM IsExhaustive ==
  ASSUME Storage = "raw"
  PROVE  Spec => []AnswerIsExhaustive
BY Inductive, Implied, PTL

(* A document whose scoring is given up half way is rejected by insert.    *)
THEOREM ScoresAreFull ==
  ASSUME Storage = "raw"
  PROVE  Spec => []QueueScoresAreFull
BY Inductive, Implied, PTL

(* The lists that are not searched any more are not worth it.              *)
THEOREM NonEssentialStaysOut ==
  ASSUME Storage = "raw"
  PROVE  Spec => []NonEssentialIsHopeless
BY Inductive, Implied, PTL

(* No document that could enter the queue is passed over.                  *)
THEOREM NothingPassedOver ==
  ASSUME Storage = "raw"
  PROVE  Spec => [](PassedOverIsHopeless /\ SkippedIsHopeless)
BY Inductive, Implied, PTL

(* The search is a legal use of topk_queue.                                *)
THEOREM ImplementsQueue ==
  ASSUME Storage = "raw"
  PROVE  Spec => UsesQueueLegally
<1>1. Init => Topk!Init
  BY InitQueue DEF Init
<1> QED BY <1>1, Inductive, StepInv, PTL DEF Spec, UsesQueueLegally, Topk!Spec
=============================================================================
