----------------------- MODULE QueryAlgorithmsProofs ------------------------
(***************************************************************************)
(* Proofs about QueryAlgorithms: whichever algorithm answers a query over  *)
(* the raw wand_data, the answer is the exhaustive one.  The proofs of the *)
(* algorithms that prune are instantiated here; that of the exhaustive one *)
(* is first.  What is left to show is that the composition takes the steps *)
(* of the algorithm that the query type names.                             *)
(***************************************************************************)
EXTENDS QueryAlgorithms, QueryProofs

WP == INSTANCE WandProofs
MP == INSTANCE MaxScoreProofs
BP == INSTANCE BlockMaxWandProofs

(***************************************************************************)
(* The exhaustive algorithm.  RankedOr is instantiated in QueryAlgorithms, *)
(* where its operators are also those of this module: the lemma says what  *)
(* each means in terms of the latter, and the proof uses only them.        *)
(***************************************************************************)
LEMMA RankedOrMeans ==
  /\ \A at : RankedOr!Least(at) =
       CHOOSE d \in 0..NumDocs :
         /\ \A t \in Lists : d <= at[t]
         /\ d = NumDocs \/ \E t \in Lists : d = at[t]
  /\ RankedOr!Init <=> QueryInit /\ cur_doc = RankedOr!Least(docid)
  /\ RankedOr!ScoreDocument <=>
       LET hits == {t \in Lists : docid[t] = cur_doc} IN
       /\ pc = "search" /\ cur_doc < NumDocs
       /\ docid' = [t \in Lists |-> IF t \in hits THEN NextDoc(t) ELSE docid[t]]
       /\ Topk!Insert(Entry(Score(hits, cur_doc), cur_doc))
       /\ cur_doc' = RankedOr!Least(docid')
       /\ UNCHANGED <<query, pc>>
  /\ RankedOr!Finish <=>
       /\ pc = "search" /\ cur_doc >= NumDocs
       /\ Return
       /\ UNCHANGED cur_doc
  /\ RankedOr!Next <=> RankedOr!ScoreDocument \/ RankedOr!Finish
  /\ RankedOr!TypeOK <=> QueryTypeOK /\ cur_doc \in 0..NumDocs
<1>1. /\ RankedOr!Lists = Lists /\ RankedOr!Docs = Docs
      /\ \A t : RankedOr!Postings(t) = Postings(t)
      /\ \A t : RankedOr!NextDoc(t) = NextDoc(t)
      /\ \A t, d : RankedOr!FirstGeq(t, d) = FirstGeq(t, d)
  BY DEF Lists, Docs, Postings, NextDoc, FirstGeq, RankedOr!Lists, RankedOr!Docs,
     RankedOr!Postings, RankedOr!NextDoc, RankedOr!FirstGeq
<1>2. /\ \A s, d : RankedOr!Entry(s, d) = Entry(s, d)
      /\ \A q, L, d : RankedOr!ScoreOf(q, L, d) = ScoreOf(q, L, d)
      /\ \A L, d : RankedOr!Score(L, d) = Score(L, d)
  BY DEF Entry, ScoreOf, Score, Part, SumFunctionOnSet, MapThenFoldSet,
     FoldFunctionOnSet, RankedOr!Entry, RankedOr!ScoreOf, RankedOr!Score,
     RankedOr!Part, RankedOr!SumFunctionOnSet, RankedOr!MapThenFoldSet,
     RankedOr!FoldFunctionOnSet
<1>3. /\ \A e : RankedOr!Topk!Insert(e) <=> Topk!Insert(e)
      /\ RankedOr!Topk!Finalize <=> Topk!Finalize
      /\ RankedOr!Topk!TypeOK <=> Topk!TypeOK
  BY <1>1 DEF Topk!Bijection, Topk!Entries, Topk!Finalize, Topk!Injection, Topk!Insert,
     Topk!InsertPush, Topk!InsertReject, Topk!InsertReplace, Topk!IsFront,
     Topk!IsInjective, Topk!NewThreshold, Topk!Surjection, Topk!TypeOK,
     RankedOr!Topk!Bijection, RankedOr!Topk!Entries, RankedOr!Topk!Finalize,
     RankedOr!Topk!Injection, RankedOr!Topk!Insert, RankedOr!Topk!InsertPush,
     RankedOr!Topk!InsertReject, RankedOr!Topk!InsertReplace, RankedOr!Topk!IsFront,
     RankedOr!Topk!IsInjective, RankedOr!Topk!NewThreshold, RankedOr!Topk!Surjection,
     RankedOr!Topk!TypeOK
<1>4. /\ RankedOr!QueryInit <=> QueryInit
      /\ RankedOr!Return <=> Return
      /\ RankedOr!QueryTypeOK <=> QueryTypeOK
  BY <1>1, <1>2, <1>3 DEF QueryInit, Return, QueryTypeOK, RankedOr!QueryInit,
     RankedOr!Return, RankedOr!QueryTypeOK
<1> QED BY <1>1, <1>2, <1>3, <1>4 DEF RankedOr!Least, RankedOr!Init,
    RankedOr!ScoreDocument, RankedOr!Finish, RankedOr!Next, RankedOr!TypeOK

(* Every enumerator is at its first document that is not before cur_doc,   *)
(* and cur_doc is a document of one of them unless all are at their end.   *)
EnumsAtFirst ==
    /\ \A t \in Lists :
         /\ cur_doc <= docid[t]
         /\ docid[t] = NumDocs \/ docid[t] \in Postings(t)
         /\ \A d \in Postings(t) : cur_doc <= d => docid[t] <= d
    /\ cur_doc = NumDocs \/ \E t \in Lists : cur_doc = docid[t]

(* What was offered are the matching documents before cur_doc.             *)
OfferedInOrder ==
    \A d \in Docs : Matching(d) # {} => (d < cur_doc <=> ~NotOffered(d))

RankedOrInv ==
    /\ QueueInv
    /\ cur_doc \in 0..NumDocs
    /\ pc = "search" => EnumsAtFirst /\ OfferedInOrder

LEMMA LeastIsLeast ==
  ASSUME NEW at, \A t \in Lists : at[t] \in 0..NumDocs
  PROVE  /\ RankedOr!Least(at) \in 0..NumDocs
         /\ \A t \in Lists : RankedOr!Least(at) <= at[t]
         /\ RankedOr!Least(at) = NumDocs \/ \E t \in Lists : RankedOr!Least(at) = at[t]
BY FirstOfSome, RankedOrMeans

LEMMA RankedOrInit == RankedOr!Init => RankedOrInv
<1> SUFFICES ASSUME RankedOr!Init PROVE RankedOrInv
  OBVIOUS
<1> USE RankedOrMeans
<1>1. QueueInv /\ query \in Queries /\ NumDocs \in Nat
  BY InitQueue, QueryAssumption DEF QueueInv, QueryTypeOK
<1>2. \A t \in Lists : docid[t] = FirstGeq(t, 0) /\ docid[t] \in 0..NumDocs
  BY <1>1, FirstGeqLands DEF QueryInit
<1>3. /\ cur_doc \in 0..NumDocs
      /\ \A t \in Lists : cur_doc <= docid[t]
      /\ cur_doc = NumDocs \/ \E t \in Lists : cur_doc = docid[t]
  BY <1>2, LeastIsLeast
<1>4. EnumsAtFirst
  <2>1. \A t \in Lists : \A d \in Postings(t) : d >= 0
    BY <1>1 DEF Postings, Docs
  <2> QED BY <1>1, <1>2, <1>3, <2>1, FirstGeqLands DEF EnumsAtFirst
<1>5. OfferedInOrder
  <2>1. \A d \in Docs : NotOffered(d)
    BY DEF QueryInit, NotOffered
  <2>2. ASSUME NEW d \in Docs, Matching(d) # {} PROVE ~(d < cur_doc)
    <3>1. PICK t \in Lists : d \in Postings(t)
      BY <2>2 DEF Matching
    <3>2. docid[t] <= d /\ cur_doc <= docid[t] /\ d \in Int
      BY <1>1, <1>2, <1>3, <3>1, FirstGeqLands DEF Docs
    <3> QED BY <1>2, <1>3, <3>2
  <2> QED BY <2>1, <2>2 DEF OfferedInOrder
<1> QED BY <1>1, <1>3, <1>4, <1>5 DEF RankedOrInv

(* A pass offers cur_doc with its full score, and moves every enumerator   *)
(* that is on it to the first document behind it.                          *)
LEMMA ScoreDocumentStep ==
  ASSUME RankedOrInv, RankedOr!ScoreDocument
  PROVE  /\ RankedOrInv' /\ Topk!Next
         /\ \E t \in Lists : docid'[t] > docid[t]
         /\ \A t \in Lists : docid'[t] >= docid[t]
<1> DEFINE hits == {t \in Lists : docid[t] = cur_doc}
<1>1. /\ query \in Queries /\ NumDocs \in Nat /\ cur_doc \in Docs
      /\ docid \in [Lists -> 0..NumDocs]
      /\ QueueInv /\ EnumsAtFirst /\ OfferedInOrder /\ pc = "search"
  BY QueryAssumption, RankedOrMeans DEF RankedOrInv, QueueInv, QueryTypeOK, Docs
<1>2. /\ UNCHANGED <<query, pc>>
      /\ docid' = [t \in Lists |-> IF t \in hits THEN NextDoc(t) ELSE docid[t]]
      /\ Topk!Insert(Entry(Score(hits, cur_doc), cur_doc))
      /\ cur_doc' = RankedOr!Least(docid')
  BY RankedOrMeans
<1>3. hits = Matching(cur_doc) /\ hits # {}
  <2>1. ASSUME NEW t \in Lists
        PROVE  docid[t] = cur_doc <=> cur_doc \in Postings(t)
    BY <1>1, <2>1 DEF EnumsAtFirst, Docs
  <2>2. hits = Matching(cur_doc)
    BY <2>1 DEF Matching
  <2> QED BY <1>1, <2>2 DEF EnumsAtFirst, Docs
<1>4. ASSUME NEW t \in Lists
      PROVE  /\ docid'[t] \in 0..NumDocs
             /\ docid'[t] = NumDocs \/ docid'[t] \in Postings(t)
             /\ cur_doc < docid'[t]
             /\ \A d \in Postings(t) : cur_doc < d => docid'[t] <= d
             /\ docid'[t] >= docid[t]
             /\ t \in hits => docid'[t] > docid[t]
  <2>1. CASE t \in hits
    <3>1. docid'[t] = FirstGeq(t, cur_doc + 1)
      BY <1>2, <2>1 DEF NextDoc
    <3>2. cur_doc + 1 \in Int /\ cur_doc + 1 <= NumDocs
      BY <1>1 DEF Docs
    <3>3. Postings(t) \subseteq Nat
      BY <1>1 DEF Postings, Docs
    <3> QED BY <1>1, <2>1, <3>1, <3>2, <3>3, FirstGeqLands DEF Docs
  <2>2. CASE t \notin hits
    <3>1. docid'[t] = docid[t] /\ docid[t] # cur_doc
      BY <1>2, <2>2
    <3>2. Postings(t) \subseteq Nat
      BY <1>1 DEF Postings, Docs
    <3> QED BY <1>1, <2>2, <3>1, <3>2 DEF EnumsAtFirst, Docs
  <2> QED BY <2>1, <2>2
<1>5. NotOffered(cur_doc)
  <2>1. Matching(cur_doc) # {} /\ ~(cur_doc < cur_doc)
    BY <1>1, <1>3 DEF Docs
  <2> QED BY <1>1, <2>1 DEF OfferedInOrder
<1>6. docid' \in [Lists -> 0..NumDocs]
  <2> HIDE DEF hits
  <2> QED BY <1>2, <1>4
<1> DEFINE s == Score(hits, cur_doc)
<1>7. s \in Scores /\ s = FullScore(cur_doc)
  BY <1>1, <1>3, ScoreIsScore DEF FullScore
<1> HIDE DEF s
<1>8. Topk!Insert(Entry(s, cur_doc))
  BY <1>2 DEF s
<1>9. /\ QueueInv' /\ offered' = offered \cup {Entry(s, cur_doc)} /\ Topk!Next
  BY <1>1, <1>2, <1>3, <1>5, <1>6, <1>7, <1>8, OfferStep
<1>10. /\ cur_doc' \in 0..NumDocs /\ cur_doc < cur_doc'
       /\ \A t \in Lists : cur_doc' <= docid'[t]
       /\ cur_doc' = NumDocs \/ \E t \in Lists : cur_doc' = docid'[t]
  <2>1. /\ cur_doc' \in 0..NumDocs
        /\ \A t \in Lists : cur_doc' <= docid'[t]
        /\ cur_doc' = NumDocs \/ \E t \in Lists : cur_doc' = docid'[t]
    BY <1>2, <1>4, LeastIsLeast
  <2> QED BY <1>1, <1>4, <2>1 DEF Docs
<1>11. Lists' = Lists /\ \A t : Postings(t)' = Postings(t)
  BY <1>2 DEF Lists, Postings
<1>12. EnumsAtFirst'
  <2>1. ASSUME NEW t \in Lists, NEW d \in Postings(t), cur_doc' <= d
        PROVE  docid'[t] <= d
    <3>1. cur_doc < d
      BY <1>1, <1>10, <2>1 DEF Postings, Docs
    <3> QED BY <1>4, <3>1
  <2> QED BY <1>4, <1>10, <1>11, <2>1 DEF EnumsAtFirst
<1>13. OfferedInOrder'
  <2>1. SUFFICES ASSUME NEW d \in Docs, Matching(d) # {}
                 PROVE  d < cur_doc' <=> ~NotOffered(d)'
    BY <1>2, SameQuery DEF OfferedInOrder
  <2>2. ~NotOffered(d)' <=> ~NotOffered(d) \/ d = cur_doc
    <3>1. Entry(s, cur_doc).doc = cur_doc
      BY DEF Entry
    <3> QED BY <1>9, <3>1 DEF NotOffered
  <2>3. PICK t \in Lists : d \in Postings(t)
    BY <2>1 DEF Matching
  <2>4. cur_doc < d => ~(d < cur_doc')
    BY <1>1, <1>4, <1>10, <2>3 DEF Docs
  <2>5. d < cur_doc <=> ~NotOffered(d)
    BY <1>1, <2>1 DEF OfferedInOrder
  <2> QED BY <1>1, <1>10, <2>2, <2>4, <2>5 DEF Docs
<1>14. RankedOrInv'
  BY <1>9, <1>10, <1>12, <1>13 DEF RankedOrInv
<1> QED BY <1>3, <1>4, <1>9, <1>14

LEMMA FinishStep ==
  ASSUME RankedOrInv, RankedOr!Finish
  PROVE  RankedOrInv' /\ Topk!Next
<1>1. /\ NumDocs \in Nat /\ cur_doc = NumDocs /\ QueueInv /\ OfferedInOrder
      /\ pc = "search" /\ Return /\ cur_doc' = cur_doc
  BY QueryAssumption, RankedOrMeans DEF RankedOrInv
<1>2. NothingLeft
  BY <1>1 DEF OfferedInOrder, NothingLeft, Docs
<1>3. QueueInv' /\ Topk!Next
  BY <1>1, <1>2, ReturnStep
<1> QED BY <1>1, <1>3 DEF RankedOrInv, Return

LEMMA RankedOrKeeps ==
  ASSUME RankedOrInv, [RankedOr!Next]_(RankedOr!vars)
  PROVE  RankedOrInv' /\ [Topk!Next]_(Topk!vars)
<1>1. CASE UNCHANGED RankedOr!vars
  <2>1. /\ UNCHANGED <<query, pc, m_q, threshold, offered, sorted>>
        /\ docid' = docid /\ cur_doc' = cur_doc
    BY <1>1 DEF RankedOr!vars
  <2>2. docid' \in [Lists -> 0..NumDocs]
    BY <2>1 DEF RankedOrInv, QueueInv, QueryTypeOK
  <2>3. QueueInv'
    BY <2>1, <2>2, QuietStep DEF RankedOrInv
  <2>4. EnumsAtFirst' <=> EnumsAtFirst
    BY <2>1 DEF EnumsAtFirst, Lists, Postings
  <2>5. OfferedInOrder' <=> OfferedInOrder
    BY <2>1, SameQuery DEF OfferedInOrder, NotOffered
  <2>6. UNCHANGED Topk!vars
    BY <2>1 DEF Topk!vars
  <2> QED BY <2>1, <2>3, <2>4, <2>5, <2>6 DEF RankedOrInv
<1> QED BY <1>1, ScoreDocumentStep, FinishStep, RankedOrMeans

LEMMA RankedOrImplied ==
  ASSUME RankedOrInv
  PROVE  RankedOr!TypeOK /\ AnswerIsExhaustive /\ QueueScoresAreFull /\ SkippedIsHopeless
<1>1. RankedOr!TypeOK /\ AnswerIsExhaustive /\ QueueScoresAreFull
  BY RankedOrMeans DEF RankedOrInv, QueueInv
<1>2. SUFFICES ASSUME pc = "search", NEW d \in Docs, NotOffered(d),
                      NEW t \in Matching(d), docid[t] > d
               PROVE  FALSE
  BY <1>1 DEF SkippedIsHopeless
<1>3. /\ t \in Lists /\ d \in Postings(t) /\ Matching(d) # {}
      /\ d \in Int /\ cur_doc \in Int /\ docid[t] \in Int
  BY DEF Matching, RankedOrInv, QueueInv, QueryTypeOK, Docs
<1>4. ~(cur_doc <= d)
  BY <1>2, <1>3 DEF RankedOrInv, EnumsAtFirst
<1> QED BY <1>2, <1>3, <1>4 DEF RankedOrInv, OfferedInOrder
-----------------------------------------------------------------------------
(***************************************************************************)
(* The definitions of an algorithm reach this module twice, by INSTANCE of *)
(* its module and by INSTANCE of its proofs, under two names that the      *)
(* provers keep apart.  The first lemmas say that the names mean the same. *)
(***************************************************************************)
LEMMA WandSame ==
  /\ Wand!Init <=> WP!Init
  /\ Wand!Next <=> WP!Next
  /\ Wand!TypeOK <=> WP!TypeOK
  /\ Wand!ListsInOrder <=> WP!ListsInOrder
<1>1. Wand!Init <=> WP!Init
  BY DEF
    Wand!Bijection, Wand!Docs, Wand!FirstGeq, Wand!Init, Wand!Injection,
    Wand!IsInjective, Wand!Lists, Wand!Postings, Wand!QueryInit, Wand!SortedBy,
    Wand!Surjection, WP!Bijection, WP!Docs, WP!FirstGeq, WP!Init, WP!Injection,
    WP!IsInjective, WP!Lists, WP!Postings, WP!QueryInit, WP!SortedBy,
    WP!Surjection
<1>2. Wand!Next <=> WP!Next
  <2>1. Wand!Pivot = WP!Pivot
    <3> DEFINE first(S) == IF S = {} THEN 0 ELSE CHOOSE i \in S : \A j \in S : i <= j
    <3>1. Wand!PivotCandidates = WP!PivotCandidates
      BY DEF
    Wand!At, Wand!Docs, Wand!FoldFunctionOnSet, Wand!Greatest, Wand!ListBound,
    Wand!Lists, Wand!MapThenFoldSet, Wand!MaxDocumentWeight,
    Wand!MaxTermWeight, Wand!PivotCandidates, Wand!Postings,
    Wand!SumFunctionOnSet, Wand!Topk!WouldEnter, Wand!UpTo, WP!At, WP!Docs,
    WP!FoldFunctionOnSet, WP!Greatest, WP!ListBound, WP!Lists,
    WP!MapThenFoldSet, WP!MaxDocumentWeight, WP!MaxTermWeight,
    WP!PivotCandidates, WP!Postings, WP!SumFunctionOnSet, WP!Topk!WouldEnter,
    WP!UpTo
    <3>2. Wand!Pivot = first(Wand!PivotCandidates) /\ WP!Pivot = first(WP!PivotCandidates)
      BY DEF Wand!Pivot, WP!Pivot
    <3> HIDE DEF first
    <3> QED BY <3>1, <3>2
  <2>2. \A p : Wand!ScorePivot(p) <=> WP!ScorePivot(p)
    BY DEF
    Wand!At, Wand!Bijection, Wand!Docs, Wand!Entry, Wand!FirstGeq,
    Wand!FoldFunctionOnSet, Wand!Injection, Wand!IsInjective, Wand!Lists,
    Wand!MapThenFoldSet, Wand!NextDoc, Wand!Part, Wand!Postings, Wand!Score,
    Wand!ScoreOf, Wand!ScorePivot, Wand!SortedBy, Wand!SumFunctionOnSet,
    Wand!Surjection, Wand!Topk!Insert, Wand!Topk!InsertPush,
    Wand!Topk!InsertReject, Wand!Topk!InsertReplace, Wand!Topk!IsFront,
    Wand!Topk!NewThreshold, WP!At, WP!Bijection, WP!Docs, WP!Entry,
    WP!FirstGeq, WP!FoldFunctionOnSet, WP!Injection, WP!IsInjective, WP!Lists,
    WP!MapThenFoldSet, WP!NextDoc, WP!Part, WP!Postings, WP!Score, WP!ScoreOf,
    WP!ScorePivot, WP!SortedBy, WP!SumFunctionOnSet, WP!Surjection,
    WP!Topk!Insert, WP!Topk!InsertPush, WP!Topk!InsertReject,
    WP!Topk!InsertReplace, WP!Topk!IsFront, WP!Topk!NewThreshold
  <2>3. \A p : Wand!AdvanceToPivot(p) <=> WP!AdvanceToPivot(p)
    BY DEF
    Wand!AdvanceToPivot, Wand!At, Wand!BubbleDown, Wand!Docs, Wand!FirstGeq,
    Wand!Greatest, Wand!Kinds, Wand!Lists, Wand!NextGeq, Wand!Postings,
    Wand!topk, WP!AdvanceToPivot, WP!At, WP!BubbleDown, WP!Docs, WP!FirstGeq,
    WP!Greatest, WP!Kinds, WP!Lists, WP!NextGeq, WP!Postings, WP!topk
  <2>4. Wand!Return <=> WP!Return
    BY DEF
    Wand!Return, Wand!Topk!Bijection, Wand!Topk!Finalize, Wand!Topk!Injection,
    Wand!Topk!IsInjective, Wand!Topk!Surjection, WP!Return, WP!Topk!Bijection,
    WP!Topk!Finalize, WP!Topk!Injection, WP!Topk!IsInjective,
    WP!Topk!Surjection
  <2> QED BY <2>1, <2>2, <2>3, <2>4
          DEF Wand!Next, WP!Next, Wand!Pass, WP!Pass, Wand!Finish, WP!Finish
<1>3. /\ Wand!TypeOK <=> WP!TypeOK
      /\ Wand!ListsInOrder <=> WP!ListsInOrder
  BY DEF
    Wand!At, Wand!Docs, Wand!IsInjective, Wand!Lists, Wand!ListsInOrder,
    Wand!QueryTypeOK, Wand!Topk!Entries, Wand!Topk!TypeOK, Wand!TypeOK, WP!At,
    WP!Docs, WP!IsInjective, WP!Lists, WP!ListsInOrder, WP!QueryTypeOK,
    WP!Topk!Entries, WP!Topk!TypeOK, WP!TypeOK
<1> QED BY <1>1, <1>2, <1>3

LEMMA WandShared ==
  /\ Docs = WP!Docs
  /\ \A q, L, d : ScoreOf(q, L, d) = WP!ScoreOf(q, L, d)
  /\ AnswerIsExhaustive <=> WP!AnswerIsExhaustive
  /\ QueueScoresAreFull <=> WP!QueueScoresAreFull
  /\ SkippedIsHopeless <=> WP!SkippedIsHopeless
  /\ Lists = WP!Lists
  /\ Topk!Init <=> WP!Topk!Init
  /\ Topk!Next <=> WP!Topk!Next
  /\ UNCHANGED Topk!vars <=> UNCHANGED WP!Topk!vars
<1>1. /\ Docs = WP!Docs /\ Lists = WP!Lists
      /\ \A q, L, d : ScoreOf(q, L, d) = WP!ScoreOf(q, L, d)
  BY DEF
    Docs, FoldFunctionOnSet, Lists, MapThenFoldSet, Part, ScoreOf,
    SumFunctionOnSet, WP!Docs, WP!FoldFunctionOnSet, WP!Lists,
    WP!MapThenFoldSet, WP!Part, WP!ScoreOf, WP!SumFunctionOnSet
<1>2. /\ AnswerIsExhaustive <=> WP!AnswerIsExhaustive
      /\ QueueScoresAreFull <=> WP!QueueScoresAreFull
  BY DEF
    AnswerIsExhaustive, Docs, FoldFunctionOnSet, FullScore, Lists,
    MapThenFoldSet, Matching, Part, Postings, QueueScoresAreFull, Score,
    ScoreOf, SumFunctionOnSet, WP!AnswerIsExhaustive, WP!Docs,
    WP!FoldFunctionOnSet, WP!FullScore, WP!Lists, WP!MapThenFoldSet,
    WP!Matching, WP!Part, WP!Postings, WP!QueueScoresAreFull, WP!Score,
    WP!ScoreOf, WP!SumFunctionOnSet
<1>3. SkippedIsHopeless <=> WP!SkippedIsHopeless
  BY DEF
    Docs, FoldFunctionOnSet, FullScore, Lists, MapThenFoldSet, Matching,
    NotOffered, Part, Postings, Score, ScoreOf, SkippedIsHopeless,
    SumFunctionOnSet, Topk!WouldEnter, WP!Docs, WP!FoldFunctionOnSet,
    WP!FullScore, WP!Lists, WP!MapThenFoldSet, WP!Matching, WP!NotOffered,
    WP!Part, WP!Postings, WP!Score, WP!ScoreOf, WP!SkippedIsHopeless,
    WP!SumFunctionOnSet, WP!Topk!WouldEnter
<1>4. /\ Topk!Init <=> WP!Topk!Init
      /\ Topk!Next <=> WP!Topk!Next
      /\ UNCHANGED Topk!vars <=> UNCHANGED WP!Topk!vars
  BY DEF
    Docs, Topk!Bijection, Topk!Clear, Topk!Entries, Topk!Finalize, Topk!Init,
    Topk!Injection, Topk!Insert, Topk!InsertPush, Topk!InsertReject,
    Topk!InsertReplace, Topk!IsFront, Topk!IsInjective, Topk!NewThreshold,
    Topk!Next, Topk!Offer, Topk!Surjection, Topk!vars, WP!Docs,
    WP!Topk!Bijection, WP!Topk!Clear, WP!Topk!Entries, WP!Topk!Finalize,
    WP!Topk!Init, WP!Topk!Injection, WP!Topk!Insert, WP!Topk!InsertPush,
    WP!Topk!InsertReject, WP!Topk!InsertReplace, WP!Topk!IsFront,
    WP!Topk!IsInjective, WP!Topk!NewThreshold, WP!Topk!Next, WP!Topk!Offer,
    WP!Topk!Surjection, WP!Topk!vars
<1> QED BY <1>1, <1>2, <1>3, <1>4

LEMMA MaxScoreSame ==
  /\ MaxScore!Init <=> MP!Init
  /\ MaxScore!Next <=> MP!Next
  /\ MaxScore!TypeOK <=> MP!TypeOK
  /\ MaxScore!NonEssentialIsHopeless <=> MP!NonEssentialIsHopeless
  /\ MaxScore!PassedOverIsHopeless <=> MP!PassedOverIsHopeless
<1>1. MaxScore!Init <=> MP!Init
  BY DEF
    MaxScore!Bijection, MaxScore!Docs, MaxScore!FirstGeq, MaxScore!Greatest,
    MaxScore!Init, MaxScore!Injection, MaxScore!IsInjective, MaxScore!Least,
    MaxScore!Lists, MaxScore!MaxTermWeight, MaxScore!Postings,
    MaxScore!QueryInit, MaxScore!SortedBy, MaxScore!Surjection, MP!Bijection,
    MP!Docs, MP!FirstGeq, MP!Greatest, MP!Init, MP!Injection, MP!IsInjective,
    MP!Least, MP!Lists, MP!MaxTermWeight, MP!Postings, MP!QueryInit,
    MP!SortedBy, MP!Surjection
<1>2. MaxScore!Next <=> MP!Next
  <2>1. /\ Lists = MaxScore!Lists /\ Lists = MP!Lists
        /\ MaxScore!Kinds = MP!Kinds /\ MaxScore!Hits = MP!Hits
        /\ MaxScore!Essential = MP!Essential
    BY DEF
    MaxScore!Essential, MaxScore!Hits, MaxScore!Kinds, MaxScore!Lists,
    MaxScore!UpTo, MP!Essential, MP!Hits, MP!Kinds, MP!Lists, MP!UpTo, Lists
  <2>2. \A L, at : MaxScore!Least(L, at) = MP!Least(L, at)
    BY DEF
    MaxScore!Least, MP!Least
  <2>3. /\ \A t : MaxScore!NextDoc(t) = MP!NextDoc(t)
        /\ \A kind, t, d : MaxScore!NextGeq(kind, t, d) = MP!NextGeq(kind, t, d)
    BY DEF
    MaxScore!Docs, MaxScore!FirstGeq, MaxScore!NextDoc, MaxScore!NextGeq,
    MaxScore!Postings, MP!Docs, MP!FirstGeq, MP!NextDoc, MP!NextGeq,
    MP!Postings
  <2>4. \A kind, i : MaxScore!ScoreFrom(kind, i) = MP!ScoreFrom(kind, i)
    BY DEF
    MaxScore!Docs, MaxScore!Essential, MaxScore!FirstGeq,
    MaxScore!FoldFunctionOnSet, MaxScore!Hits, MaxScore!Lists,
    MaxScore!MapThenFoldSet, MaxScore!NextGeq, MaxScore!Part,
    MaxScore!Postings, MaxScore!Score, MaxScore!ScoreFrom, MaxScore!ScoreOf,
    MaxScore!SumFunctionOnSet, MaxScore!UpTo, MP!Docs, MP!Essential,
    MP!FirstGeq, MP!FoldFunctionOnSet, MP!Hits, MP!Lists, MP!MapThenFoldSet,
    MP!NextGeq, MP!Part, MP!Postings, MP!Score, MP!ScoreFrom, MP!ScoreOf,
    MP!SumFunctionOnSet, MP!UpTo
  <2>5. \A kind : MaxScore!StopsAt(kind) = MP!StopsAt(kind)
    BY DEF
    MaxScore!Docs, MaxScore!Essential, MaxScore!FirstGeq,
    MaxScore!FoldFunctionOnSet, MaxScore!Greatest, MaxScore!Hits,
    MaxScore!Lists, MaxScore!MapThenFoldSet, MaxScore!MaxTermWeight,
    MaxScore!NextGeq, MaxScore!Part, MaxScore!Postings, MaxScore!Score,
    MaxScore!ScoreFrom, MaxScore!ScoreOf, MaxScore!StopsAt,
    MaxScore!SumFunctionOnSet, MaxScore!Topk!WouldEnter, MaxScore!UpTo,
    MaxScore!UpperBound, MP!Docs, MP!Essential, MP!FirstGeq,
    MP!FoldFunctionOnSet, MP!Greatest, MP!Hits, MP!Lists, MP!MapThenFoldSet,
    MP!MaxTermWeight, MP!NextGeq, MP!Part, MP!Postings, MP!Score, MP!ScoreFrom,
    MP!ScoreOf, MP!StopsAt, MP!SumFunctionOnSet, MP!Topk!WouldEnter, MP!UpTo,
    MP!UpperBound
  <2>6. MaxScore!GrowNonEssential <=> MP!GrowNonEssential
    BY DEF
    MaxScore!DocWeightBound, MaxScore!Docs, MaxScore!FoldFunctionOnSet,
    MaxScore!Greatest, MaxScore!GrowNonEssential, MaxScore!Lists,
    MaxScore!MapThenFoldSet, MaxScore!MaxDocumentWeight,
    MaxScore!MaxTermWeight, MaxScore!Postings, MaxScore!SumFunctionOnSet,
    MaxScore!Topk!WouldEnter, MaxScore!UpTo, MaxScore!UpperBound,
    MP!DocWeightBound, MP!Docs, MP!FoldFunctionOnSet, MP!Greatest,
    MP!GrowNonEssential, MP!Lists, MP!MapThenFoldSet, MP!MaxDocumentWeight,
    MP!MaxTermWeight, MP!Postings, MP!SumFunctionOnSet, MP!Topk!WouldEnter,
    MP!UpTo, MP!UpperBound
  <2>7. /\ \A e : MaxScore!Topk!Insert(e) <=> MP!Topk!Insert(e)
        /\ \A r : MaxScore!Topk!WouldEnter(r) <=> MP!Topk!WouldEnter(r)
        /\ \A r, d : MaxScore!Entry(r, d) = MP!Entry(r, d)
    BY DEF
    MaxScore!Entry, MaxScore!Topk!Insert, MaxScore!Topk!InsertPush,
    MaxScore!Topk!InsertReject, MaxScore!Topk!InsertReplace,
    MaxScore!Topk!IsFront, MaxScore!Topk!NewThreshold,
    MaxScore!Topk!WouldEnter, MP!Entry, MP!Topk!Insert, MP!Topk!InsertPush,
    MP!Topk!InsertReject, MP!Topk!InsertReplace, MP!Topk!IsFront,
    MP!Topk!NewThreshold, MP!Topk!WouldEnter
  <2>8. MaxScore!Pass <=> MP!Pass
    BY <2>1, <2>2, <2>3, <2>4, <2>5, <2>6, <2>7 DEF MaxScore!Pass, MP!Pass
  <2>9. MaxScore!Finish <=> MP!Finish
    BY DEF
    MaxScore!Finish, MaxScore!Return, MaxScore!Topk!Bijection,
    MaxScore!Topk!Finalize, MaxScore!Topk!Injection, MaxScore!Topk!IsInjective,
    MaxScore!Topk!Surjection, MP!Finish, MP!Return, MP!Topk!Bijection,
    MP!Topk!Finalize, MP!Topk!Injection, MP!Topk!IsInjective,
    MP!Topk!Surjection
  <2> QED BY <2>8, <2>9 DEF MaxScore!Next, MP!Next
<1>3. MaxScore!TypeOK <=> MP!TypeOK
  BY DEF
    MaxScore!Docs, MaxScore!IsInjective, MaxScore!Lists, MaxScore!QueryTypeOK,
    MaxScore!Topk!Entries, MaxScore!Topk!TypeOK, MaxScore!TypeOK, MP!Docs,
    MP!IsInjective, MP!Lists, MP!QueryTypeOK, MP!Topk!Entries, MP!Topk!TypeOK,
    MP!TypeOK
<1>4. /\ MaxScore!NonEssentialIsHopeless <=> MP!NonEssentialIsHopeless
      /\ MaxScore!PassedOverIsHopeless <=> MP!PassedOverIsHopeless
  BY DEF
    MaxScore!Docs, MaxScore!FoldFunctionOnSet, MaxScore!FullScore,
    MaxScore!Lists, MaxScore!MapThenFoldSet, MaxScore!Matching,
    MaxScore!NonEssentialIsHopeless, MaxScore!NotOffered, MaxScore!Part,
    MaxScore!PassedOverIsHopeless, MaxScore!Postings, MaxScore!Score,
    MaxScore!ScoreOf, MaxScore!SumFunctionOnSet, MaxScore!Topk!WouldEnter,
    MaxScore!UpTo, MP!Docs, MP!FoldFunctionOnSet, MP!FullScore, MP!Lists,
    MP!MapThenFoldSet, MP!Matching, MP!NonEssentialIsHopeless, MP!NotOffered,
    MP!Part, MP!PassedOverIsHopeless, MP!Postings, MP!Score, MP!ScoreOf,
    MP!SumFunctionOnSet, MP!Topk!WouldEnter, MP!UpTo
<1> QED BY <1>1, <1>2, <1>3, <1>4

LEMMA MaxScoreShared ==
  /\ Docs = MP!Docs
  /\ \A q, L, d : ScoreOf(q, L, d) = MP!ScoreOf(q, L, d)
  /\ AnswerIsExhaustive <=> MP!AnswerIsExhaustive
  /\ QueueScoresAreFull <=> MP!QueueScoresAreFull
  /\ SkippedIsHopeless <=> MP!SkippedIsHopeless
  /\ Topk!Init <=> MP!Topk!Init
  /\ Topk!Next <=> MP!Topk!Next
  /\ UNCHANGED Topk!vars <=> UNCHANGED MP!Topk!vars
<1>1. /\ Docs = MP!Docs
      /\ \A q, L, d : ScoreOf(q, L, d) = MP!ScoreOf(q, L, d)
  BY DEF
    Docs, FoldFunctionOnSet, MapThenFoldSet, Part, ScoreOf, SumFunctionOnSet,
    MP!Docs, MP!FoldFunctionOnSet, MP!MapThenFoldSet, MP!Part, MP!ScoreOf,
    MP!SumFunctionOnSet
<1>2. /\ AnswerIsExhaustive <=> MP!AnswerIsExhaustive
      /\ QueueScoresAreFull <=> MP!QueueScoresAreFull
  BY DEF
    AnswerIsExhaustive, Docs, FoldFunctionOnSet, FullScore, Lists,
    MapThenFoldSet, Matching, Part, Postings, QueueScoresAreFull, Score,
    ScoreOf, SumFunctionOnSet, MP!AnswerIsExhaustive, MP!Docs,
    MP!FoldFunctionOnSet, MP!FullScore, MP!Lists, MP!MapThenFoldSet,
    MP!Matching, MP!Part, MP!Postings, MP!QueueScoresAreFull, MP!Score,
    MP!ScoreOf, MP!SumFunctionOnSet
<1>3. SkippedIsHopeless <=> MP!SkippedIsHopeless
  BY DEF
    Docs, FoldFunctionOnSet, FullScore, Lists, MapThenFoldSet, Matching,
    NotOffered, Part, Postings, Score, ScoreOf, SkippedIsHopeless,
    SumFunctionOnSet, Topk!WouldEnter, MP!Docs, MP!FoldFunctionOnSet,
    MP!FullScore, MP!Lists, MP!MapThenFoldSet, MP!Matching, MP!NotOffered,
    MP!Part, MP!Postings, MP!Score, MP!ScoreOf, MP!SkippedIsHopeless,
    MP!SumFunctionOnSet, MP!Topk!WouldEnter
<1>4. /\ Topk!Init <=> MP!Topk!Init
      /\ Topk!Next <=> MP!Topk!Next
      /\ UNCHANGED Topk!vars <=> UNCHANGED MP!Topk!vars
  BY DEF
    Docs, Topk!Bijection, Topk!Clear, Topk!Entries, Topk!Finalize, Topk!Init,
    Topk!Injection, Topk!Insert, Topk!InsertPush, Topk!InsertReject,
    Topk!InsertReplace, Topk!IsFront, Topk!IsInjective, Topk!NewThreshold,
    Topk!Next, Topk!Offer, Topk!Surjection, Topk!vars, MP!Docs,
    MP!Topk!Bijection, MP!Topk!Clear, MP!Topk!Entries, MP!Topk!Finalize,
    MP!Topk!Init, MP!Topk!Injection, MP!Topk!Insert, MP!Topk!InsertPush,
    MP!Topk!InsertReject, MP!Topk!InsertReplace, MP!Topk!IsFront,
    MP!Topk!IsInjective, MP!Topk!NewThreshold, MP!Topk!Next, MP!Topk!Offer,
    MP!Topk!Surjection, MP!Topk!vars
<1> QED BY <1>1, <1>2, <1>3, <1>4

LEMMA BlockMaxWandShared ==
  /\ Docs = BP!Docs
  /\ \A q, L, d : ScoreOf(q, L, d) = BP!ScoreOf(q, L, d)
  /\ AnswerIsExhaustive <=> BP!AnswerIsExhaustive
  /\ QueueScoresAreFull <=> BP!QueueScoresAreFull
  /\ SkippedIsHopeless <=> BP!SkippedIsHopeless
  /\ Lists = BP!Lists
  /\ Topk!Init <=> BP!Topk!Init
  /\ Topk!Next <=> BP!Topk!Next
  /\ UNCHANGED Topk!vars <=> UNCHANGED BP!Topk!vars
<1>1. /\ Docs = BP!Docs /\ Lists = BP!Lists
      /\ \A q, L, d : ScoreOf(q, L, d) = BP!ScoreOf(q, L, d)
  BY DEF
    Docs, FoldFunctionOnSet, Lists, MapThenFoldSet, Part, ScoreOf,
    SumFunctionOnSet, BP!Docs, BP!FoldFunctionOnSet, BP!Lists,
    BP!MapThenFoldSet, BP!Part, BP!ScoreOf, BP!SumFunctionOnSet
<1>2. /\ AnswerIsExhaustive <=> BP!AnswerIsExhaustive
      /\ QueueScoresAreFull <=> BP!QueueScoresAreFull
  BY DEF
    AnswerIsExhaustive, Docs, FoldFunctionOnSet, FullScore, Lists,
    MapThenFoldSet, Matching, Part, Postings, QueueScoresAreFull, Score,
    ScoreOf, SumFunctionOnSet, BP!AnswerIsExhaustive, BP!Docs,
    BP!FoldFunctionOnSet, BP!FullScore, BP!Lists, BP!MapThenFoldSet,
    BP!Matching, BP!Part, BP!Postings, BP!QueueScoresAreFull, BP!Score,
    BP!ScoreOf, BP!SumFunctionOnSet
<1>3. SkippedIsHopeless <=> BP!SkippedIsHopeless
  BY DEF
    Docs, FoldFunctionOnSet, FullScore, Lists, MapThenFoldSet, Matching,
    NotOffered, Part, Postings, Score, ScoreOf, SkippedIsHopeless,
    SumFunctionOnSet, Topk!WouldEnter, BP!Docs, BP!FoldFunctionOnSet,
    BP!FullScore, BP!Lists, BP!MapThenFoldSet, BP!Matching, BP!NotOffered,
    BP!Part, BP!Postings, BP!Score, BP!ScoreOf, BP!SkippedIsHopeless,
    BP!SumFunctionOnSet, BP!Topk!WouldEnter
<1>4. /\ Topk!Init <=> BP!Topk!Init
      /\ Topk!Next <=> BP!Topk!Next
      /\ UNCHANGED Topk!vars <=> UNCHANGED BP!Topk!vars
  BY DEF
    Docs, Topk!Bijection, Topk!Clear, Topk!Entries, Topk!Finalize, Topk!Init,
    Topk!Injection, Topk!Insert, Topk!InsertPush, Topk!InsertReject,
    Topk!InsertReplace, Topk!IsFront, Topk!IsInjective, Topk!NewThreshold,
    Topk!Next, Topk!Offer, Topk!Surjection, Topk!vars, BP!Docs,
    BP!Topk!Bijection, BP!Topk!Clear, BP!Topk!Entries, BP!Topk!Finalize,
    BP!Topk!Init, BP!Topk!Injection, BP!Topk!Insert, BP!Topk!InsertPush,
    BP!Topk!InsertReject, BP!Topk!InsertReplace, BP!Topk!IsFront,
    BP!Topk!IsInjective, BP!Topk!NewThreshold, BP!Topk!Next, BP!Topk!Offer,
    BP!Topk!Surjection, BP!Topk!vars
<1> QED BY <1>1, <1>2, <1>3, <1>4

(* block_max_wand_query is too large to be compared in one step.           *)
LEMMA BlockOperatorsSame ==
  /\ \A p : BlockMaxWand!MovedBlocks(p) = BP!MovedBlocks(p)
  /\ \A p, at : BlockMaxWand!SkipTo(p, at) = BP!SkipTo(p, at)
  /\ \A i, S : BlockMaxWand!BubbleDown(i, S) = BP!BubbleDown(i, S)
  /\ \A kind, t, s : BlockMaxWand!NextGeq(kind, t, s) = BP!NextGeq(kind, t, s)
  /\ \A t : BlockMaxWand!NextDoc(t) = BP!NextDoc(t)
  /\ \A key : BlockMaxWand!SortedBy(key) = BP!SortedBy(key)
  /\ \A L, d : BlockMaxWand!Score(L, d) = BP!Score(L, d)
  /\ \A L, at : BlockMaxWand!BlockBound(L, at) = BP!BlockBound(L, at)
  /\ \A L : BlockMaxWand!StaticBound(L) = BP!StaticBound(L)
  /\ \A i : BlockMaxWand!UpTo(i) = BP!UpTo(i)
  /\ \A r : BlockMaxWand!Topk!WouldEnter(r) <=> BP!Topk!WouldEnter(r)
  /\ \A e : BlockMaxWand!Topk!Insert(e) <=> BP!Topk!Insert(e)
<1>1. \A p : BlockMaxWand!MovedBlocks(p) = BP!MovedBlocks(p)
  BY DEF
    BlockMaxWand!At, BlockMaxWand!BlockGeq, BlockMaxWand!Blocks,
    BlockMaxWand!Cuts, BlockMaxWand!Docs, BlockMaxWand!FirstGeq,
    BlockMaxWand!Greatest, BlockMaxWand!Lists, BlockMaxWand!MovedBlocks,
    BlockMaxWand!PastBlocks, BlockMaxWand!Postings, BlockMaxWand!UpTo, BP!At,
    BP!BlockGeq, BP!Blocks, BP!Cuts, BP!Docs, BP!FirstGeq, BP!Greatest,
    BP!Lists, BP!MovedBlocks, BP!PastBlocks, BP!Postings, BP!UpTo
<1>6. \A p, at : BlockMaxWand!SkipTo(p, at) = BP!SkipTo(p, at)
  BY DEF
    BlockMaxWand!At, BlockMaxWand!SkipTo, BlockMaxWand!UpTo, BP!At, BP!SkipTo,
    BP!UpTo
<1>2. /\ \A i, S : BlockMaxWand!BubbleDown(i, S) = BP!BubbleDown(i, S)
      /\ \A kind, t, s : BlockMaxWand!NextGeq(kind, t, s) = BP!NextGeq(kind, t, s)
      /\ \A t : BlockMaxWand!NextDoc(t) = BP!NextDoc(t)
      /\ \A key : BlockMaxWand!SortedBy(key) = BP!SortedBy(key)
  BY DEF
    BlockMaxWand!Bijection, BlockMaxWand!BubbleDown, BlockMaxWand!Docs,
    BlockMaxWand!FirstGeq, BlockMaxWand!Greatest, BlockMaxWand!Injection,
    BlockMaxWand!IsInjective, BlockMaxWand!Lists, BlockMaxWand!NextDoc,
    BlockMaxWand!NextGeq, BlockMaxWand!Postings, BlockMaxWand!SortedBy,
    BlockMaxWand!Surjection, BP!Bijection, BP!BubbleDown, BP!Docs, BP!FirstGeq,
    BP!Greatest, BP!Injection, BP!IsInjective, BP!Lists, BP!NextDoc,
    BP!NextGeq, BP!Postings, BP!SortedBy, BP!Surjection
<1>3. /\ \A L, d : BlockMaxWand!Score(L, d) = BP!Score(L, d)
      /\ \A L : BlockMaxWand!StaticBound(L) = BP!StaticBound(L)
      /\ \A i : BlockMaxWand!UpTo(i) = BP!UpTo(i)
  BY DEF
    BlockMaxWand!Docs, BlockMaxWand!FoldFunctionOnSet, BlockMaxWand!Greatest,
    BlockMaxWand!MapThenFoldSet, BlockMaxWand!MaxDocumentWeight,
    BlockMaxWand!Part, BlockMaxWand!Postings, BlockMaxWand!Score,
    BlockMaxWand!ScoreOf, BlockMaxWand!StaticBound,
    BlockMaxWand!SumFunctionOnSet, BlockMaxWand!UpTo, BP!Docs,
    BP!FoldFunctionOnSet, BP!Greatest, BP!MapThenFoldSet, BP!MaxDocumentWeight,
    BP!Part, BP!Postings, BP!Score, BP!ScoreOf, BP!StaticBound,
    BP!SumFunctionOnSet, BP!UpTo
<1>4. \A L, at : BlockMaxWand!BlockBound(L, at) = BP!BlockBound(L, at)
  BY DEF
    BlockMaxWand!BlockBound, BlockMaxWand!BlockScore, BlockMaxWand!Blocks,
    BlockMaxWand!Cuts, BlockMaxWand!Docs, BlockMaxWand!FirstGeq,
    BlockMaxWand!FoldFunctionOnSet, BlockMaxWand!Greatest,
    BlockMaxWand!InBlock, BlockMaxWand!Lists, BlockMaxWand!MapThenFoldSet,
    BlockMaxWand!PastBlocks, BlockMaxWand!Postings, BlockMaxWand!RoundUp,
    BlockMaxWand!SumFunctionOnSet, BP!BlockBound, BP!BlockScore, BP!Blocks,
    BP!Cuts, BP!Docs, BP!FirstGeq, BP!FoldFunctionOnSet, BP!Greatest,
    BP!InBlock, BP!Lists, BP!MapThenFoldSet, BP!PastBlocks, BP!Postings,
    BP!RoundUp, BP!SumFunctionOnSet
<1>5. /\ \A r : BlockMaxWand!Topk!WouldEnter(r) <=> BP!Topk!WouldEnter(r)
      /\ \A e : BlockMaxWand!Topk!Insert(e) <=> BP!Topk!Insert(e)
  BY DEF
    BlockMaxWand!Topk!Insert, BlockMaxWand!Topk!InsertPush,
    BlockMaxWand!Topk!InsertReject, BlockMaxWand!Topk!InsertReplace,
    BlockMaxWand!Topk!IsFront, BlockMaxWand!Topk!NewThreshold,
    BlockMaxWand!Topk!WouldEnter, BP!Topk!Insert, BP!Topk!InsertPush,
    BP!Topk!InsertReject, BP!Topk!InsertReplace, BP!Topk!IsFront,
    BP!Topk!NewThreshold, BP!Topk!WouldEnter
<1> QED BY <1>1, <1>2, <1>3, <1>4, <1>5, <1>6

LEMMA ScorePivotSame ==
  ASSUME NEW p
  PROVE  BlockMaxWand!ScorePivot(p) <=> BP!ScorePivot(p)
<1> DEFINE id == docid[ordered_enums[p]]
           UpTo(i) == {ordered_enums[j] : j \in 1..i}
           hits == {i \in Lists : \A j \in 1..i : docid[ordered_enums[j]] = id}
           hitLists == {ordered_enums[i] : i \in hits}
           stops(at) ==
             {i \in hits : ~BlockMaxWand!Topk!WouldEnter(
                              BlockMaxWand!BlockBound(UpTo(p) \ UpTo(i), at)
                              + BlockMaxWand!Score(UpTo(i), id))}
           stopsBP(at) ==
             {i \in hits : ~BP!Topk!WouldEnter(BP!BlockBound(UpTo(p) \ UpTo(i), at)
                                               + BP!Score(UpTo(i), id))}
           last(S) == IF S = {} THEN BlockMaxWand!Greatest(hits)
                      ELSE CHOOSE i \in S : \A j \in S : i <= j
           moved ==
             [t \in Lists |-> IF t \in hitLists THEN BlockMaxWand!NextDoc(t) ELSE docid[t]]
           movedBP ==
             [t \in Lists |-> IF t \in hitLists THEN BP!NextDoc(t) ELSE docid[t]]
<1>1. BlockMaxWand!ScorePivot(p) <=>
        LET scored == last(stops(BlockMaxWand!MovedBlocks(p))) IN
        /\ id = docid[ordered_enums[1]]
        /\ docid' = moved
        /\ BlockMaxWand!Topk!Insert(
             [score |-> BlockMaxWand!Score(UpTo(scored), id), doc |-> id])
        /\ ordered_enums' \in BlockMaxWand!SortedBy(docid')
  BY DEF BlockMaxWand!ScorePivot, BlockMaxWand!At, BlockMaxWand!UpTo,
         BlockMaxWand!Lists, Lists, BlockMaxWand!Entry
<1>2. BP!ScorePivot(p) <=>
        LET scored == last(stopsBP(BP!MovedBlocks(p))) IN
        /\ id = docid[ordered_enums[1]]
        /\ docid' = movedBP
        /\ BP!Topk!Insert([score |-> BP!Score(UpTo(scored), id), doc |-> id])
        /\ ordered_enums' \in BP!SortedBy(docid')
  BY DEF BP!ScorePivot, BP!At, BP!UpTo, BP!Lists, Lists, BP!Entry,
         BP!Greatest, BlockMaxWand!Greatest
<1>3. \A at : stops(at) = stopsBP(at)
  BY BlockOperatorsSame
<1>4. moved = movedBP
  BY BlockOperatorsSame
<1> HIDE DEF stops, stopsBP, last, moved, movedBP
<1> QED BY <1>1, <1>2, <1>3, <1>4, BlockOperatorsSame

LEMMA SkipBlockSame ==
  ASSUME NEW p
  PROVE  BlockMaxWand!SkipBlock(p) <=> BP!SkipBlock(p)
<1> DEFINE weight(j) == query.q_weight[ordered_enums[j]]
           largest == {j \in 1..p : \A h \in 1..p : weight(h) <= weight(j)}
           i == IF p \in largest THEN p
                ELSE CHOOSE j \in largest : \A h \in largest : j <= h
           t == ordered_enums[i]
<1>1. BlockMaxWand!SkipBlock(p) <=>
        LET end == BlockMaxWand!SkipTo(p, BlockMaxWand!MovedBlocks(p)) IN
        /\ \E kind \in Kinds : \E to \in {BlockMaxWand!NextGeq(kind, t, end)} :
             /\ docid' = [docid EXCEPT ![t] = to]
             /\ ordered_enums' = BlockMaxWand!BubbleDown(i, {u \in Lists : docid[u] < to})
        /\ UNCHANGED topk
  BY DEF BlockMaxWand!SkipBlock, BlockMaxWand!Lists, Lists, BlockMaxWand!Kinds, Kinds,
         BlockMaxWand!topk, topk
<1>2. BP!SkipBlock(p) <=>
        LET end == BP!SkipTo(p, BP!MovedBlocks(p)) IN
        /\ \E kind \in Kinds : \E to \in {BP!NextGeq(kind, t, end)} :
             /\ docid' = [docid EXCEPT ![t] = to]
             /\ ordered_enums' = BP!BubbleDown(i, {u \in Lists : docid[u] < to})
        /\ UNCHANGED topk
  BY DEF BP!SkipBlock, BP!Lists, Lists, BP!Kinds, Kinds, BP!topk, topk
<1> HIDE DEF t, i
<1> QED BY <1>1, <1>2, BlockOperatorsSame

LEMMA BlockMaxWandSame ==
  /\ BlockMaxWand!Init <=> BP!Init
  /\ BlockMaxWand!Next <=> BP!Next
  /\ BlockMaxWand!TypeOK <=> BP!TypeOK
  /\ BlockMaxWand!ListsInOrder <=> BP!ListsInOrder
  /\ BlockMaxWand!NoBlockLeftBehind <=> BP!NoBlockLeftBehind
<1>1. BlockMaxWand!Init <=> BP!Init
  BY DEF
    BlockMaxWand!Bijection, BlockMaxWand!Blocks, BlockMaxWand!Cuts,
    BlockMaxWand!Docs, BlockMaxWand!FirstBlock, BlockMaxWand!FirstGeq,
    BlockMaxWand!Greatest, BlockMaxWand!Init, BlockMaxWand!Injection,
    BlockMaxWand!IsInjective, BlockMaxWand!Lists, BlockMaxWand!Postings,
    BlockMaxWand!QueryInit, BlockMaxWand!SortedBy, BlockMaxWand!Surjection,
    BP!Bijection, BP!Blocks, BP!Cuts, BP!Docs, BP!FirstBlock, BP!FirstGeq,
    BP!Greatest, BP!Init, BP!Injection, BP!IsInjective, BP!Lists, BP!Postings,
    BP!QueryInit, BP!SortedBy, BP!Surjection
<1>2. BlockMaxWand!Next <=> BP!Next
  <2>1. BlockMaxWand!Pivot = BP!Pivot
    <3> DEFINE at(i) == docid[ordered_enums[i]]
               last(S) ==
                 IF S = {} THEN 0
                 ELSE LET first == CHOOSE i \in S : \A j \in S : i <= j
                      IN  BlockMaxWand!Greatest({i \in first .. query.lists :
                                                   \A j \in first..i : at(j) = at(first)})
    <3>1. BlockMaxWand!PivotCandidates = BP!PivotCandidates
      BY DEF
    BlockMaxWand!At, BlockMaxWand!Docs, BlockMaxWand!FoldFunctionOnSet,
    BlockMaxWand!Greatest, BlockMaxWand!ListBound, BlockMaxWand!Lists,
    BlockMaxWand!MapThenFoldSet, BlockMaxWand!MaxDocumentWeight,
    BlockMaxWand!MaxTermWeight, BlockMaxWand!PivotCandidates,
    BlockMaxWand!Postings, BlockMaxWand!SumFunctionOnSet,
    BlockMaxWand!Topk!WouldEnter, BlockMaxWand!UpTo, BP!At, BP!Docs,
    BP!FoldFunctionOnSet, BP!Greatest, BP!ListBound, BP!Lists,
    BP!MapThenFoldSet, BP!MaxDocumentWeight, BP!MaxTermWeight,
    BP!PivotCandidates, BP!Postings, BP!SumFunctionOnSet, BP!Topk!WouldEnter,
    BP!UpTo
    <3>2. /\ BlockMaxWand!Pivot = last(BlockMaxWand!PivotCandidates)
          /\ BP!Pivot = last(BP!PivotCandidates)
      BY DEF BlockMaxWand!Pivot, BlockMaxWand!At, BlockMaxWand!Greatest,
             BP!Pivot, BP!At, BP!Greatest
    <3> HIDE DEF last
    <3> QED BY <3>1, <3>2
  <2>2. BlockMaxWand!Finish <=> BP!Finish
    <3>1. BlockMaxWand!Return <=> BP!Return
      BY DEF
    BlockMaxWand!Return, BlockMaxWand!Topk!Bijection,
    BlockMaxWand!Topk!Finalize, BlockMaxWand!Topk!Injection,
    BlockMaxWand!Topk!IsInjective, BlockMaxWand!Topk!Surjection, BP!Return,
    BP!Topk!Bijection, BP!Topk!Finalize, BP!Topk!Injection,
    BP!Topk!IsInjective, BP!Topk!Surjection
    <3> QED BY <2>1, <3>1 DEF BlockMaxWand!Finish, BP!Finish
  <2>3. \A p : BlockMaxWand!Promising(p) <=> BP!Promising(p)
    BY BlockOperatorsSame DEF BlockMaxWand!Promising, BP!Promising
  <2>4. \A p : BlockMaxWand!AdvanceToPivot(p) <=> BP!AdvanceToPivot(p)
    BY DEF
    BlockMaxWand!AdvanceToPivot, BlockMaxWand!At, BlockMaxWand!BubbleDown,
    BlockMaxWand!Docs, BlockMaxWand!FirstGeq, BlockMaxWand!Greatest,
    BlockMaxWand!Kinds, BlockMaxWand!Lists, BlockMaxWand!NextGeq,
    BlockMaxWand!Postings, BlockMaxWand!topk, BP!AdvanceToPivot, BP!At,
    BP!BubbleDown, BP!Docs, BP!FirstGeq, BP!Greatest, BP!Kinds, BP!Lists,
    BP!NextGeq, BP!Postings, BP!topk
  <2>5. BlockMaxWand!Pass <=> BP!Pass
    BY <2>1, <2>3, <2>4, ScorePivotSame, SkipBlockSame, BlockOperatorsSame
       DEF BlockMaxWand!Pass, BP!Pass
  <2> QED BY <2>2, <2>5 DEF BlockMaxWand!Next, BP!Next
<1>3. BlockMaxWand!TypeOK <=> BP!TypeOK
  BY DEF
    BlockMaxWand!Blocks, BlockMaxWand!Cuts, BlockMaxWand!Docs,
    BlockMaxWand!FirstGeq, BlockMaxWand!Greatest, BlockMaxWand!IsInjective,
    BlockMaxWand!Lists, BlockMaxWand!PastBlocks, BlockMaxWand!Postings,
    BlockMaxWand!QueryTypeOK, BlockMaxWand!Topk!Entries,
    BlockMaxWand!Topk!TypeOK, BlockMaxWand!TypeOK, BP!Blocks, BP!Cuts, BP!Docs,
    BP!FirstGeq, BP!Greatest, BP!IsInjective, BP!Lists, BP!PastBlocks,
    BP!Postings, BP!QueryTypeOK, BP!Topk!Entries, BP!Topk!TypeOK, BP!TypeOK
<1>4. BlockMaxWand!ListsInOrder <=> BP!ListsInOrder
  BY DEF
    BlockMaxWand!At, BlockMaxWand!Lists, BlockMaxWand!ListsInOrder, BP!At,
    BP!Lists, BP!ListsInOrder
<1>5. BlockMaxWand!NoBlockLeftBehind <=> BP!NoBlockLeftBehind
  BY DEF
    BlockMaxWand!Blocks, BlockMaxWand!Cuts, BlockMaxWand!Docs,
    BlockMaxWand!FirstGeq, BlockMaxWand!FoldFunctionOnSet,
    BlockMaxWand!FullScore, BlockMaxWand!Greatest, BlockMaxWand!Lists,
    BlockMaxWand!MapThenFoldSet, BlockMaxWand!Matching,
    BlockMaxWand!NoBlockLeftBehind, BlockMaxWand!Part, BlockMaxWand!Postings,
    BlockMaxWand!Score, BlockMaxWand!ScoreOf, BlockMaxWand!SumFunctionOnSet,
    BlockMaxWand!Topk!WouldEnter, BP!Blocks, BP!Cuts, BP!Docs, BP!FirstGeq,
    BP!FoldFunctionOnSet, BP!FullScore, BP!Greatest, BP!Lists,
    BP!MapThenFoldSet, BP!Matching, BP!NoBlockLeftBehind, BP!Part, BP!Postings,
    BP!Score, BP!ScoreOf, BP!SumFunctionOnSet, BP!Topk!WouldEnter
<1> QED BY <1>1, <1>2, <1>3, <1>4, <1>5
-----------------------------------------------------------------------------
(***************************************************************************)
(* What the proofs of the other algorithms establish, taken over: their    *)
(* assumptions about the constants are the ones of this module.            *)
(***************************************************************************)
LEMMA WandProved ==
  ASSUME Storage = "raw"
  PROVE
  /\ WP!Init => WP!IndInv /\ WP!Topk!Init
  /\ WP!IndInv /\ [WP!Next]_(WP!vars) => WP!IndInv' /\ [WP!Topk!Next]_(WP!Topk!vars)
  /\ WP!IndInv /\ WP!Pass =>
       /\ \E t \in WP!Lists : docid'[t] > docid[t]
       /\ \A t \in WP!Lists : docid'[t] >= docid[t]
  /\ WP!IndInv => /\ WP!TypeOK /\ WP!AnswerIsExhaustive
                  /\ WP!QueueScoresAreFull /\ WP!SkippedIsHopeless
                  /\ WP!ListsInOrder
<1> USE QueryAssumption, ScoresAssumption, WandDataAssumption, WandShared
<1>1. WP!Init => WP!IndInv
  BY WP!InitInv
<1>2. WP!Init => WP!Topk!Init
  BY WP!InitQueue DEF WP!Init
<1>3. WP!IndInv /\ [WP!Next]_(WP!vars) => WP!IndInv' /\ [WP!Topk!Next]_(WP!Topk!vars)
  BY WP!StepInv
<1>4. WP!IndInv /\ WP!Pass =>
       /\ \E t \in WP!Lists : docid'[t] > docid[t]
       /\ \A t \in WP!Lists : docid'[t] >= docid[t]
  BY WP!PassStep
<1>5. WP!IndInv => /\ WP!TypeOK /\ WP!AnswerIsExhaustive
                   /\ WP!QueueScoresAreFull /\ WP!SkippedIsHopeless
                   /\ WP!ListsInOrder
  BY WP!Implied
<1> QED BY <1>1, <1>2, <1>3, <1>4, <1>5

LEMMA MaxScoreProved ==
  ASSUME Storage = "raw"
  PROVE
  /\ MP!Init => MP!IndInv /\ MP!Topk!Init
  /\ MP!IndInv /\ [MP!Next]_(MP!vars) => MP!IndInv' /\ [MP!Topk!Next]_(MP!Topk!vars)
  /\ MP!IndInv /\ MP!Pass =>
       cur_doc' > cur_doc
  /\ MP!IndInv => /\ MP!TypeOK /\ MP!AnswerIsExhaustive
                  /\ MP!QueueScoresAreFull /\ MP!SkippedIsHopeless
                  /\ MP!NonEssentialIsHopeless /\ MP!PassedOverIsHopeless
<1> USE QueryAssumption, ScoresAssumption, WandDataAssumption, MaxScoreShared
<1>1. MP!Init => MP!IndInv
  BY MP!InitInv
<1>2. MP!Init => MP!Topk!Init
  BY MP!InitQueue DEF MP!Init
<1>3. MP!IndInv /\ [MP!Next]_(MP!vars) => MP!IndInv' /\ [MP!Topk!Next]_(MP!Topk!vars)
  BY MP!StepInv
<1>4. MP!IndInv /\ MP!Pass =>
       cur_doc' > cur_doc
  BY MP!PassStep
<1>5. MP!IndInv => /\ MP!TypeOK /\ MP!AnswerIsExhaustive
                   /\ MP!QueueScoresAreFull /\ MP!SkippedIsHopeless
                   /\ MP!NonEssentialIsHopeless /\ MP!PassedOverIsHopeless
  BY MP!Implied
<1> QED BY <1>1, <1>2, <1>3, <1>4, <1>5

LEMMA BlockMaxWandProved ==
  ASSUME Storage = "raw"
  PROVE
  /\ BP!Init => BP!IndInv /\ BP!Topk!Init
  /\ BP!IndInv /\ [BP!Next]_(BP!vars) => BP!IndInv' /\ [BP!Topk!Next]_(BP!Topk!vars)
  /\ BP!IndInv /\ BP!Pass =>
       /\ \E t \in BP!Lists : docid'[t] > docid[t]
       /\ \A t \in BP!Lists : docid'[t] >= docid[t]
  /\ BP!IndInv => /\ BP!TypeOK /\ BP!AnswerIsExhaustive
                  /\ BP!QueueScoresAreFull /\ BP!SkippedIsHopeless
                  /\ BP!ListsInOrder /\ BP!NoBlockLeftBehind
<1> USE QueryAssumption, ScoresAssumption, WandDataAssumption, BlockMaxWandShared
<1>1. BP!Init => BP!IndInv
  BY BP!InitInv
<1>2. BP!Init => BP!Topk!Init
  BY BP!InitQueue DEF BP!Init
<1>3. BP!IndInv /\ [BP!Next]_(BP!vars) => BP!IndInv' /\ [BP!Topk!Next]_(BP!Topk!vars)
  BY BP!StepInv
<1>4. BP!IndInv /\ BP!Pass =>
       /\ \E t \in BP!Lists : docid'[t] > docid[t]
       /\ \A t \in BP!Lists : docid'[t] >= docid[t]
  BY BP!PassStep
<1>5. BP!IndInv => /\ BP!TypeOK /\ BP!AnswerIsExhaustive
                   /\ BP!QueueScoresAreFull /\ BP!SkippedIsHopeless
                   /\ BP!ListsInOrder /\ BP!NoBlockLeftBehind
  BY BP!Implied
<1> QED BY <1>1, <1>2, <1>3, <1>4, <1>5
-----------------------------------------------------------------------------
(***************************************************************************)
(* The inductive invariant: the one of the algorithm that answers.         *)
(***************************************************************************)
IndInv ==
    /\ query_type \in QueryTypes
    /\ query_type \in RankedOrTypes => RankedOrInv
    /\ query_type \in WandTypes => WP!IndInv
    /\ query_type \in MaxScoreTypes => MP!IndInv
    /\ query_type \in BlockMaxWandTypes => BP!IndInv

(* Every query type is one of the four algorithms, and of one only.        *)
LEMMA OneAlgorithm ==
  ASSUME NEW type \in QueryTypes
  PROVE  \/ /\ type \in RankedOrTypes
            /\ type \notin WandTypes \cup MaxScoreTypes \cup BlockMaxWandTypes
         \/ /\ type \in WandTypes
            /\ type \notin RankedOrTypes \cup MaxScoreTypes \cup BlockMaxWandTypes
         \/ /\ type \in MaxScoreTypes
            /\ type \notin RankedOrTypes \cup WandTypes \cup BlockMaxWandTypes
         \/ /\ type \in BlockMaxWandTypes
            /\ type \notin RankedOrTypes \cup WandTypes \cup MaxScoreTypes
BY QueryTypesAssumption
   DEF Plain, Weighted, RankedOrTypes, WandTypes, MaxScoreTypes, BlockMaxWandTypes

(* An enumerator moves ahead and none goes back.                           *)
AdvancesEnums ==
    /\ \E t \in Lists : docid'[t] > docid[t]
    /\ \A t \in Lists : docid'[t] >= docid[t]

LEMMA InitInv ==
  ASSUME Storage = "raw", Init
  PROVE  IndInv /\ Topk!Init
<1>1. query_type \in QueryTypes
  BY DEF Init
<1>2. CASE query_type \in RankedOrTypes
  <2>1. RankedOr!Init
    BY <1>1, <1>2, OneAlgorithm DEF Init
  <2>2. RankedOrInv /\ Topk!Init
    BY <2>1, RankedOrMeans, RankedOrInit, InitQueue
  <2> QED BY <1>1, <1>2, <2>2, OneAlgorithm DEF IndInv
<1>3. CASE query_type \in WandTypes
  <2>1. Wand!Init
    BY <1>1, <1>3, OneAlgorithm DEF Init
  <2> QED BY <1>1, <1>3, <2>1, OneAlgorithm, WandSame, WandShared, WandProved
          DEF IndInv
<1>4. CASE query_type \in MaxScoreTypes
  <2>1. MaxScore!Init
    BY <1>1, <1>4, OneAlgorithm DEF Init
  <2> QED BY <1>1, <1>4, <2>1, OneAlgorithm, MaxScoreSame, MaxScoreShared, MaxScoreProved
          DEF IndInv
<1>5. CASE query_type \in BlockMaxWandTypes
  <2>1. BlockMaxWand!Init
    BY <1>1, <1>5, OneAlgorithm DEF Init
  <2> QED BY <1>1, <1>5, <2>1, OneAlgorithm, BlockMaxWandSame, BlockMaxWandShared,
             BlockMaxWandProved DEF IndInv
<1> QED BY <1>1, <1>2, <1>3, <1>4, <1>5, OneAlgorithm

(* A step of an algorithm preserves its invariant, uses the queue as       *)
(* topk_queue may be used, and advances unless the query returns.          *)
LEMMA RankedOrStep ==
  ASSUME IndInv, query_type \in RankedOrTypes, query_type' = query_type, RankedOr!Next
  PROVE  /\ IndInv' /\ [Topk!Next]_(Topk!vars)
         /\ pc' = "search" => AdvancesEnums
<1>1. RankedOrInv
  BY DEF IndInv
<1>2. RankedOrInv' /\ [Topk!Next]_(Topk!vars)
  BY <1>1, RankedOrKeeps
<1>3. pc' = "search" => RankedOr!ScoreDocument
  BY RankedOrMeans DEF Return
<1>4. query_type \in QueryTypes
  BY DEF IndInv
<1>5. IndInv'
  BY <1>2, <1>4, OneAlgorithm DEF IndInv
<1> QED BY <1>1, <1>2, <1>3, <1>5, ScoreDocumentStep DEF AdvancesEnums

LEMMA WandStep ==
  ASSUME Storage = "raw", IndInv, query_type \in WandTypes, query_type' = query_type,
         Wand!Next
  PROVE  /\ IndInv' /\ [Topk!Next]_(Topk!vars)
         /\ pc' = "search" => AdvancesEnums
<1>1. WP!IndInv /\ WP!Next
  BY WandSame DEF IndInv
<1>2. WP!IndInv' /\ [WP!Topk!Next]_(WP!Topk!vars)
  BY <1>1, WandProved
<1>3. pc' = "search" => WP!Pass
  BY <1>1 DEF WP!Next, WP!Finish, WP!Return
<1>4. query_type \in QueryTypes
  BY DEF IndInv
<1>5. IndInv'
  BY <1>2, <1>4, OneAlgorithm DEF IndInv
<1> QED BY <1>1, <1>2, <1>3, <1>5, WandShared, WandProved DEF AdvancesEnums

LEMMA MaxScoreStep ==
  ASSUME Storage = "raw", IndInv, query_type \in MaxScoreTypes, query_type' = query_type,
         MaxScore!Next
  PROVE  /\ IndInv' /\ [Topk!Next]_(Topk!vars)
         /\ pc' = "search" => cur_doc' > cur_doc
<1>1. MP!IndInv /\ MP!Next
  BY MaxScoreSame DEF IndInv
<1>2. MP!IndInv' /\ [MP!Topk!Next]_(MP!Topk!vars)
  BY <1>1, MaxScoreProved
<1>3. pc' = "search" => MP!Pass
  BY <1>1 DEF MP!Next, MP!Finish, MP!Return
<1>4. query_type \in QueryTypes
  BY DEF IndInv
<1>5. IndInv'
  BY <1>2, <1>4, OneAlgorithm DEF IndInv
<1> QED BY <1>1, <1>2, <1>3, <1>5, MaxScoreShared, MaxScoreProved

LEMMA BlockMaxWandStep ==
  ASSUME Storage = "raw", IndInv, query_type \in BlockMaxWandTypes, query_type' = query_type,
         BlockMaxWand!Next
  PROVE  /\ IndInv' /\ [Topk!Next]_(Topk!vars)
         /\ pc' = "search" => AdvancesEnums
<1>1. BP!IndInv /\ BP!Next
  BY BlockMaxWandSame DEF IndInv
<1>2. BP!IndInv' /\ [BP!Topk!Next]_(BP!Topk!vars)
  BY <1>1, BlockMaxWandProved
<1>3. pc' = "search" => BP!Pass
  BY <1>1 DEF BP!Next, BP!Finish, BP!Return
<1>4. query_type \in QueryTypes
  BY DEF IndInv
<1>5. IndInv'
  BY <1>2, <1>4, OneAlgorithm DEF IndInv
<1> QED BY <1>1, <1>2, <1>3, <1>5, BlockMaxWandShared, BlockMaxWandProved DEF AdvancesEnums

LEMMA StepInv ==
  ASSUME Storage = "raw", IndInv, [Next]_vars
  PROVE  /\ IndInv' /\ [Topk!Next]_(Topk!vars)
         /\ vars' # vars /\ pc' = "search" =>
              IF query_type \in MaxScoreTypes THEN cur_doc' > cur_doc
              ELSE AdvancesEnums
<1>1. CASE UNCHANGED vars
  <2>1. /\ UNCHANGED <<query, docid, m_q, threshold, offered, sorted, pc, query_type,
                        ordered_enums, block, non_essential_lists, cur_doc>>
    BY <1>1 DEF vars
  <2>2. query_type \in RankedOrTypes => RankedOrInv'
    BY <2>1, RankedOrKeeps DEF IndInv, RankedOr!vars
  <2>3. query_type \in WandTypes => WP!IndInv'
    BY <2>1, WandProved DEF IndInv, WP!vars
  <2>4. query_type \in MaxScoreTypes => MP!IndInv'
    BY <2>1, MaxScoreProved DEF IndInv, MP!vars
  <2>5. query_type \in BlockMaxWandTypes => BP!IndInv'
    BY <2>1, BlockMaxWandProved DEF IndInv, BP!vars
  <2>6. IndInv'
    BY <2>1, <2>2, <2>3, <2>4, <2>5 DEF IndInv
  <2> QED BY <1>1, <2>1, <2>6 DEF Topk!vars
<1>2. query_type \in QueryTypes
  BY DEF IndInv
<1>3. CASE AnswerRankedOr \/ AnswerWeightedRankedOr
  <2>1. query_type \in RankedOrTypes /\ query_type' = query_type /\ RankedOr!Next
    BY <1>3 DEF AnswerRankedOr, AnswerWeightedRankedOr, RankedOrTypes
  <2>2. query_type \notin MaxScoreTypes
    BY <1>2, <2>1, OneAlgorithm
  <2> QED BY <2>1, <2>2, RankedOrStep
<1>4. CASE AnswerWand \/ AnswerWeightedWand
  <2>1. query_type \in WandTypes /\ query_type' = query_type /\ Wand!Next
    BY <1>4 DEF AnswerWand, AnswerWeightedWand, WandTypes
  <2>2. query_type \notin MaxScoreTypes
    BY <1>2, <2>1, OneAlgorithm
  <2> QED BY <2>1, <2>2, WandStep
<1>5. CASE AnswerMaxScore \/ AnswerWeightedMaxScore
  <2>1. query_type \in MaxScoreTypes /\ query_type' = query_type /\ MaxScore!Next
    BY <1>5 DEF AnswerMaxScore, AnswerWeightedMaxScore, MaxScoreTypes
  <2>2. query_type \in MaxScoreTypes
    BY <1>2, <2>1, OneAlgorithm
  <2> QED BY <2>1, <2>2, MaxScoreStep
<1>6. CASE AnswerBlockMaxWand \/ AnswerWeightedBlockMaxWand
  <2>1. query_type \in BlockMaxWandTypes /\ query_type' = query_type /\ BlockMaxWand!Next
    BY <1>6 DEF AnswerBlockMaxWand, AnswerWeightedBlockMaxWand, BlockMaxWandTypes
  <2>2. query_type \notin MaxScoreTypes
    BY <1>2, <2>1, OneAlgorithm
  <2> QED BY <2>1, <2>2, BlockMaxWandStep
<1> QED BY <1>1, <1>3, <1>4, <1>5, <1>6 DEF Next

LEMMA Inductive ==
  ASSUME Storage = "raw"
  PROVE  Spec => []IndInv
BY InitInv, StepInv, PTL DEF Spec

LEMMA Implied ==
  ASSUME Storage = "raw", IndInv
  PROVE  /\ TypeOK /\ AnswerIsExhaustive /\ QueueScoresAreFull /\ SkippedIsHopeless
         /\ ListsInOrder /\ LeftOutIsHopeless /\ NoBlockLeftBehind
<1>1. query_type \in QueryTypes
  BY DEF IndInv
<1>2. CASE query_type \in RankedOrTypes
  <2>1. RankedOrInv
    BY <1>2 DEF IndInv
  <2>2. /\ RankedOr!TypeOK /\ AnswerIsExhaustive
        /\ QueueScoresAreFull /\ SkippedIsHopeless
    BY <2>1, RankedOrImplied
  <2>3. /\ query_type \in RankedOrTypes
        /\ query_type \notin WandTypes
        /\ query_type \notin MaxScoreTypes
        /\ query_type \notin BlockMaxWandTypes
    BY <1>1, <1>2, OneAlgorithm
  <2> QED BY <1>1, <2>2, <2>3
          DEF TypeOK, ListsInOrder, LeftOutIsHopeless, NoBlockLeftBehind
<1>3. CASE query_type \in WandTypes
  <2>1. WP!IndInv
    BY <1>3 DEF IndInv
  <2>2. /\ WP!TypeOK /\ WP!AnswerIsExhaustive
        /\ WP!QueueScoresAreFull /\ WP!SkippedIsHopeless
        /\ WP!ListsInOrder
    BY <2>1, WandProved
  <2>3. /\ query_type \in WandTypes
        /\ query_type \notin RankedOrTypes
        /\ query_type \notin MaxScoreTypes
        /\ query_type \notin BlockMaxWandTypes
    BY <1>1, <1>3, OneAlgorithm
  <2> QED BY <1>1, <2>2, <2>3, WandSame, WandShared
          DEF TypeOK, ListsInOrder, LeftOutIsHopeless, NoBlockLeftBehind
<1>4. CASE query_type \in MaxScoreTypes
  <2>1. MP!IndInv
    BY <1>4 DEF IndInv
  <2>2. /\ MP!TypeOK /\ MP!AnswerIsExhaustive
        /\ MP!QueueScoresAreFull /\ MP!SkippedIsHopeless
        /\ MP!NonEssentialIsHopeless /\ MP!PassedOverIsHopeless
    BY <2>1, MaxScoreProved
  <2>3. /\ query_type \in MaxScoreTypes
        /\ query_type \notin RankedOrTypes
        /\ query_type \notin WandTypes
        /\ query_type \notin BlockMaxWandTypes
    BY <1>1, <1>4, OneAlgorithm
  <2> QED BY <1>1, <2>2, <2>3, MaxScoreSame, MaxScoreShared
          DEF TypeOK, ListsInOrder, LeftOutIsHopeless, NoBlockLeftBehind
<1>5. CASE query_type \in BlockMaxWandTypes
  <2>1. BP!IndInv
    BY <1>5 DEF IndInv
  <2>2. /\ BP!TypeOK /\ BP!AnswerIsExhaustive
        /\ BP!QueueScoresAreFull /\ BP!SkippedIsHopeless
        /\ BP!ListsInOrder /\ BP!NoBlockLeftBehind
    BY <2>1, BlockMaxWandProved
  <2>3. /\ query_type \in BlockMaxWandTypes
        /\ query_type \notin RankedOrTypes
        /\ query_type \notin WandTypes
        /\ query_type \notin MaxScoreTypes
    BY <1>1, <1>5, OneAlgorithm
  <2> QED BY <1>1, <2>2, <2>3, BlockMaxWandSame, BlockMaxWandShared
          DEF TypeOK, ListsInOrder, LeftOutIsHopeless, NoBlockLeftBehind
<1> QED BY <1>1, <1>2, <1>3, <1>4, <1>5, OneAlgorithm
-----------------------------------------------------------------------------
(* ranked_or_query returns the k best documents of all that match, with    *)
(* their full scores, whatever the storage of the bounds: it reads none.   *)
THEOREM RankedOrIsExhaustive == RankedOr!Spec => []AnswerIsExhaustive
<1>1. RankedOr!Spec => []RankedOrInv
  BY RankedOrInit, RankedOrKeeps, PTL DEF RankedOr!Spec
<1> QED BY <1>1, RankedOrImplied, PTL

(* Every variable of the algorithm that answers keeps its type.            *)
THEOREM TypeCorrect ==
  ASSUME Storage = "raw"
  PROVE  Spec => []TypeOK
BY Inductive, Implied, PTL

(* Whatever algorithm answers a query, plain or weighted, it returns the k *)
(* best documents, as an evaluation of every posting would: the pruning of *)
(* wand_query, maxscore_query and block_max_wand_query is safe.            *)
THEOREM IsExhaustive ==
  ASSUME Storage = "raw"
  PROVE  Spec => []AnswerIsExhaustive
BY Inductive, Implied, PTL

(* No algorithm leaves a partial score in the queue, though maxscore_query *)
(* and block_max_wand_query offer scores they gave up half way.            *)
THEOREM ScoresAreFull ==
  ASSUME Storage = "raw"
  PROVE  Spec => []QueueScoresAreFull
BY Inductive, Implied, PTL

(* A document that some enumerator is past and that no step offered cannot *)
(* enter the queue any more.                                               *)
THEOREM SkippedStaysOut ==
  ASSUME Storage = "raw"
  PROVE  Spec => []SkippedIsHopeless
BY Inductive, Implied, PTL

(* wand_query and block_max_wand_query keep their lists in order though    *)
(* they only bubble down the one list they moved.                          *)
THEOREM OrderIsKept ==
  ASSUME Storage = "raw"
  PROVE  Spec => []ListsInOrder
BY Inductive, Implied, PTL

(* The lists that maxscore_query gave up on, and the documents it passed   *)
(* over, cannot change the answer.                                         *)
THEOREM LeftOutStaysOut ==
  ASSUME Storage = "raw"
  PROVE  Spec => []LeftOutIsHopeless
BY Inductive, Implied, PTL

(* The blocks that block_max_wand_query left hold nothing for the answer.  *)
THEOREM NothingLeftBehind ==
  ASSUME Storage = "raw"
  PROVE  Spec => []NoBlockLeftBehind
BY Inductive, Implied, PTL

(* No pass of a search loop leaves everything where it is.                 *)
THEOREM PassesAdvance ==
  ASSUME Storage = "raw"
  PROVE  Spec => EveryPassAdvances
<1>1. ASSUME IndInv, [Next]_vars
      PROVE  [pc' = "search" =>
                IF query_type \in MaxScoreTypes THEN cur_doc' > cur_doc
                ELSE /\ \E t \in Lists : docid'[t] > docid[t]
                     /\ \A t \in Lists : docid'[t] >= docid[t]]_vars
  BY <1>1, StepInv DEF AdvancesEnums
<1> QED BY <1>1, Inductive, PTL DEF Spec, EveryPassAdvances

(* The search of any algorithm is a legal use of topk_queue: every step of *)
(* it is an operation of the queue, or none.                               *)
THEOREM ImplementsQueue ==
  ASSUME Storage = "raw"
  PROVE  Spec => UsesQueueLegally
<1>1. Init => Topk!Init
  BY InitInv
<1> QED BY <1>1, Inductive, StepInv, PTL DEF Spec, UsesQueueLegally, Topk!Spec
=============================================================================
