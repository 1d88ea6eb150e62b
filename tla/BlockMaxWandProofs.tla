------------------------- MODULE BlockMaxWandProofs -------------------------
(***************************************************************************)
(* Proofs about BlockMaxWand, for every index, query, partition into       *)
(* blocks, queue size and ranker, over the raw wand_data: the blocks it    *)
(* skips by, and the scoring it gives up, cost no document its place.      *)
(***************************************************************************)
EXTENDS BlockMaxWand, QueryProofs

(* The block enumerator of every list is at one of its blocks.             *)
AtBlocks(at) == DOMAIN at = Lists /\ \A t \in Lists : at[t] \in Blocks(t)

IndInv ==
    /\ QueueInv
    /\ ordered_enums \in Bijection(Lists, Lists)
    /\ AtBlocks(block)
    /\ ListsInOrder
    /\ SkippedIsHopeless
    /\ NoBlockLeftBehind
    /\ pc = "search" => EnumsOnLists
-----------------------------------------------------------------------------
(* The blocks of a list.                                                   *)
LEMMA BlocksAre ==
  ASSUME query \in Queries, NEW t \in Lists
  PROVE  /\ Blocks(t) \in SUBSET Docs /\ IsFiniteSet(Blocks(t)) /\ Blocks(t) # {}
         /\ \A b \in Blocks(t) : b \in Nat /\ b < NumDocs /\ FirstGeq(t, 0) <= b
         /\ Greatest(Postings(t)) \in Blocks(t)
         /\ \A d \in Postings(t) : d <= Greatest(Postings(t))
         /\ \A b \in Blocks(t) : b <= Greatest(Postings(t))
<1> DEFINE g == Greatest(Postings(t))
           f == FirstGeq(t, 0)
<1>1. /\ NumDocs \in Nat /\ Postings(t) \subseteq Docs /\ Postings(t) # {}
      /\ \A d \in Docs : d \in Nat /\ d < NumDocs
  BY QueryAssumption, QueryFacts DEF Docs
<1>2. g \in Postings(t) /\ \A d \in Postings(t) : d <= g
  <2>1. IsFiniteSet(Postings(t)) /\ \A d \in Postings(t) : d \in Int
    BY <1>1, DocsAreFinite, FS_Subset
  <2> QED BY <1>1, <2>1, GreatestIs
<1>3. f \in Nat /\ f <= g
  BY <1>1, <1>2, FirstGeqLands
<1> HIDE DEF g, f
<1>4. Blocks(t) = {d - 1 : d \in Cuts(t)} \cup {g}
  BY DEF Blocks, g
<1>5. \A d \in Cuts(t) : d \in Postings(t) /\ d > f
  BY DEF Cuts, f
<1>6. \A b \in Blocks(t) : b \in Nat /\ b < NumDocs /\ f <= b /\ b <= g
  <2>1. \A d \in Cuts(t) : d - 1 \in Nat /\ d - 1 < NumDocs /\ f <= d - 1 /\ d - 1 <= g
    BY <1>1, <1>2, <1>3, <1>5
  <2> QED BY <1>1, <1>2, <1>3, <1>4, <2>1
<1>7. Blocks(t) \in SUBSET Docs
  BY <1>1, <1>6 DEF Docs
<1>8. IsFiniteSet(Blocks(t))
  BY <1>7, DocsAreFinite, FS_Subset
<1> QED BY <1>2, <1>4, <1>6, <1>7, <1>8 DEF f, g

LEMMA FirstBlockIs ==
  ASSUME query \in Queries, NEW t \in Lists
  PROVE  FirstBlock(t) \in Blocks(t) /\ \A c \in Blocks(t) : FirstBlock(t) <= c
<1>1. Blocks(t) \in SUBSET Nat /\ Blocks(t) # {}
  BY BlocksAre
<1>2. \E b \in Blocks(t) : \A c \in Blocks(t) : b <= c
  BY <1>1, LeastOf
<1> QED BY <1>2 DEF FirstBlock

(* The block enumerator moves to the first block that reaches bound.       *)
LEMMA BlockGeqIs ==
  ASSUME query \in Queries, Storage = "raw", NEW t \in Lists,
         NEW b \in Blocks(t), NEW bound \in Int
  PROVE  LET to == BlockGeq(t, b, bound) IN
         /\ to \in Blocks(t)
         /\ \A c \in Blocks(t) : c >= b /\ c >= bound => to <= c
         /\ \A d \in Postings(t) : d >= bound => to >= bound
<1> DEFINE ahead == {c \in Blocks(t) : c >= b /\ c >= bound}
           to == BlockGeq(t, b, bound)
<1>1. /\ Blocks(t) \in SUBSET Nat /\ IsFiniteSet(Blocks(t)) /\ Blocks(t) # {}
      /\ Greatest(Postings(t)) \in Blocks(t)
      /\ \A d \in Postings(t) : d <= Greatest(Postings(t)) /\ d \in Int
      /\ b <= Greatest(Postings(t))
  <2>1. Postings(t) \subseteq Int
    BY QueryFacts DEF Docs
  <2> QED BY <2>1, BlocksAre
<1>2. CASE ahead # {}
  <2>1. \E c \in ahead : \A a \in ahead : c <= a
    <3>1. ahead \in SUBSET Nat
      BY <1>1
    <3> HIDE DEF ahead
    <3> QED BY <1>2, <3>1, LeastOf
  <2>2. to = CHOOSE c \in ahead : \A a \in ahead : c <= a
    BY <1>2 DEF BlockGeq
  <2>3. to \in ahead /\ \A a \in ahead : to <= a
    <3> HIDE DEF ahead, to
    <3> QED BY <2>1, <2>2
  <2> HIDE DEF to
  <2> QED BY <2>3 DEF to
<1>3. CASE ahead = {}
  <2>1. to = Greatest(Blocks(t))
    BY <1>3 DEF BlockGeq
  <2>2. Greatest(Blocks(t)) \in Blocks(t)
    BY <1>1, GreatestIs
  <2>3. \A d \in Postings(t) : ~(d >= bound)
    <3>1. Greatest(Postings(t)) \in Int
      BY <1>1
    <3>2. ~(Greatest(Postings(t)) >= bound)
      BY <1>1, <1>3
    <3> QED BY <1>1, <3>1, <3>2
  <2>4. \A c \in Blocks(t) : ~(c >= b /\ c >= bound)
    BY <1>3
  <2> HIDE DEF to, ahead
  <2> QED BY <2>1, <2>2, <2>3, <2>4 DEF to
<1> QED BY <1>2, <1>3

(* No block is empty.                                                      *)
LEMMA BlockNotEmpty ==
  ASSUME query \in Queries, NEW t \in Lists, NEW b \in Blocks(t)
  PROVE  InBlock(t, b) # {}
<1> DEFINE P == {d \in Postings(t) : d <= b}
<1>1. /\ Postings(t) \in SUBSET Docs /\ Postings(t) # {} /\ NumDocs \in Nat
      /\ \A d \in Docs : d \in Nat
      /\ b \in Nat /\ FirstGeq(t, 0) <= b /\ b < NumDocs
      /\ \A c \in Blocks(t) : c \in Nat
  BY QueryAssumption, QueryFacts, BlocksAre DEF Docs
<1>2. P # {}
  <2>1. FirstGeq(t, 0) # NumDocs /\ FirstGeq(t, 0) \in 0..NumDocs
    BY <1>1, FirstGeqLands
  <2>2. FirstGeq(t, 0) \in Postings(t)
    BY <2>1, FirstGeqLands
  <2> QED BY <1>1, <2>2
<1>3. PICK m \in P : \A d \in P : d <= m
  <2>1. IsFiniteSet(P) /\ \A d \in P : d \in Int
    <3>1. P \in SUBSET Docs
      BY <1>1
    <3> HIDE DEF P
    <3> QED BY <1>1, <3>1, DocsAreFinite, FS_Subset
  <2> HIDE DEF P
  <2> QED BY <1>2, <2>1, GreatestIs
<1>4. m \in Postings(t) /\ m <= b /\ m \in Nat
  BY <1>1, <1>3
<1>5. ASSUME NEW c \in Blocks(t), c < b PROVE m > c
  <2>1. c # Greatest(Postings(t))
    <3>1. b <= Greatest(Postings(t))
      BY BlocksAre
    <3> QED BY <1>1, <1>5, <3>1
  <2>2. PICK d \in Cuts(t) : c = d - 1
    BY <2>1 DEF Blocks
  <2>3. d \in Postings(t) /\ d \in Nat
    BY <1>1 DEF Cuts
  <2>4. d \in P
    BY <1>1, <1>5, <2>2, <2>3
  <2> QED BY <1>3, <1>4, <2>2, <2>3, <2>4
<1> QED BY <1>4, <1>5 DEF InBlock

(* The score of a block bounds what its list adds to the score of every    *)
(* document of the block, and of every document the list does not have.    *)
LEMMA BlockScoreBounds ==
  ASSUME query \in Queries, Storage = "raw", NEW t \in Lists, NEW b \in Blocks(t)
  PROVE  /\ BlockScore(t, b) \in Nat
         /\ \A d \in Docs : d \in InBlock(t, b) \/ d \notin Postings(t)
              => Part(query, d)[t] <= BlockScore(t, b)
<1> DEFINE W == {query.term_weight[t][d] : d \in InBlock(t, b)}
<1>1. /\ query.q_weight[t] \in Nat
      /\ \A d \in Docs : query.term_weight[t][d] \in Nat
      /\ InBlock(t, b) \in SUBSET Docs /\ InBlock(t, b) # {}
      /\ b # PastBlocks
  <2>1. InBlock(t, b) \in SUBSET Docs
    BY QueryFacts DEF InBlock
  <2>2. b \in Nat /\ b < NumDocs /\ NumDocs \in Nat
    BY BlocksAre, QueryAssumption
  <2> QED BY <2>1, <2>2, QueryFacts, BlockNotEmpty DEF PastBlocks
<1>2. IsFiniteSet(W)
  <2>1. IsFiniteSet(InBlock(t, b))
    BY <1>1, DocsAreFinite, FS_Subset
  <2> DEFINE w == [d \in InBlock(t, b) |-> query.term_weight[t][d]]
  <2>2. W = {w[d] : d \in InBlock(t, b)}
    OBVIOUS
  <2> HIDE DEF w, W
  <2> QED BY <2>1, <2>2, ImageIsFinite
<1>3. W \subseteq Nat /\ W # {}
  BY <1>1
<1>4. Greatest(W) \in W /\ \A y \in W : y <= Greatest(W)
  <2>1. \A x \in W : x \in Int
    BY <1>3
  <2> HIDE DEF W
  <2> QED BY <1>2, <1>3, <2>1, GreatestIs
<1>5. BlockScore(t, b) = query.q_weight[t] * Greatest(W)
  BY <1>1 DEF BlockScore
<1>6. \A d \in InBlock(t, b) : query.term_weight[t][d] <= Greatest(W)
  BY <1>4
<1>7. Greatest(W) \in Nat
  <2> HIDE DEF W
  <2> QED BY <1>3, <1>4
<1> HIDE DEF W
<1>8. BlockScore(t, b) \in Nat
  BY <1>1, <1>5, <1>7, MultiplyNat
<1>9. ASSUME NEW d \in Docs, d \in InBlock(t, b)
      PROVE  Part(query, d)[t] <= BlockScore(t, b)
  <2>1. Part(query, d)[t] = query.q_weight[t] * query.term_weight[t][d]
    BY DEF Part, Lists
  <2>2. query.term_weight[t][d] \in Int /\ Greatest(W) \in Int
    BY <1>1, <1>7
  <2> QED BY <1>1, <1>5, <1>6, <1>9, <2>1, <2>2, Multiply
<1>10. ASSUME NEW d \in Docs, d \notin Postings(t)
       PROVE  Part(query, d)[t] <= BlockScore(t, b)
  <2>1. Part(query, d)[t] = 0
    BY <1>10, TermBound
  <2> QED BY <1>8, <2>1
<1> QED BY <1>8, <1>9, <1>10
-----------------------------------------------------------------------------
LEMMA InvFacts ==
  ASSUME IndInv
  PROVE  /\ query \in Queries /\ NumDocs \in Nat
         /\ docid \in [Lists -> 0..NumDocs]
         /\ \A t \in Lists : docid[t] \in Int
         /\ ordered_enums \in [Lists -> Lists]
         /\ \A t \in Lists : \E i \in Lists : ordered_enums[i] = t
         /\ \A i \in Lists : At(i) \in 0..NumDocs /\ At(i) \in Int
         /\ \A i, j \in Lists : pc = "search" /\ i <= j => At(i) <= At(j)
<1>1. /\ query \in Queries /\ NumDocs \in Nat
      /\ docid \in [Lists -> 0..NumDocs]
  BY QueryAssumption DEF IndInv, QueueInv, QueryTypeOK
<1>2. /\ ordered_enums \in [Lists -> Lists]
      /\ \A t \in Lists : \E i \in Lists : ordered_enums[i] = t
  BY BijectionMeans DEF IndInv
<1>3. \A i \in Lists : At(i) \in 0..NumDocs /\ At(i) \in Int
  BY <1>1, <1>2 DEF At
<1>4. ASSUME NEW i \in Lists, NEW j \in Lists, pc = "search", i <= j
      PROVE  At(i) <= At(j)
  <2>1. i = j \/ i < j
    BY <1>4 DEF Lists
  <2> QED BY <1>3, <1>4, <2>1 DEF IndInv, ListsInOrder
<1> QED BY <1>1, <1>2, <1>3, <1>4

(* A step keeps the query, and with it the lists and their blocks.         *)
LEMMA SameLists ==
  ASSUME query' = query
  PROVE  /\ Lists' = Lists
         /\ \A t : Postings(t)' = Postings(t)
         /\ \A t : Blocks(t)' = Blocks(t)
         /\ \A d : Matching(d)' = Matching(d)
         /\ \A d : FullScore(d)' = FullScore(d)
<1>1. \A t : Postings(t)' = Postings(t)
  BY DEF Postings
<1>2. \A t : Blocks(t)' = Blocks(t)
  BY <1>1 DEF Blocks, Cuts, FirstGeq
<1> QED BY <1>1, <1>2, SameQuery

LEMMA InitInv == Init => IndInv
<1> SUFFICES ASSUME Init PROVE IndInv
  OBVIOUS
<1>1. QueueInv /\ query \in Queries /\ NumDocs \in Nat
  BY InitQueue, QueryAssumption DEF Init, QueueInv, QueryTypeOK
<1>2. \A t \in Lists : docid[t] = FirstGeq(t, 0) /\ docid[t] \in 0..NumDocs
  BY <1>1, FirstGeqLands DEF Init, QueryInit
<1>3. /\ ordered_enums \in Bijection(Lists, Lists)
      /\ \A i, j \in Lists : i < j => At(i) <= At(j)
  BY InSortedBy DEF Init, At
<1>4. EnumsOnLists
  <2>1. \A t \in Lists : docid[t] = NumDocs \/ docid[t] \in Postings(t)
    BY <1>1, <1>2, FirstGeqLands
  <2>2. offered = {}
    BY DEF Init, QueryInit
  <2> QED BY <2>1, <2>2 DEF EnumsOnLists
<1>5. SkippedIsHopeless
  <2>1. ASSUME NEW d \in Docs, NEW t \in Matching(d) PROVE ~(docid[t] > d)
    <3>1. t \in Lists /\ d \in Postings(t) /\ d \in Int /\ d >= 0
      BY <1>1 DEF Matching, Docs
    <3>2. docid[t] <= d /\ docid[t] \in Int
      BY <1>1, <1>2, <3>1, FirstGeqLands
    <3> QED BY <3>1, <3>2
  <2> QED BY <2>1 DEF SkippedIsHopeless
<1>6. \A t \in Lists : block[t] = FirstBlock(t)
  BY DEF Init
<1>7. AtBlocks(block)
  <2>1. DOMAIN block = Lists
    BY DEF Init
  <2> QED BY <1>1, <1>6, <2>1, FirstBlockIs DEF AtBlocks
<1>8. NoBlockLeftBehind
  <2>1. ASSUME NEW t \in Lists, NEW b \in Blocks(t) PROVE ~(b < block[t])
    <3>1. block[t] <= b
      BY <1>1, <1>6, FirstBlockIs
    <3>2. b \in Int /\ block[t] \in Int
      <4>1. block[t] \in Blocks(t)
        BY <1>7 DEF AtBlocks
      <4> QED BY <1>1, <4>1, BlocksAre
    <3> QED BY <3>1, <3>2
  <2> QED BY <2>1 DEF NoBlockLeftBehind
<1> QED BY <1>1, <1>3, <1>4, <1>5, <1>7, <1>8 DEF IndInv, ListsInOrder
-----------------------------------------------------------------------------
(* The pivot is the last list at the document of the first candidate.      *)
LEMMA PivotIs ==
  ASSUME IndInv, pc = "search"
  PROVE  /\ Pivot = 0 => PivotCandidates = {}
         /\ Pivot # 0 =>
              /\ Pivot \in Lists /\ At(Pivot) \in Docs
              /\ \E first \in PivotCandidates :
                   /\ At(Pivot) = At(first)
                   /\ \A j \in PivotCandidates : first <= j
              /\ Pivot + 1 \in Lists => At(Pivot) < At(Pivot + 1)
<1> DEFINE first == CHOOSE i \in PivotCandidates : \A j \in PivotCandidates : i <= j
           Row == {i \in first..query.lists : \A j \in first..i : At(j) = At(first)}
<1>1. /\ PivotCandidates \in SUBSET Lists /\ query.lists \in Nat
      /\ \A i \in Lists : i \in Nat /\ i # 0
  BY InvFacts, QueryFacts DEF PivotCandidates, Lists
<1>2. CASE PivotCandidates = {}
  BY <1>2 DEF Pivot
<1>3. CASE PivotCandidates # {}
  <2>1. first \in PivotCandidates /\ \A j \in PivotCandidates : first <= j
    <3>1. PivotCandidates \in SUBSET Nat
      BY <1>1
    <3>2. \E i \in PivotCandidates : \A j \in PivotCandidates : i <= j
      BY <1>3, <3>1, LeastOf
    <3> QED BY <3>2
  <2>2. Pivot = Greatest(Row)
    BY <1>3 DEF Pivot
  <2> HIDE DEF first
  <2>3. first \in Lists /\ first \in Nat /\ first <= query.lists
    BY <1>1, <2>1 DEF Lists
  <2>4. At(first) # NumDocs /\ At(first) \in Docs
    <3>1. first \in 1..first
      BY <1>1, <2>3
    <3>2. At(first) # NumDocs
      BY <2>1, <3>1 DEF PivotCandidates
    <3> QED BY <2>3, <3>2, InvFacts DEF Docs
  <2>5. first \in Row /\ IsFiniteSet(Row) /\ Row \in SUBSET Lists
    <3>1. Row \in SUBSET Lists
      BY <1>1, <2>3 DEF Lists
    <3>2. first \in Row
      BY <1>1, <2>3
    <3> HIDE DEF Row
    <3> QED BY <3>1, <3>2, InvFacts, QueryFacts, FS_Subset
  <2>6. Pivot \in Row /\ \A y \in Row : y <= Pivot
    <3>1. Row # {} /\ \A x \in Row : x \in Int
      BY <1>1, <2>5
    <3> HIDE DEF Row
    <3> QED BY <2>2, <2>5, <3>1, GreatestIs
  <2> HIDE DEF Row
  <2>7. Pivot \in Lists /\ Pivot \in Nat /\ Pivot # 0
    BY <1>1, <2>5, <2>6
  <2>8. first <= Pivot /\ \A j \in first..Pivot : At(j) = At(first)
    BY <2>6, <2>7, <2>3 DEF Row
  <2>9. At(Pivot) = At(first)
    BY <2>3, <2>7, <2>8
  <2>10. ASSUME Pivot + 1 \in Lists PROVE At(Pivot) < At(Pivot + 1)
    <3>1. At(Pivot) <= At(Pivot + 1) /\ At(Pivot) \in Int /\ At(Pivot + 1) \in Int
      BY <2>7, <2>10, InvFacts
    <3>2. At(Pivot + 1) # At(first)
      <4>1. SUFFICES ASSUME At(Pivot + 1) = At(first) PROVE Pivot + 1 \in Row
        BY <2>6, <2>7
      <4>2. \A j \in first..(Pivot + 1) : At(j) = At(first)
        BY <2>3, <2>7, <2>8, <4>1
      <4> QED BY <2>3, <2>7, <2>8, <2>10, <4>2 DEF Row, Lists
    <3> QED BY <2>9, <3>1, <3>2
  <2> QED BY <2>1, <2>4, <2>7, <2>9, <2>10
<1> QED BY <1>2, <1>3

(* A document before the pivot document that no enumerator of its lists is *)
(* past cannot enter the queue; without a pivot no document can.           *)
LEMMA BeforePivot ==
  ASSUME Storage = "raw", IndInv, pc = "search",
         NEW d \in Docs, Matching(d) # {}, NotOffered(d),
         Pivot = 0 \/ d < At(Pivot)
  PROVE  ~Topk!WouldEnter(FullScore(d))
<1>1. CASE \E t \in Matching(d) : docid[t] > d
  BY <1>1 DEF IndInv, SkippedIsHopeless
<1>2. CASE ~\E t \in Matching(d) : docid[t] > d
  <2>1. \A t \in Matching(d) : docid[t] <= d
    <3>1. \A t \in Matching(d) : docid[t] \in Int /\ d \in Int
      BY InvFacts DEF Matching, Docs
    <3> QED BY <1>2, <3>1
  <2>2. ASSUME NEW k \in Lists, \A j \in 1..k : docid[ordered_enums[j]] <= d
        PROVE  ~Topk!WouldEnter(ListBound(UpTo(k)))
    <3>1. \A j \in 1..k : At(j) \in Int /\ At(j) <= d /\ d < NumDocs /\ NumDocs \in Int
      <4>1. \A j \in 1..k : j \in Lists
        BY InvFacts, QueryFacts DEF Lists
      <4> QED BY <2>2, <4>1, InvFacts DEF At, Docs
    <3>2. \A j \in 1..k : At(j) # NumDocs
      BY <3>1 DEF Docs
    <3>3. k \notin PivotCandidates
      <4>1. CASE Pivot = 0
        BY <4>1, PivotIs
      <4>2. CASE Pivot # 0
        <5>1. k \in 1..k
          BY InvFacts, QueryFacts DEF Lists
        <5>2. SUFFICES ASSUME k \in PivotCandidates PROVE FALSE
          OBVIOUS
        <5>3. PICK first \in PivotCandidates : At(Pivot) = At(first) /\ first <= k
          BY <4>2, <5>2, PivotIs
        <5>4. first \in Lists
          BY <5>3 DEF PivotCandidates
        <5>5. At(first) <= At(k) /\ At(first) \in Int /\ d \in Int
          BY <5>3, <5>4, InvFacts DEF Docs
        <5> QED BY <3>1, <4>2, <5>1, <5>3, <5>5
      <4> QED BY <4>1, <4>2
    <3> QED BY <3>2, <3>3 DEF PivotCandidates
  <2>3. \A k \in Lists : (\A j \in 1..k : docid[ordered_enums[j]] <= d)
          => ~Topk!WouldEnter(ListBound({ordered_enums[j] : j \in 1..k}))
    BY <2>2 DEF UpTo
  <2>4. \A a, b \in Lists : a < b => docid[ordered_enums[a]] <= docid[ordered_enums[b]]
    BY DEF IndInv, ListsInOrder, At
  <2> QED BY <2>1, <2>3, <2>4, HopelessPrefix DEF IndInv
<1> QED BY <1>1, <1>2

(* The lists up to the pivot are all that have not passed the documents    *)
(* before the list behind it.                                              *)
LEMMA UpToPivot ==
  ASSUME IndInv, pc = "search", Pivot # 0,
         NEW d \in Int, Pivot + 1 \in Lists => d < At(Pivot + 1)
  PROVE  /\ UpTo(Pivot) \in SUBSET Lists
         /\ \A u \in Lists : docid[u] <= d => u \in UpTo(Pivot)
<1>1. /\ Pivot \in Lists /\ query.lists \in Nat
      /\ \A i \in Lists : i \in Nat
  BY PivotIs, InvFacts, QueryFacts DEF Lists
<1>2. UpTo(Pivot) \in SUBSET Lists
  <2>1. \A i \in 1..Pivot : i \in Lists
    BY <1>1 DEF Lists
  <2> QED BY <2>1, InvFacts DEF UpTo
<1>3. ASSUME NEW u \in Lists, docid[u] <= d PROVE u \in UpTo(Pivot)
  <2>1. PICK i \in Lists : ordered_enums[i] = u
    BY InvFacts
  <2>2. CASE i <= Pivot
    <3>1. i \in 1..Pivot
      BY <1>1, <2>2 DEF Lists
    <3> QED BY <2>1, <3>1 DEF UpTo
  <2>3. CASE i > Pivot
    <3>1. Pivot + 1 \in Lists /\ Pivot + 1 <= i
      BY <1>1, <2>3 DEF Lists
    <3>2. At(Pivot + 1) <= At(i) /\ At(i) \in Int /\ At(Pivot + 1) \in Int
      BY <3>1, InvFacts
    <3>3. At(i) <= d
      BY <1>3, <2>1 DEF At
    <3> QED BY <3>1, <3>2, <3>3
  <2> QED BY <1>1, <2>2, <2>3
<1> QED BY <1>2, <1>3
-----------------------------------------------------------------------------
(* The blocks move with the pivot and leave no document behind that could  *)
(* enter.                                                                  *)
LEMMA Moved ==
  ASSUME Storage = "raw", IndInv, pc = "search", Pivot # 0
  PROVE  LET at == MovedBlocks(Pivot) IN
         /\ AtBlocks(at)
         /\ \A t \in UpTo(Pivot) : \A d \in Postings(t) :
              d >= At(Pivot) => at[t] >= At(Pivot)
         /\ \A t \in Lists : \A d \in Postings(t) :
              /\ d >= docid[t]
              /\ \E b \in Blocks(t) : d <= b /\ b < at[t]
              => ~Topk!WouldEnter(FullScore(d))
<1> DEFINE at == MovedBlocks(Pivot)
           id == At(Pivot)
<1>1. /\ query \in Queries /\ Pivot \in Lists /\ id \in Int
      /\ UpTo(Pivot) \in SUBSET Lists
      /\ \A t \in Lists : block[t] \in Blocks(t)
      /\ \A t \in Lists : Blocks(t) \in SUBSET Int /\ Postings(t) \in SUBSET Docs
      /\ \A d \in Docs : d \in Int
  <2>1. query \in Queries /\ Pivot \in Lists /\ id \in Int
    BY InvFacts, PivotIs
  <2>2. UpTo(Pivot) \in SUBSET Lists
    <3>1. Pivot + 1 \in Lists => id < At(Pivot + 1)
      BY PivotIs
    <3> QED BY <2>1, <3>1, UpToPivot
  <2>3. \A t \in Lists : block[t] \in Blocks(t)
    BY DEF IndInv, AtBlocks
  <2>4. \A t \in Lists : Blocks(t) \in SUBSET Int
    BY <2>1, BlocksAre
  <2> QED BY <2>1, <2>2, <2>3, <2>4 DEF Postings, Docs
<1>2. ASSUME NEW t \in Lists
      PROVE  at[t] = IF t \in UpTo(Pivot) /\ block[t] < id
                     THEN BlockGeq(t, block[t], id) ELSE block[t]
  BY DEF MovedBlocks
<1>3. DOMAIN at = Lists
  BY DEF MovedBlocks
<1> HIDE DEF at
<1>4. ASSUME NEW t \in Lists, t \in UpTo(Pivot), block[t] < id
      PROVE  /\ at[t] \in Blocks(t)
             /\ \A c \in Blocks(t) : c >= block[t] /\ c >= id => at[t] <= c
             /\ \A d \in Postings(t) : d >= id => at[t] >= id
  BY <1>1, <1>2, <1>4, BlockGeqIs
<1> HIDE DEF id
<1>5. AtBlocks(at)
  <2>1. \A t \in Lists : at[t] \in Blocks(t)
    BY <1>1, <1>2, <1>4
  <2> QED BY <1>3, <2>1 DEF AtBlocks
<1>6. ASSUME NEW t \in UpTo(Pivot), NEW d \in Postings(t), d >= id
      PROVE  at[t] >= id
  <2>1. t \in Lists /\ block[t] \in Int
    BY <1>1
  <2>2. CASE block[t] < id
    BY <1>4, <1>6, <2>1, <2>2
  <2>3. CASE ~(block[t] < id)
    BY <1>1, <1>2, <2>1, <2>3
  <2> QED BY <2>2, <2>3
<1>7. ASSUME NEW t \in Lists, NEW d \in Postings(t), d >= docid[t],
             NEW b \in Blocks(t), d <= b, b < at[t]
      PROVE  ~Topk!WouldEnter(FullScore(d))
  <2>1. /\ d \in Docs /\ d \in Int /\ b \in Int /\ block[t] \in Int
        /\ at[t] \in Int /\ docid[t] \in Int
    <3>1. at[t] \in Blocks(t)
      BY <1>5 DEF AtBlocks
    <3> QED BY <1>1, <3>1, InvFacts
  <2>2. CASE b < block[t]
    BY <1>7, <2>2 DEF IndInv, NoBlockLeftBehind
  <2>3. CASE ~(b < block[t])
    <3>1. t \in UpTo(Pivot) /\ block[t] < id
      BY <1>2, <1>7, <2>3
    <3>2. ~(b >= id)
      BY <1>4, <1>7, <2>1, <2>3, <3>1
    <3>3. d < id
      BY <1>1, <1>7, <2>1, <3>2
    <3>4. Matching(d) # {}
      BY DEF Matching
    <3>5. NotOffered(d)
      <4>1. ASSUME NEW e \in offered PROVE e.doc < docid[t] /\ e.doc \in Int
        <5>1. e \in Topk!Entries
          BY DEF IndInv, QueueInv, QueryTypeOK, Topk!TypeOK
        <5> QED BY <1>1, <5>1 DEF IndInv, EnumsOnLists, Topk!Entries
      <4>2. \A e \in offered : e.doc # d
        BY <1>7, <2>1, <4>1
      <4> QED BY <4>2 DEF NotOffered
    <3> QED BY <2>1, <3>3, <3>4, <3>5, BeforePivot DEF id
  <2> QED BY <2>2, <2>3
<1> QED BY <1>5, <1>6, <1>7 DEF at, id

(* The documents the blocks in view bound: the pivot document, and those   *)
(* behind it up to the end of the nearest block and the list that follows. *)
InView(d) ==
    /\ \/ d = At(Pivot)
       \/ At(Pivot) < d /\ \A u \in UpTo(Pivot) : d <= MovedBlocks(Pivot)[u]
    /\ Pivot + 1 \in Lists => d < At(Pivot + 1)
    /\ \A u \in Matching(d) : docid[u] <= d

LEMMA BlockBounds ==
  ASSUME Storage = "raw", IndInv, pc = "search", Pivot # 0,
         NEW d \in Docs, InView(d), Topk!WouldEnter(FullScore(d)),
         NEW t \in UpTo(Pivot)
  PROVE  /\ BlockScore(t, MovedBlocks(Pivot)[t]) \in Nat
         /\ Part(query, d)[t] <= BlockScore(t, MovedBlocks(Pivot)[t])
<1> DEFINE b == MovedBlocks(Pivot)[t]
<1>1. query \in Queries /\ t \in Lists /\ d \in Int /\ At(Pivot) \in Int
  <2>1. Pivot \in Lists /\ query \in Queries /\ d \in Int
    BY InvFacts, PivotIs DEF Docs
  <2>2. t \in Lists
    BY <2>1, UpToPivot DEF InView
  <2> QED BY <2>1, <2>2, InvFacts
<1>2. b \in Blocks(t)
  BY <1>1, Moved DEF AtBlocks
<1>3. d \in InBlock(t, b) \/ d \notin Postings(t)
  <2>1. SUFFICES ASSUME d \in Postings(t) PROVE d \in InBlock(t, b)
    OBVIOUS
  <2>2. d >= docid[t]
    <3>1. t \in Matching(d)
      BY <1>1, <2>1 DEF Matching
    <3>2. docid[t] <= d /\ docid[t] \in Int
      BY <1>1, <3>1, InvFacts DEF InView
    <3> QED BY <1>1, <3>2
  <2>3. \A c \in Blocks(t) : c \in Int
    BY <1>1, BlocksAre
  <2>4. d <= b
    <3>1. CASE d = At(Pivot)
      <4>1. b >= At(Pivot)
        BY <1>1, <2>1, <3>1, Moved
      <4> HIDE DEF b
      <4> QED BY <1>1, <1>2, <2>3, <3>1, <4>1
    <3>2. CASE d # At(Pivot)
      BY <3>2 DEF InView
    <3> QED BY <3>1, <3>2
  <2>5. ASSUME NEW c \in Blocks(t), c < b PROVE d > c
    <3>1. ~(d <= c)
      BY <1>1, <2>1, <2>2, <2>5, Moved
    <3> QED BY <1>1, <2>3, <3>1
  <2> QED BY <2>1, <2>4, <2>5 DEF InBlock
<1> HIDE DEF b
<1>4. BlockScore(t, b) \in Nat /\ Part(query, d)[t] <= BlockScore(t, b)
  BY <1>1, <1>2, <1>3, BlockScoreBounds
<1> QED BY <1>4 DEF b

(* What is not scored yet adds no more than the bounds of its blocks.      *)
LEMMA RestInView ==
  ASSUME Storage = "raw", IndInv, pc = "search", Pivot # 0,
         NEW d \in Docs, InView(d), Topk!WouldEnter(FullScore(d)),
         NEW A \in SUBSET Matching(d)
  PROVE  LET m == BlockBound(UpTo(Pivot) \ A, MovedBlocks(Pivot)) IN
         m \in Int /\ FullScore(d) <= Score(A, d) + m
<1> DEFINE B == UpTo(Pivot) \ A
           at == MovedBlocks(Pivot)
           w == [t \in Lists |-> BlockScore(t, at[t])]
<1>1. /\ query \in Queries /\ d \in Int
      /\ UpTo(Pivot) \in SUBSET Lists
      /\ \A u \in Lists : docid[u] <= d => u \in UpTo(Pivot)
  <2>1. query \in Queries /\ d \in Int
    BY InvFacts DEF Docs
  <2> QED BY <2>1, UpToPivot DEF InView
<1>2. B \in SUBSET Lists /\ Matching(d) \ A \subseteq B
  <2>1. \A u \in Matching(d) : u \in Lists /\ docid[u] <= d
    BY DEF InView, Matching
  <2> QED BY <1>1, <2>1
<1>3. \A t \in B : w[t] \in Nat /\ Part(query, d)[t] <= w[t]
  BY <1>1, BlockBounds
<1>4. BlockBound(B, at) = SumFunctionOnSet(w, B)
  BY DEF BlockBound
<1> HIDE DEF B, w, at
<1>5. /\ SumFunctionOnSet(w, B) \in Int
      /\ FullScore(d) <= Score(A, d) + SumFunctionOnSet(w, B)
  BY <1>1, <1>2, <1>3, BoundedRest
<1> QED BY <1>4, <1>5 DEF B, at

(* Where the blocks together are not promising, no document in view can    *)
(* enter.                                                                  *)
LEMMA NotPromising ==
  ASSUME Storage = "raw", IndInv, pc = "search", Pivot # 0, ~Promising(Pivot),
         NEW d \in Docs, InView(d), Matching(d) # {}
  PROVE  ~Topk!WouldEnter(FullScore(d))
<1> SUFFICES ASSUME Topk!WouldEnter(FullScore(d)) PROVE FALSE
  OBVIOUS
<1> DEFINE m == BlockBound(UpTo(Pivot), MovedBlocks(Pivot))
           g == StaticBound(UpTo(Pivot))
           e == Score({}, d)
<1>1. /\ query \in Queries /\ d \in Int /\ FullScore(d) \in Int
      /\ UpTo(Pivot) \in SUBSET Lists
      /\ \A u \in Lists : docid[u] <= d => u \in UpTo(Pivot)
  <2>1. query \in Queries /\ d \in Int
    BY InvFacts DEF Docs
  <2> QED BY <2>1, UpToPivot, ScoreIsScore DEF InView
<1>2. Matching(d) \subseteq UpTo(Pivot)
  <2>1. \A u \in Matching(d) : u \in Lists /\ docid[u] <= d
    BY DEF InView, Matching
  <2> QED BY <1>1, <2>1
<1>3. m \in Int /\ FullScore(d) <= e + m
  <2>1. {} \in SUBSET Matching(d) /\ UpTo(Pivot) \ {} = UpTo(Pivot)
    OBVIOUS
  <2> QED BY <2>1, RestInView
<1>4. e \in Int /\ e <= g
  BY <1>1, <1>2, OwnWeightBound DEF StaticBound
<1>5. g \in Int
  <2>1. UpTo(Pivot) # {}
    BY <1>2
  <2> QED BY <1>1, <2>1, ListBoundType DEF StaticBound
<1>6. ~Topk!WouldEnter(m + g)
  BY DEF Promising
<1> HIDE DEF m, g, e
<1>7. FullScore(d) <= m + g /\ m + g \in Int
  BY <1>1, <1>3, <1>4, <1>5
<1>8. QueueInv
  BY DEF IndInv
<1> QED BY <1>1, <1>6, <1>7, <1>8, BarIsOrdered

(* Where a skip lands: behind the pivot document, and every document it    *)
(* passes is in view.                                                      *)
LEMMA SkipToIs ==
  ASSUME Storage = "raw", IndInv, pc = "search", Pivot # 0
  PROVE  LET s == SkipTo(Pivot, MovedBlocks(Pivot)) IN
         /\ s \in 0..NumDocs /\ At(Pivot) < s
         /\ \A d \in Docs : /\ At(Pivot) <= d /\ d < s
                            /\ \A u \in Matching(d) : docid[u] <= d
                            => InView(d)
<1> DEFINE id == At(Pivot)
           at == MovedBlocks(Pivot)
           nearest == {at[t] : t \in UpTo(Pivot)}
           after == IF Pivot < query.lists THEN {At(Pivot + 1)} ELSE {}
           jump == CHOOSE d \in nearest \cup after :
                       \A e \in nearest \cup after : d <= e
           next == IF after # {} /\ jump + 1 > At(Pivot + 1) THEN At(Pivot + 1)
                   ELSE jump + 1
           s == SkipTo(Pivot, at)
<1>1. /\ query \in Queries /\ NumDocs \in Nat /\ query.lists \in Nat
      /\ Pivot \in Lists /\ Pivot \in Nat
      /\ id \in Docs /\ id \in Int /\ id < NumDocs
      /\ Pivot + 1 \in Lists => id < At(Pivot + 1) /\ At(Pivot + 1) \in 0..NumDocs
      /\ Pivot + 1 \in Lists <=> Pivot < query.lists
  <2>1. /\ query \in Queries /\ NumDocs \in Nat /\ query.lists \in Nat
        /\ Pivot \in Lists /\ id \in Docs
    BY InvFacts, PivotIs, QueryFacts
  <2>2. Pivot + 1 \in Lists => id < At(Pivot + 1) /\ At(Pivot + 1) \in 0..NumDocs
    BY InvFacts, PivotIs
  <2>3. Pivot \in Nat /\ (Pivot + 1 \in Lists <=> Pivot < query.lists)
    BY <2>1 DEF Lists
  <2>4. id \in Int /\ id < NumDocs
    <3> HIDE DEF id
    <3> QED BY <2>1 DEF Docs
  <2> QED BY <2>1, <2>2, <2>3, <2>4
<1>2. UpTo(Pivot) \in SUBSET Lists /\ ordered_enums[Pivot] \in UpTo(Pivot)
  <2>1. UpTo(Pivot) \in SUBSET Lists
    BY <1>1, UpToPivot
  <2>2. Pivot \in 1..Pivot
    BY <1>1 DEF Lists
  <2> QED BY <2>1, <2>2 DEF UpTo
<1>3. \A u \in UpTo(Pivot) : at[u] \in Docs /\ at[u] \in Nat /\ at[u] < NumDocs
  <2>1. \A u \in UpTo(Pivot) : at[u] \in Blocks(u)
    BY <1>2, Moved DEF AtBlocks
  <2> QED BY <1>1, <1>2, <2>1, BlocksAre DEF Docs
<1>4. s = IF next <= id THEN id + 1 ELSE next
  BY DEF SkipTo
<1> HIDE DEF id, at, s
<1>5. /\ jump \in nearest \cup after
      /\ \A e \in nearest \cup after : jump <= e
  <2>1. nearest \cup after \in SUBSET Nat /\ nearest \cup after # {}
    <3>1. after \in SUBSET Nat
      BY <1>1
    <3>2. nearest \in SUBSET Nat /\ nearest # {}
      BY <1>2, <1>3
    <3> HIDE DEF nearest, after
    <3> QED BY <3>1, <3>2
  <2>2. \E d \in nearest \cup after : \A e \in nearest \cup after : d <= e
    <3> HIDE DEF nearest, after
    <3> QED BY <2>1, LeastOf
  <2> HIDE DEF nearest, after
  <2> QED BY <2>2
<1> HIDE DEF jump
<1>6. /\ next \in 0..NumDocs
      /\ \A d \in Int : d < next =>
           /\ \A u \in UpTo(Pivot) : d <= at[u]
           /\ Pivot + 1 \in Lists => d < At(Pivot + 1)
  <2>1. CASE Pivot < query.lists
    <3>1. after = {At(Pivot + 1)} /\ Pivot + 1 \in Lists
      BY <1>1, <2>1
    <3>2. At(Pivot + 1) \in 0..NumDocs /\ jump \in Nat
      BY <1>1, <1>3, <1>5, <3>1
    <3>3. next \in 0..NumDocs /\ next <= At(Pivot + 1) /\ next <= jump + 1
      BY <1>1, <3>1, <3>2
    <3>4. \A u \in UpTo(Pivot) : jump <= at[u]
      BY <1>5
    <3> HIDE DEF next
    <3> QED BY <1>1, <1>3, <3>2, <3>3, <3>4
  <2>2. CASE ~(Pivot < query.lists)
    <3>1. after = {} /\ Pivot + 1 \notin Lists
      BY <1>1, <2>2
    <3>2. jump \in Nat /\ jump < NumDocs
      BY <1>3, <1>5, <3>1
    <3>3. next = jump + 1
      BY <3>1
    <3>4. \A u \in UpTo(Pivot) : jump <= at[u]
      BY <1>5
    <3> HIDE DEF next
    <3> QED BY <1>1, <1>3, <3>1, <3>2, <3>3, <3>4
  <2> QED BY <2>1, <2>2
<1> HIDE DEF next
<1>7. s \in 0..NumDocs /\ id < s
  BY <1>1, <1>4, <1>6
<1>8. ASSUME NEW d \in Docs, id <= d, d < s, \A u \in Matching(d) : docid[u] <= d
      PROVE  InView(d)
  <2>1. d \in Int
    BY DEF Docs
  <2>2. CASE d = id
    <3>1. d = At(Pivot) /\ (Pivot + 1 \in Lists => d < At(Pivot + 1))
      BY <2>2, PivotIs DEF id
    <3> QED BY <1>8, <3>1 DEF InView
  <2>3. CASE d # id
    <3>1. id < d /\ d < next
      BY <1>1, <1>4, <1>6, <1>8, <2>1, <2>3
    <3> QED BY <1>6, <1>8, <2>1, <3>1 DEF InView, id, at
  <2> QED BY <2>2, <2>3
<1> QED BY <1>7, <1>8 DEF s, id, at
-----------------------------------------------------------------------------
(* What every pass does to the blocks.                                     *)
LEMMA BlocksStep ==
  ASSUME Storage = "raw", IndInv, pc = "search", Pivot # 0,
         UNCHANGED <<query, pc>>, block' = MovedBlocks(Pivot),
         docid' \in [Lists -> 0..NumDocs],
         \A t \in Lists : docid'[t] >= docid[t],
         \A r \in Int : ~Topk!WouldEnter(r) => ~Topk!WouldEnter(r)'
  PROVE  AtBlocks(block)' /\ NoBlockLeftBehind'
<1>1. PICK at : at = MovedBlocks(Pivot) /\ block' = at
  OBVIOUS
<1>2. AtBlocks(block)'
  <2>1. AtBlocks(at)
    BY <1>1, Moved
  <2> QED BY <1>1, <2>1, SameLists DEF AtBlocks
<1>3. ASSUME NEW t \in Lists, NEW d \in Postings(t), d >= docid'[t],
             NEW b \in Blocks(t), d <= b, b < at[t]
      PROVE  \E r \in Int : r = FullScore(d) /\ ~Topk!WouldEnter(r)'
  <2>1. /\ d \in Docs /\ d \in Int /\ docid[t] \in Int /\ docid'[t] \in Int
        /\ FullScore(d) \in Int
    BY InvFacts, ScoreIsScore DEF Postings, Docs
  <2>2. d >= docid[t]
    BY <1>3, <2>1
  <2>3. ~Topk!WouldEnter(FullScore(d))
    BY <1>1, <1>3, <2>2, Moved
  <2> QED BY <2>1, <2>3
<1>4. NoBlockLeftBehind'
  BY <1>1, <1>3, SameLists DEF NoBlockLeftBehind
<1> QED BY <1>2, <1>4

(* Where BubbleDown puts the list.                                         *)
LEMMA BubbleDownMoves ==
  ASSUME query \in Queries, NEW i \in Lists, NEW within
  PROVE  \E last \in Lists :
           /\ i <= last
           /\ BubbleDown(i, within) = MovedDown(ordered_enums, i, last)
           /\ \A h \in i+1 .. last : h \in Lists /\ ordered_enums[h] \in within
           /\ last + 1 \in Lists => ordered_enums[last + 1] \notin within
<1> DEFINE p == ordered_enums
           W == {h \in Lists : p[h] \in within}
           passed == {j \in Lists : j > i /\ \A h \in i+1 .. j : p[h] \in within}
           reached == {j \in Lists : j > i /\ \A h \in i+1 .. j : h \in W}
           last == Greatest(passed \cup {i})
<1>1. passed = reached
  <2>1. \A j \in Lists : \A h \in i+1 .. j : h \in Lists
    BY QueryFacts DEF Lists
  <2> QED BY <2>1
<1>2. last = Greatest(reached \cup {i})
  BY <1>1
<1>3. BubbleDown(i, within) = MovedDown(p, i, last)
  BY DEF BubbleDown, MovedDown
<1>4. /\ last \in Lists /\ i <= last
      /\ \A h \in i+1 .. last : h \in W
      /\ last + 1 \in Lists => last + 1 \notin W
  <2> HIDE DEF last, W
  <2> QED BY <1>2, LastPassed
<1> HIDE DEF last
<1> QED BY <1>3, <1>4

(* The advanced list goes behind those it is not before any more.          *)
LEMMA BubbleDownSorts ==
  ASSUME query \in Queries, ordered_enums \in Bijection(Lists, Lists),
         \A a, b \in Lists : a < b => At(a) <= At(b),
         NEW i \in Lists, NEW within,
         docid \in [Lists -> 0..NumDocs], docid' \in [Lists -> 0..NumDocs],
         \A u \in Lists : u # ordered_enums[i] => docid'[u] = docid[u],
         docid'[ordered_enums[i]] > docid[ordered_enums[i]],
         \A u \in Lists : u \in within => docid[u] <= docid'[ordered_enums[i]],
         \A u \in Lists : u \notin within => docid'[ordered_enums[i]] <= docid[u]
  PROVE  /\ BubbleDown(i, within) \in Bijection(Lists, Lists)
         /\ \A a, b \in Lists : a < b => docid'[BubbleDown(i, within)[a]]
                                           <= docid'[BubbleDown(i, within)[b]]
<1> DEFINE p == ordered_enums
<1>1. PICK last \in Lists :
        /\ i <= last
        /\ BubbleDown(i, within) = MovedDown(p, i, last)
        /\ \A h \in i+1 .. last : h \in Lists /\ p[h] \in within
        /\ last + 1 \in Lists => p[last + 1] \notin within
  BY BubbleDownMoves
<1>2. /\ p \in [Lists -> Lists]
      /\ \A a, b \in Lists : p[a] = p[b] => a = b
  BY BijectionMeans
<1>3. /\ \A h \in i+1 .. last : h \in Lists /\ h # i
      /\ last + 1 # i
  BY <1>1 DEF Lists
<1>4. \A h \in Lists : h # i => docid'[p[h]] = docid[p[h]]
  BY <1>2
<1>5. \A h \in i+1 .. last : docid'[p[h]] <= docid'[p[i]]
  BY <1>1, <1>2, <1>3, <1>4
<1>6. last + 1 \in Lists => docid'[p[i]] <= docid'[p[last + 1]]
  BY <1>1, <1>2, <1>3, <1>4
<1>7. \A a, b \in Lists : a < b => docid[p[a]] <= docid[p[b]]
  BY DEF At
<1> HIDE DEF p
<1>8. /\ MovedDown(p, i, last) \in Bijection(Lists, Lists)
       /\ \A a, b \in Lists : a < b => docid'[MovedDown(p, i, last)[a]]
                                         <= docid'[MovedDown(p, i, last)[b]]
  BY <1>1, <1>5, <1>6, <1>7, AdvancedOrder DEF p
<1> QED BY <1>1, <1>8

(* What ScorePivot offers: the full score, or no more than the full score  *)
(* of a document that cannot enter.                                        *)
LEMMA OfferedScore ==
  ASSUME Storage = "raw", IndInv, pc = "search", Pivot # 0,
         NEW hits \in SUBSET Lists, hits \subseteq Matching(At(Pivot)),
         \A t \in hits : docid[t] = At(Pivot),
         hits = Matching(At(Pivot)) \/ ~Topk!WouldEnter(FullScore(At(Pivot))),
         NEW A \in SUBSET hits,
         \/ A = hits
         \/ ~Topk!WouldEnter(BlockBound(UpTo(Pivot) \ A, MovedBlocks(Pivot))
                             + Score(A, At(Pivot)))
  PROVE  /\ Score(A, At(Pivot)) \in Scores
         /\ \/ Score(A, At(Pivot)) = FullScore(At(Pivot))
            \/ /\ ~Topk!WouldEnter(Score(A, At(Pivot)))
               /\ ~Topk!WouldEnter(FullScore(At(Pivot)))
<1> DEFINE id == At(Pivot)
           s == Score(A, id)
           m == BlockBound(UpTo(Pivot) \ A, MovedBlocks(Pivot))
<1>1. query \in Queries /\ id \in Docs /\ QueueInv
  BY InvFacts, PivotIs DEF IndInv
<1>2. id \in Int /\ (Pivot + 1 \in Lists => id < At(Pivot + 1))
  <2>1. id \in Int
    <3> HIDE DEF id
    <3> QED BY <1>1 DEF Docs
  <2> QED BY <2>1, PivotIs
<1>3. InView(id) \/ ~Topk!WouldEnter(FullScore(id))
  <2>1. CASE hits = Matching(id)
    <3>1. \A u \in Matching(id) : docid[u] <= id
      BY <1>2, <2>1
    <3> QED BY <1>2, <3>1 DEF InView
  <2>2. CASE hits # Matching(id)
    BY <2>2
  <2> QED BY <2>1, <2>2
<1>4. s \in Scores /\ s \in Int /\ FullScore(id) \in Int /\ s <= FullScore(id)
  <2>1. A \in SUBSET Lists /\ A \in SUBSET Matching(id)
    OBVIOUS
  <2> HIDE DEF id
  <2> QED BY <1>1, <2>1, ScoreIsScore, PartialScore
<1>5. ASSUME ~Topk!WouldEnter(FullScore(id)) PROVE ~Topk!WouldEnter(s)
  <2> HIDE DEF s, id
  <2> QED BY <1>1, <1>4, <1>5, BarIsOrdered
<1>6. ASSUME Topk!WouldEnter(FullScore(id)), A # hits PROVE FALSE
  <2>1. m \in Int /\ FullScore(id) <= s + m
    <3>1. A \in SUBSET Matching(id)
      OBVIOUS
    <3> QED BY <1>1, <1>3, <1>6, <3>1, RestInView
  <2>2. ~Topk!WouldEnter(m + s)
    BY <1>6
  <2> HIDE DEF m, s, id
  <2>3. m + s \in Int /\ FullScore(id) <= m + s
    BY <1>4, <2>1
  <2> QED BY <1>1, <1>4, <1>6, <2>2, <2>3, BarIsOrdered
<1>7. ASSUME Topk!WouldEnter(FullScore(id)), A = hits PROVE s = FullScore(id)
  BY <1>7 DEF FullScore
<1> HIDE DEF s, id
<1>8. \/ s = FullScore(id)
      \/ ~Topk!WouldEnter(s) /\ ~Topk!WouldEnter(FullScore(id))
  BY <1>5, <1>6, <1>7
<1> QED BY <1>4, <1>8 DEF s, id

(* Scoring the pivot document from the lists at its head.                  *)
LEMMA ScorePivotStep ==
  ASSUME Storage = "raw", IndInv, pc = "search", Pivot # 0,
         ScorePivot(Pivot), UNCHANGED <<query, pc>>,
         block' = MovedBlocks(Pivot)
  PROVE  /\ IndInv' /\ Topk!Next
         /\ \E t \in Lists : docid'[t] > docid[t]
         /\ \A t \in Lists : docid'[t] >= docid[t]
<1> DEFINE id == At(Pivot)
           positions == {i \in Lists : \A h \in 1..i : At(h) = id}
           hits == {ordered_enums[i] : i \in positions}
<1>1. /\ query \in Queries /\ NumDocs \in Nat
      /\ docid \in [Lists -> 0..NumDocs]
      /\ ordered_enums \in [Lists -> Lists]
      /\ QueueInv /\ SkippedIsHopeless /\ EnumsOnLists
      /\ \A i \in Lists : i \in Nat /\ 1..i \subseteq Lists /\ 1 \in Lists /\ 1 <= i
  <2>1. query \in Queries /\ query.lists \in Nat
    BY InvFacts, QueryFacts
  <2>2. \A i \in Lists : i \in Nat /\ 1..i \subseteq Lists /\ 1 \in Lists /\ 1 <= i
    BY <2>1 DEF Lists
  <2> QED BY <2>2, InvFacts DEF IndInv
<1>2. /\ At(1) = id
      /\ docid' = [t \in Lists |-> IF t \in hits THEN NextDoc(t) ELSE docid[t]]
      /\ ordered_enums' \in SortedBy(docid')
  BY DEF ScorePivot
<1>3. PICK last \in positions :
        /\ Topk!Insert(Entry(Score(UpTo(last), id), id))
        /\ \/ UpTo(last) = hits
           \/ ~Topk!WouldEnter(BlockBound(UpTo(Pivot) \ UpTo(last), MovedBlocks(Pivot))
                               + Score(UpTo(last), id))
  <2> DEFINE tightened(i) == BlockBound(UpTo(Pivot) \ UpTo(i), MovedBlocks(Pivot))
                               + Score(UpTo(i), id)
             stops == {i \in positions : ~Topk!WouldEnter(tightened(i))}
             last == IF stops = {} THEN Greatest(positions)
                     ELSE CHOOSE i \in stops : \A j \in stops : i <= j
  <2>1. Topk!Insert(Entry(Score(UpTo(last), id), id))
    BY DEF ScorePivot
  <2>2. CASE stops = {}
    <3>1. last = Greatest(positions)
      BY <2>2
    <3>2. positions # {} /\ positions \in SUBSET Lists
      <4>1. Pivot \in Lists
        BY PivotIs
      <4>2. \A h \in 1..1 : At(h) = id
        BY <1>2
      <4> QED BY <1>1, <4>1, <4>2
    <3>3. last \in positions /\ \A y \in positions : y <= last
      <4> HIDE DEF positions, last
      <4>1. IsFiniteSet(positions) /\ \A x \in positions : x \in Int
        BY <1>1, <3>2, QueryFacts, FS_Subset
      <4> QED BY <3>1, <3>2, <4>1, GreatestIs
    <3> HIDE DEF last
    <3>4. UpTo(last) = hits
      <4>1. \A j \in 1..last : j \in positions
        <5>1. SUFFICES ASSUME NEW j \in 1..last PROVE j \in positions
          OBVIOUS
        <5>2. j \in Lists /\ \A h \in 1..j : h \in 1..last
          BY <1>1, <3>3
        <5> QED BY <3>3, <5>2
      <4>2. \A j \in positions : j \in 1..last
        BY <1>1, <3>3
      <4> QED BY <4>1, <4>2 DEF UpTo
    <3> HIDE DEF id, positions, hits
    <3> QED BY <2>1, <3>3, <3>4 DEF last
  <2>3. CASE stops # {}
    <3>1. last = CHOOSE i \in stops : \A j \in stops : i <= j
      BY <2>3
    <3>2. last \in stops
      <4>1. stops \in SUBSET Nat
        BY <1>1
      <4>2. \E i \in stops : \A j \in stops : i <= j
        <5> HIDE DEF stops
        <5> QED BY <2>3, <4>1, LeastOf
      <4> HIDE DEF stops, last
      <4> QED BY <3>1, <4>2
    <3> HIDE DEF last
    <3>3. last \in positions /\ ~Topk!WouldEnter(tightened(last))
      BY <3>2
    <3> HIDE DEF id, positions, hits
    <3> QED BY <2>1, <3>3
  <2> QED BY <2>2, <2>3
<1>4. Pivot \in Lists /\ id \in Docs /\ id \in Int
  <2>1. Pivot \in Lists /\ id \in Docs
    BY PivotIs
  <2> QED BY <2>1, InvFacts
<1>5. hits \in SUBSET Lists /\ hits # {}
  <2>1. \A h \in 1..1 : At(h) = id
    BY <1>2
  <2>2. 1 \in positions
    BY <1>1, <1>4, <2>1
  <2> QED BY <1>1, <2>2
<1>6. \A t \in hits : docid[t] = id
  <2>1. ASSUME NEW j \in positions PROVE docid[ordered_enums[j]] = id
    <3>1. j \in 1..j
      BY <1>1
    <3> QED BY <3>1 DEF At
  <2> QED BY <2>1
<1>7. \A t \in Lists : t \notin hits => docid[t] > id
  <2>1. SUFFICES ASSUME NEW t \in Lists, t \notin hits PROVE docid[t] > id
    OBVIOUS
  <2>2. PICK j \in Lists : ordered_enums[j] = t
    BY InvFacts
  <2>3. PICK h \in 1..j : At(h) # id
    BY <2>1, <2>2
  <2>4. h \in Lists /\ h \in Int /\ 1 <= h /\ h <= j /\ 1 \in Lists
    BY <1>1
  <2>5. At(1) <= At(h) /\ At(h) <= At(j) /\ At(h) \in Int /\ At(j) \in Int
    BY <2>4, InvFacts
  <2>6. At(j) = docid[t]
    BY <2>2 DEF At
  <2> HIDE DEF id
  <2> QED BY <1>2, <1>4, <2>3, <2>5, <2>6
<1>8. UpTo(last) \in SUBSET hits
  <2>1. \A j \in 1..last : j \in positions
    <3>1. SUFFICES ASSUME NEW j \in 1..last PROVE j \in positions
      OBVIOUS
    <3>2. j \in Lists /\ \A h \in 1..j : h \in 1..last
      BY <1>1
    <3> QED BY <3>2
  <2> QED BY <2>1 DEF UpTo
<1> HIDE DEF positions, hits
<1>9. /\ hits \subseteq Matching(id)
      /\ hits = Matching(id) \/ ~Topk!WouldEnter(FullScore(id))
  BY <1>1, <1>4, <1>5, <1>6, <1>7, FirstDocument
<1> DEFINE s == Score(UpTo(last), id)
<1>10. /\ s \in Scores
       /\ \/ s = FullScore(id)
          \/ ~Topk!WouldEnter(s) /\ ~Topk!WouldEnter(FullScore(id))
  BY <1>3, <1>5, <1>6, <1>8, <1>9, OfferedScore
<1> HIDE DEF s
<1>11. /\ QueueInv' /\ SkippedIsHopeless' /\ EnumsOnLists' /\ Topk!Next
       /\ docid' \in [Lists -> 0..NumDocs]
       /\ \A r \in Int : ~Topk!WouldEnter(r) => ~Topk!WouldEnter(r)'
       /\ \E t \in Lists : docid'[t] > docid[t]
       /\ \A t \in Lists : docid'[t] >= docid[t]
  <2>1. Topk!Insert(Entry(s, id))
    BY <1>3 DEF s
  <2> HIDE DEF id
  <2> QED BY <1>1, <1>2, <1>4, <1>5, <1>6, <1>7, <1>10, <2>1, ScoreFirstStep
<1>12. ordered_enums' \in Bijection(Lists, Lists) /\ ListsInOrder'
  BY <1>2, InSortedBy, SameLists DEF ListsInOrder, At
<1>13. AtBlocks(block)' /\ NoBlockLeftBehind'
  BY <1>11, BlocksStep
<1>14. IndInv'
  BY <1>11, <1>12, <1>13, SameLists DEF IndInv
<1> QED BY <1>11, <1>14

(* Moving one of the lists up to the pivot ahead, over documents that      *)
(* cannot enter, and down in the order.                                    *)
LEMMA MoveStep ==
  ASSUME Storage = "raw", IndInv, pc = "search", Pivot # 0,
         UNCHANGED <<query, pc, m_q, threshold, offered, sorted>>,
         block' = MovedBlocks(Pivot),
         NEW i \in Lists, NEW kind \in Kinds,
         NEW to \in 0..NumDocs, docid[ordered_enums[i]] < to,
         docid' = [docid EXCEPT ![ordered_enums[i]] = NextGeq(kind, ordered_enums[i], to)],
         \A d \in Docs :
           /\ At(Pivot) <= d /\ d < to /\ Matching(d) # {}
           /\ \A u \in Matching(d) : docid[u] <= d
           => ~Topk!WouldEnter(FullScore(d)),
         NEW within, ordered_enums' = BubbleDown(i, within),
         \A u \in Lists : u \in within => docid[u] <= docid'[ordered_enums[i]],
         \A u \in Lists : u \notin within => docid'[ordered_enums[i]] <= docid[u]
  PROVE  /\ IndInv' /\ UNCHANGED Topk!vars
         /\ \E t \in Lists : docid'[t] > docid[t]
         /\ \A t \in Lists : docid'[t] >= docid[t]
<1> DEFINE t == ordered_enums[i]
<1>1. /\ query \in Queries /\ docid \in [Lists -> 0..NumDocs]
      /\ ordered_enums \in Bijection(Lists, Lists)
      /\ QueueInv /\ SkippedIsHopeless /\ EnumsOnLists
      /\ At(Pivot) \in Int
      /\ \A a, b \in Lists : a < b => At(a) <= At(b)
  <2>1. Pivot \in Lists
    BY PivotIs
  <2>2. \A a, b \in Lists : a < b => At(a) <= At(b)
    BY DEF IndInv, ListsInOrder
  <2> QED BY <2>1, <2>2, InvFacts DEF IndInv
<1>2. t \in Lists
  BY InvFacts
<1>3. \A d \in Postings(t) :
        NotOffered(d) /\ d < to /\ (\A u \in Matching(d) : docid[u] <= d)
          => ~Topk!WouldEnter(FullScore(d))
  <2>1. SUFFICES ASSUME NEW d \in Postings(t), NotOffered(d), d < to,
                        \A u \in Matching(d) : docid[u] <= d
                 PROVE  ~Topk!WouldEnter(FullScore(d))
    OBVIOUS
  <2>2. d \in Docs /\ Matching(d) # {} /\ d \in Int
    BY <1>2 DEF Matching, Postings, Docs
  <2>3. CASE d < At(Pivot)
    BY <2>1, <2>2, <2>3, BeforePivot
  <2>4. CASE At(Pivot) <= d
    BY <2>1, <2>2, <2>4
  <2> QED BY <1>1, <2>2, <2>3, <2>4
<1>4. /\ QueueInv' /\ SkippedIsHopeless' /\ EnumsOnLists' /\ UNCHANGED Topk!vars
      /\ \A r : Topk!WouldEnter(r)' <=> Topk!WouldEnter(r)
      /\ docid' \in [Lists -> 0..NumDocs]
      /\ \A u \in Lists : u # t => docid'[u] = docid[u]
      /\ docid'[t] > docid[t]
      /\ \A u \in Lists : docid'[u] >= docid[u]
  BY <1>1, <1>2, <1>3, AdvanceOneStep
<1>5. /\ ordered_enums' \in Bijection(Lists, Lists)
      /\ \A a, b \in Lists : a < b => docid'[ordered_enums'[a]] <= docid'[ordered_enums'[b]]
  BY <1>1, <1>4, BubbleDownSorts
<1>6. AtBlocks(block)' /\ NoBlockLeftBehind'
  BY <1>4, BlocksStep
<1>7. IndInv'
  BY <1>4, <1>5, <1>6, SameLists DEF IndInv, ListsInOrder, At
<1> QED BY <1>2, <1>4, <1>7

LEMMA AdvanceStep ==
  ASSUME Storage = "raw", IndInv, pc = "search", Pivot # 0,
         AdvanceToPivot(Pivot), UNCHANGED <<query, pc>>,
         block' = MovedBlocks(Pivot)
  PROVE  /\ IndInv' /\ UNCHANGED Topk!vars
         /\ \E t \in Lists : docid'[t] > docid[t]
         /\ \A t \in Lists : docid'[t] >= docid[t]
<1> DEFINE id == At(Pivot)
           B == {j \in 1..Pivot : At(j) # id}
           i == Greatest(B)
           t == ordered_enums[i]
<1>1. id # At(1) /\ UNCHANGED topk
  BY DEF AdvanceToPivot
<1>2. PICK kind \in Kinds :
        LET to == NextGeq(kind, t, id) IN
        /\ docid' = [docid EXCEPT ![t] = to]
        /\ ordered_enums' = BubbleDown(i, {u \in Lists : docid[u] <= to})
  BY DEF AdvanceToPivot
<1> DEFINE to == NextGeq(kind, t, id)
<1>3. /\ Pivot \in Lists /\ 1 \in 1..Pivot /\ 1..Pivot \subseteq Lists
      /\ IsFiniteSet(Lists) /\ Lists \subseteq Int
      /\ id \in 0..NumDocs /\ id \in Int /\ NumDocs \in Nat
      /\ docid \in [Lists -> 0..NumDocs] /\ ordered_enums \in [Lists -> Lists]
  <2>1. Pivot \in Lists /\ query \in Queries
    BY InvFacts, PivotIs
  <2>2. 1 \in 1..Pivot /\ 1..Pivot \subseteq Lists /\ Lists \subseteq Int
    BY <2>1, QueryFacts DEF Lists
  <2> QED BY <2>1, <2>2, QueryFacts, InvFacts
<1>4. i \in B
  <2>1. B # {} /\ B \in SUBSET Lists
    BY <1>1, <1>3
  <2>2. IsFiniteSet(B) /\ \A x \in B : x \in Int
    <3> HIDE DEF B
    <3> QED BY <1>3, <2>1, FS_Subset
  <2> HIDE DEF B
  <2> QED BY <2>1, <2>2, GreatestIs
<1>5. i \in Lists /\ i <= Pivot /\ At(i) # id
  BY <1>3, <1>4
<1> HIDE DEF i
<1>6. t \in Lists /\ docid[t] < id
  <2>1. At(i) <= id /\ At(i) \in Int
    BY <1>3, <1>5, InvFacts
  <2>2. t \in Lists /\ docid[t] = At(i)
    BY <1>3, <1>5 DEF At
  <2> HIDE DEF id
  <2> QED BY <1>3, <1>5, <2>1, <2>2
<1>7. docid'[t] = to /\ docid' = [docid EXCEPT ![t] = NextGeq(kind, t, id)]
  BY <1>2, <1>3, <1>6
<1>8. to \in 0..NumDocs /\ to \in Int
  <2>1. docid[t] \in 0..NumDocs /\ docid[t] <= id
    <3> HIDE DEF id, t
    <3> QED BY <1>3, <1>6
  <2>2. NextGeq(kind, t, id) \in 0..NumDocs
    <3> HIDE DEF t, id
    <3> QED BY <1>3, <1>6, <2>1, NextGeqLands, InvFacts
  <2> QED BY <1>2, <1>3, <2>2
<1> DEFINE within == {u \in Lists : docid[u] <= to}
<1>9. /\ \A u \in Lists : u \in within => docid[u] <= to
      /\ \A u \in Lists : u \notin within => to <= docid[u]
  BY <1>3, <1>8
<1>10. \A d \in Docs : ~(id <= d /\ d < id)
  BY <1>3 DEF Docs
<1>11. UNCHANGED <<query, pc, m_q, threshold, offered, sorted>>
  BY <1>1 DEF topk
<1>12. ordered_enums' = BubbleDown(i, within)
  BY <1>2
<1> HIDE DEF within, to
<1> QED BY <1>3, <1>5, <1>6, <1>7, <1>9, <1>10, <1>11, <1>12, MoveStep

(* The list that skips ahead is one of those up to the pivot.              *)
LEMMA SkipStep ==
  ASSUME Storage = "raw", IndInv, pc = "search", Pivot # 0,
         ~Promising(Pivot), SkipBlock(Pivot), UNCHANGED <<query, pc>>,
         block' = MovedBlocks(Pivot)
  PROVE  /\ IndInv' /\ UNCHANGED Topk!vars
         /\ \E t \in Lists : docid'[t] > docid[t]
         /\ \A t \in Lists : docid'[t] >= docid[t]
<1> DEFINE id == At(Pivot)
           weight(j) == query.q_weight[ordered_enums[j]]
           largest == {j \in 1..Pivot : \A h \in 1..Pivot : weight(h) <= weight(j)}
           i == IF Pivot \in largest THEN Pivot
                ELSE CHOOSE j \in largest : \A h \in largest : j <= h
           t == ordered_enums[i]
           s == SkipTo(Pivot, MovedBlocks(Pivot))
<1>1. UNCHANGED topk
  BY DEF SkipBlock
<1>2. PICK kind \in Kinds :
        LET to == NextGeq(kind, t, s) IN
        /\ docid' = [docid EXCEPT ![t] = to]
        /\ ordered_enums' = BubbleDown(i, {u \in Lists : docid[u] < to})
  <2>1. \E kind \in Kinds : \E to \in {NextGeq(kind, t, s)} :
          /\ docid' = [docid EXCEPT ![t] = to]
          /\ ordered_enums' = BubbleDown(i, {u \in Lists : docid[u] < to})
    BY DEF SkipBlock
  <2> HIDE DEF s, t, i
  <2> QED BY <2>1
<1> DEFINE to == NextGeq(kind, t, s)
<1>3. /\ query \in Queries /\ Pivot \in Lists /\ Pivot \in 1..Pivot
      /\ 1..Pivot \subseteq Lists /\ 1..Pivot \in SUBSET Nat
      /\ id \in Int /\ NumDocs \in Nat
      /\ docid \in [Lists -> 0..NumDocs] /\ ordered_enums \in [Lists -> Lists]
      /\ \A u \in Lists : query.q_weight[u] \in Nat
      /\ IsFiniteSet(1..Pivot)
  <2>1. Pivot \in Lists /\ query \in Queries
    BY InvFacts, PivotIs
  <2>2. Pivot \in 1..Pivot /\ 1..Pivot \subseteq Lists /\ 1..Pivot \in SUBSET Nat
    BY <2>1, QueryFacts DEF Lists
  <2>3. IsFiniteSet(1..Pivot)
    BY <2>1, <2>2, QueryFacts, FS_Subset
  <2> QED BY <2>1, <2>2, <2>3, QueryFacts, InvFacts
<1>4. largest # {}
  <2> DEFINE w == [j \in 1..Pivot |-> weight(j)]
             W == {w[j] : j \in 1..Pivot}
  <2>1. IsFiniteSet(W)
    <3> HIDE DEF w
    <3> QED BY <1>3, ImageIsFinite
  <2>2. W # {} /\ \A x \in W : x \in Int
    <3>1. \A j \in 1..Pivot : ordered_enums[j] \in Lists
      BY <1>3
    <3>2. \A j \in 1..Pivot : w[j] \in Int
      BY <1>3, <3>1
    <3>3. Pivot \in 1..Pivot
      BY <1>3
    <3> HIDE DEF w
    <3> QED BY <3>2, <3>3
  <2>3. Greatest(W) \in W /\ \A y \in W : y <= Greatest(W)
    <3> HIDE DEF W
    <3> QED BY <2>1, <2>2, GreatestIs
  <2>4. PICK j \in 1..Pivot : Greatest(W) = weight(j)
    BY <2>3
  <2>5. \A h \in 1..Pivot : weight(h) \in W
    OBVIOUS
  <2>6. j \in largest
    <3> HIDE DEF W, weight
    <3> QED BY <2>3, <2>4, <2>5
  <2> QED BY <2>6
<1>5. i \in 1..Pivot
  <2>1. largest \in SUBSET Nat /\ largest \subseteq 1..Pivot
    BY <1>3
  <2>2. \E j \in largest : \A h \in largest : j <= h
    <3> HIDE DEF largest
    <3> QED BY <1>4, <2>1, LeastOf
  <2> HIDE DEF largest
  <2> QED BY <1>3, <2>1, <2>2
<1>6. i \in Lists /\ i <= Pivot
  BY <1>3, <1>5
<1> HIDE DEF i, s
<1>7. /\ s \in 0..NumDocs /\ id < s
      /\ \A d \in Docs : id <= d /\ d < s /\ (\A u \in Matching(d) : docid[u] <= d)
                           => InView(d)
  BY SkipToIs DEF s
<1>8. t \in Lists /\ docid[t] < s
  <2>1. At(i) <= id /\ At(i) \in Int
    BY <1>3, <1>6, InvFacts
  <2>2. t \in Lists /\ docid[t] = At(i)
    BY <1>3, <1>6 DEF At
  <2> HIDE DEF id
  <2> QED BY <1>3, <1>7, <2>1, <2>2
<1>9. docid'[t] = to /\ docid' = [docid EXCEPT ![t] = NextGeq(kind, t, s)]
  BY <1>2, <1>3, <1>8
<1>10. to \in 0..NumDocs /\ to \in Int
  <2>1. docid[t] \in 0..NumDocs /\ docid[t] <= s
    BY <1>3, <1>7, <1>8
  <2>2. NextGeq(kind, t, s) \in 0..NumDocs
    <3> HIDE DEF t
    <3> QED BY <1>3, <1>7, <1>8, <2>1, NextGeqLands
  <2> QED BY <1>2, <1>3, <2>2
<1> DEFINE within == {u \in Lists : docid[u] < to}
<1>11. /\ \A u \in Lists : u \in within => docid[u] <= to
       /\ \A u \in Lists : u \notin within => to <= docid[u]
  BY <1>3, <1>10
<1>12. \A d \in Docs :
         /\ id <= d /\ d < s /\ Matching(d) # {}
         /\ \A u \in Matching(d) : docid[u] <= d
         => ~Topk!WouldEnter(FullScore(d))
  BY <1>7, NotPromising
<1>13. UNCHANGED <<query, pc, m_q, threshold, offered, sorted>>
  BY <1>1 DEF topk
<1>14. ordered_enums' = BubbleDown(i, within)
  BY <1>2
<1> HIDE DEF within, to
<1> QED BY <1>6, <1>7, <1>8, <1>9, <1>11, <1>12, <1>13, <1>14, MoveStep

LEMMA FinishStep ==
  ASSUME Storage = "raw", IndInv, Finish
  PROVE  IndInv' /\ Topk!Next
<1>1. /\ query \in Queries /\ QueueInv /\ pc = "search" /\ Pivot = 0
      /\ Return /\ ordered_enums' = ordered_enums /\ block' = block
  BY InvFacts DEF IndInv, Finish
<1>2. NothingLeft
  BY <1>1, BeforePivot DEF NothingLeft
<1>3. QueueInv' /\ Topk!Next
  BY <1>1, <1>2, ReturnStep
<1>4. query' = query /\ pc' = "done"
  BY <1>1 DEF Return
<1>5. ordered_enums' \in Bijection(Lists', Lists')
  BY <1>1, <1>4, SameLists DEF IndInv
<1>6. AtBlocks(block)'
  BY <1>1, <1>4, SameLists DEF IndInv, AtBlocks
<1> QED BY <1>3, <1>4, <1>5, <1>6
        DEF IndInv, ListsInOrder, SkippedIsHopeless, NoBlockLeftBehind

(* No pass leaves every enumerator where it is, and none goes back.        *)
LEMMA PassStep ==
  ASSUME Storage = "raw", IndInv, Pass
  PROVE  /\ IndInv' /\ [Topk!Next]_(Topk!vars)
         /\ \E t \in Lists : docid'[t] > docid[t]
         /\ \A t \in Lists : docid'[t] >= docid[t]
<1>1. /\ pc = "search" /\ Pivot # 0 /\ UNCHANGED <<query, pc>>
      /\ block' = MovedBlocks(Pivot)
      /\ \/ ScorePivot(Pivot)
         \/ AdvanceToPivot(Pivot)
         \/ ~Promising(Pivot) /\ SkipBlock(Pivot)
  BY DEF Pass
<1> QED BY <1>1, ScorePivotStep, AdvanceStep, SkipStep

LEMMA StepInv ==
  ASSUME Storage = "raw", IndInv, [Next]_vars
  PROVE  IndInv' /\ [Topk!Next]_(Topk!vars)
<1>1. CASE UNCHANGED vars
  <2>1. /\ UNCHANGED <<query, pc, m_q, threshold, offered, sorted>>
        /\ docid' = docid /\ ordered_enums' = ordered_enums /\ block' = block
    BY <1>1 DEF vars
  <2>2. docid' \in [Lists -> 0..NumDocs]
    BY <2>1, InvFacts
  <2>3. QueueInv' /\ \A r : Topk!WouldEnter(r)' <=> Topk!WouldEnter(r)
    BY <2>1, <2>2, QuietStep DEF IndInv
  <2>4. EnumsOnLists' <=> EnumsOnLists
    BY <2>1, SameLists DEF EnumsOnLists
  <2>5. SkippedIsHopeless'
    <3>1. SUFFICES ASSUME pc = "search", NEW d \in Docs, NotOffered(d),
                          NEW t \in Matching(d), docid[t] > d
                   PROVE  \E r : r = FullScore(d) /\ ~Topk!WouldEnter(r)'
      BY <2>1, SameLists DEF SkippedIsHopeless, NotOffered
    <3>2. ~Topk!WouldEnter(FullScore(d))
      BY <3>1 DEF IndInv, SkippedIsHopeless
    <3> QED BY <2>3, <3>2
  <2>6. ListsInOrder' /\ ordered_enums' \in Bijection(Lists', Lists')
    BY <2>1, SameLists DEF ListsInOrder, At, IndInv
  <2>7. UNCHANGED Topk!vars
    BY <2>1 DEF Topk!vars
  <2>8. AtBlocks(block)'
    BY <2>1, SameLists DEF IndInv, AtBlocks
  <2>9. NoBlockLeftBehind'
    <3>1. SUFFICES ASSUME pc = "search", NEW t \in Lists, NEW d \in Postings(t),
                          d >= docid[t], NEW b \in Blocks(t), d <= b, b < block[t]
                   PROVE  \E r : r = FullScore(d) /\ ~Topk!WouldEnter(r)'
      BY <2>1, SameLists DEF NoBlockLeftBehind
    <3>2. ~Topk!WouldEnter(FullScore(d))
      BY <3>1 DEF IndInv, NoBlockLeftBehind
    <3> QED BY <2>3, <3>2
  <2> QED BY <2>1, <2>3, <2>4, <2>5, <2>6, <2>7, <2>8, <2>9 DEF IndInv
<1> QED BY <1>1, PassStep, FinishStep DEF Next

LEMMA Inductive ==
  ASSUME Storage = "raw"
  PROVE  Spec => []IndInv
BY InitInv, StepInv, PTL DEF Spec

(* What the invariants of the queries follow from.                         *)
LEMMA Implied ==
  ASSUME IndInv
  PROVE  /\ TypeOK /\ AnswerIsExhaustive /\ QueueScoresAreFull
         /\ SkippedIsHopeless /\ ListsInOrder /\ NoBlockLeftBehind
<1>1. ordered_enums \in [Lists -> Lists] /\ IsInjective(ordered_enums)
  BY BijectionMeans DEF IndInv, IsInjective
<1> QED BY <1>1 DEF IndInv, QueueInv, TypeOK, AtBlocks
-----------------------------------------------------------------------------
(* Every variable keeps its type: the order is always one of all lists.    *)
THEOREM TypeCorrect ==
  ASSUME Storage = "raw"
  PROVE  Spec => []TypeOK
BY Inductive, Implied, PTL

(* block_max_wand_query returns the answer of an exhaustive evaluation.     *)
THEOREM IsExhaustive ==
  ASSUME Storage = "raw"
  PROVE  Spec => []AnswerIsExhaustive
BY Inductive, Implied, PTL

(* Scoring that is given up half way offers no partial score that enters.  *)
THEOREM ScoresAreFull ==
  ASSUME Storage = "raw"
  PROVE  Spec => []QueueScoresAreFull
BY Inductive, Implied, PTL

(* What an enumerator has jumped over cannot enter the queue any more.     *)
THEOREM SkippedStaysOut ==
  ASSUME Storage = "raw"
  PROVE  Spec => []SkippedIsHopeless
BY Inductive, Implied, PTL

(* Bubbling one list down leaves the lists as sorted as sorting would.     *)
THEOREM OrderIsKept ==
  ASSUME Storage = "raw"
  PROVE  Spec => []ListsInOrder
BY Inductive, Implied, PTL

(* No block that was left has a document that could still enter.           *)
THEOREM NothingLeftBehind ==
  ASSUME Storage = "raw"
  PROVE  Spec => []NoBlockLeftBehind
BY Inductive, Implied, PTL

(* The search is a legal use of topk_queue.                                *)
THEOREM ImplementsQueue ==
  ASSUME Storage = "raw"
  PROVE  Spec => UsesQueueLegally
<1>1. Init => Topk!Init
  BY InitQueue DEF Init
<1> QED BY <1>1, Inductive, StepInv, PTL DEF Spec, UsesQueueLegally, Topk!Spec
=============================================================================
