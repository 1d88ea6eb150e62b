--------------------------- MODULE TopkQueueProofs ---------------------------
(***************************************************************************)
(* Proofs about TopkQueue for every size k of the queue, any documents and *)
(* any set of integer scores.                                              *)
(***************************************************************************)
EXTENDS TopkQueue, SequenceTheorems, FiniteSetTheorems, TLAPS

(* While the vector is a heap it has at most k elements, and threshold is  *)
(* the score of its front, stale values from earlier queries gone with the *)
(* first insert.                                                           *)
ThresholdIsFront ==
    sorted = "heap" =>
        /\ Len(m_q) <= K
        /\ m_q # <<>> =>
             \E i \in 1..Len(m_q) : IsFront(m_q, i) /\ threshold = m_q[i].score

IndInv == TypeOK /\ ThresholdIsFront /\ KeepsTheBest /\ ResultIsTopK
-----------------------------------------------------------------------------
LEMMA HeapLength == TypeOK => Len(m_q) \in Nat
BY DEF TypeOK

LEMMA ElementType ==
  ASSUME TypeOK, NEW i \in 1..Len(m_q)
  PROVE  /\ m_q[i] \in Entries
         /\ m_q[i].score \in Scores
         /\ m_q[i].score \in Int
<1>1. m_q[i] \in Entries
  BY ElementOfSeq DEF TypeOK
<1> QED BY <1>1, TopkAssumption DEF Entries

LEMMA ScoreType ==
  ASSUME NEW e \in Entries
  PROVE  e.score \in Scores /\ e.score \in Int
BY TopkAssumption DEF Entries

(* The threshold of a full queue is a lower bound of its scores, and one   *)
(* of them.                                                                *)
LEMMA FullThreshold ==
  ASSUME TypeOK, ThresholdIsFront, sorted = "heap", Len(m_q) >= K
  PROVE  /\ Len(m_q) = K /\ threshold \in Int
         /\ \A j \in 1..Len(m_q) : threshold <= m_q[j].score
         /\ \E i \in 1..Len(m_q) : threshold = m_q[i].score
<1>1. Len(m_q) \in Nat /\ Len(m_q) = K /\ Len(m_q) # 0
  BY HeapLength, TopkAssumption DEF ThresholdIsFront
<1>2. m_q # <<>>
  BY <1>1, EmptySeq DEF TypeOK
<1>3. PICK i \in 1..Len(m_q) : IsFront(m_q, i) /\ threshold = m_q[i].score
  BY <1>2 DEF ThresholdIsFront
<1> QED BY <1>1, <1>3, ElementType DEF IsFront

(* The two ways in which insert changes the vector, element by element.    *)
LEMMA PushShape ==
  ASSUME TypeOK, NEW e \in Entries, m_q' = Append(m_q, e)
  PROVE  /\ m_q' \in Seq(Entries)
         /\ Len(m_q') = Len(m_q) + 1
         /\ m_q'[Len(m_q) + 1] = e
         /\ \A j \in 1..Len(m_q) : m_q'[j] = m_q[j]
BY AppendProperties DEF TypeOK

LEMMA ReplaceShape ==
  ASSUME TypeOK, NEW e \in Entries, NEW i \in 1..Len(m_q),
         m_q' = [m_q EXCEPT ![i] = e]
  PROVE  /\ m_q' \in Seq(Entries)
         /\ Len(m_q') = Len(m_q)
         /\ m_q'[i] = e
         /\ \A j \in 1..Len(m_q) : j # i => m_q'[j] = m_q[j]
BY ExceptSeq DEF TypeOK

(* What finalize leaves: the positive elements, each once, in order.       *)
LEMMA FinalizeShape ==
  ASSUME TypeOK, Finalize
  PROVE  \E n \in 0..Len(m_q) :
         \E p \in Bijection(1..n, {i \in 1..Len(m_q) : m_q[i].score > 0}) :
           /\ m_q' \in Seq(Entries)
           /\ Len(m_q') = n
           /\ \A i \in 1..n : m_q'[i] = m_q[p[i]] /\ p[i] \in 1..Len(m_q)
           /\ \A i \in 1..(n - 1) : m_q[p[i]].score >= m_q[p[i + 1]].score
<1> DEFINE Positive == {i \in 1..Len(m_q) : m_q[i].score > 0}
<1>0. PICK n \in 0..Len(m_q) :
        \E p \in Bijection(1..n, Positive) :
          /\ \A i \in 1..(n - 1) : m_q[p[i]].score >= m_q[p[i + 1]].score
          /\ m_q' = [i \in 1..n |-> m_q[p[i]]]
  BY DEF Finalize
<1>1. PICK p \in Bijection(1..n, Positive) :
        /\ \A i \in 1..(n - 1) : m_q[p[i]].score >= m_q[p[i + 1]].score
        /\ m_q' = [i \in 1..n |-> m_q[p[i]]]
  BY <1>0
<1>2. \A i \in 1..n : p[i] \in Positive
  BY <1>1 DEF Bijection, Injection
<1>3. \A i \in 1..n : p[i] \in 1..Len(m_q) /\ m_q[p[i]] \in Entries
  BY <1>2, ElementType
<1>4. n \in Nat
  BY HeapLength
<1>5. m_q' \in Seq(Entries) /\ Len(m_q') = n
  BY <1>1, <1>3, <1>4
<1> QED BY <1>1, <1>3, <1>5
-----------------------------------------------------------------------------
LEMMA InitInv == Init => IndInv
<1> SUFFICES ASSUME Init PROVE IndInv
  OBVIOUS
<1>1. m_q = <<>> /\ m_q \in Seq(Entries) /\ Len(m_q) = 0
  BY EmptySeq DEF Init
<1>2. TypeOK
  BY <1>1 DEF Init, TypeOK
<1>3. ThresholdIsFront
  BY <1>1, TopkAssumption DEF ThresholdIsFront
<1>4. KeepsTheBest /\ ResultIsTopK
  BY <1>1 DEF Init, KeepsTheBest, ResultIsTopK
<1> QED BY <1>2, <1>3, <1>4 DEF IndInv

LEMMA TypeStep == TypeOK /\ [Next]_vars => TypeOK'
<1> SUFFICES ASSUME TypeOK, [Next]_vars PROVE TypeOK'
  OBVIOUS
<1>1. CASE Clear
  BY <1>1 DEF Clear, TypeOK
<1>2. ASSUME NEW e \in Entries, Insert(e) PROVE TypeOK'
  <2>1. m_q' \in Seq(Entries) /\ threshold' \in Scores
    <3>1. CASE InsertReject(e)
      BY <3>1 DEF InsertReject, TypeOK
    <3>2. ASSUME m_q' \in Seq(Entries), NewThreshold PROVE threshold' \in Scores
      <4>1. PICK i \in 1..Len(m_q') : threshold' = m_q'[i].score
        BY <3>2 DEF NewThreshold
      <4>2. m_q'[i] \in Entries
        BY <3>2, ElementOfSeq
      <4> QED BY <4>1, <4>2, ScoreType
    <3>3. CASE InsertPush(e)
      BY <3>2, <3>3, PushShape DEF InsertPush
    <3>4. CASE InsertReplace(e)
      BY <3>2, <3>4, ReplaceShape DEF InsertReplace
    <3> QED BY <1>2, <3>1, <3>3, <3>4 DEF Insert
  <2> QED BY <1>2, <2>1 DEF Insert, TypeOK
<1>3. CASE Finalize
  <2>1. m_q' \in Seq(Entries)
    BY <1>3, FinalizeShape
  <2> QED BY <1>3, <2>1 DEF Finalize, TypeOK
<1>4. CASE UNCHANGED vars
  BY <1>4 DEF vars, TypeOK
<1> QED BY <1>1, <1>2, <1>3, <1>4 DEF Next, Offer

LEMMA ThresholdStep ==
  TypeOK /\ ThresholdIsFront /\ [Next]_vars => ThresholdIsFront'
<1> SUFFICES ASSUME TypeOK, ThresholdIsFront, [Next]_vars
             PROVE  ThresholdIsFront'
  OBVIOUS
<1>1. CASE Clear
  BY <1>1, TopkAssumption DEF Clear, ThresholdIsFront
<1>2. ASSUME NEW e \in Entries, Insert(e) PROVE ThresholdIsFront'
  <2>1. NewThreshold =>
          \E i \in 1..Len(m_q') : IsFront(m_q', i) /\ threshold' = m_q'[i].score
    BY DEF NewThreshold
  <2>2. CASE InsertPush(e)
    <3>1. Len(m_q') <= K
      BY <2>2, PushShape, HeapLength, TopkAssumption DEF InsertPush
    <3> QED BY <2>1, <2>2, <3>1 DEF InsertPush, ThresholdIsFront
  <2>3. CASE InsertReplace(e)
    <3>1. Len(m_q') <= K
      BY <1>2, <2>3, ReplaceShape DEF InsertReplace, Insert, ThresholdIsFront
    <3> QED BY <2>1, <2>3, <3>1 DEF InsertReplace, ThresholdIsFront
  <2>4. CASE InsertReject(e)
    BY <1>2, <2>4 DEF InsertReject, Insert, ThresholdIsFront
  <2> QED BY <1>2, <2>2, <2>3, <2>4 DEF Insert
<1>3. CASE Finalize
  BY <1>3 DEF Finalize, ThresholdIsFront
<1>4. CASE UNCHANGED vars
  BY <1>4 DEF vars, ThresholdIsFront
<1> QED BY <1>1, <1>2, <1>3, <1>4 DEF Next, Offer

(* insert keeps what the queue has and takes the new document when it is   *)
(* better than the front, which it gives up.                               *)
LEMMA PushKeepsBest ==
  ASSUME TypeOK, KeepsTheBest, sorted = "heap", NEW e \in Entries,
         \A f \in offered : f.doc # e.doc,
         InsertPush(e), offered' = offered \cup {e}
  PROVE  KeepsTheBest'
<1>0. PICK n \in Nat : n = Len(m_q)
  BY HeapLength
<1>1. /\ Len(m_q') = n + 1 /\ m_q'[n + 1] = e
      /\ \A j \in 1..n : m_q'[j] = m_q[j]
  BY <1>0, PushShape DEF InsertPush
<1>2. \A j \in 1..(n + 1) : j \in 1..n \/ j = n + 1
  OBVIOUS
<1>3. \A j \in 1..n : m_q[j] \in offered /\ m_q[j].doc # e.doc
  BY <1>0 DEF KeepsTheBest
<1>4. \A j \in 1..(n + 1) : m_q'[j] \in offered'
  BY <1>1, <1>2, <1>3
<1>5. \A i, j \in 1..(n + 1) : m_q'[i].doc = m_q'[j].doc => i = j
  <2>1. \A i, j \in 1..n : m_q[i].doc = m_q[j].doc => i = j
    BY <1>0 DEF KeepsTheBest
  <2> QED BY <1>1, <1>2, <1>3, <2>1
<1>6. ASSUME NEW f \in offered' PROVE InHeap(f)'
  <2>1. CASE f = e
    BY <1>1, <2>1 DEF InHeap
  <2>2. CASE f # e
    <3>1. f \in offered /\ n # K
      BY <1>0, <2>2, TopkAssumption DEF InsertPush
    <3>2. PICK j \in 1..n : m_q[j] = f
      BY <1>0, <3>1 DEF KeepsTheBest, InHeap
    <3> QED BY <1>1, <3>2 DEF InHeap
  <2> QED BY <2>1, <2>2
<1> QED BY <1>1, <1>4, <1>5, <1>6 DEF KeepsTheBest

LEMMA ReplaceKeepsBest ==
  ASSUME TypeOK, ThresholdIsFront, KeepsTheBest, sorted = "heap",
         NEW e \in Entries, \A f \in offered : f.doc # e.doc,
         InsertReplace(e), offered' = offered \cup {e}
  PROVE  KeepsTheBest'
<1>0. PICK n \in Nat : n = Len(m_q)
  BY HeapLength
<1>1. PICK h \in 1..n : IsFront(m_q, h) /\ m_q' = [m_q EXCEPT ![h] = e]
  BY <1>0 DEF InsertReplace
<1>2. /\ Len(m_q') = n /\ m_q'[h] = e
      /\ \A j \in 1..n : j # h => m_q'[j] = m_q[j]
  BY <1>0, <1>1, ReplaceShape
<1>3. /\ n = K /\ e.score \in Int
      /\ \A j \in 1..n : m_q[j].score \in Int /\ m_q[h].score <= m_q[j].score
  BY <1>0, <1>1, FullThreshold, ElementType, ScoreType DEF InsertReplace, IsFront
<1>4. m_q[h].score < e.score
  <2>1. threshold < e.score
    BY <1>0, <1>3, FullThreshold DEF InsertReplace
  <2>2. PICK j \in 1..n : threshold = m_q[j].score
    BY <1>0, <1>3, FullThreshold
  <2> QED BY <1>3, <2>1, <2>2
<1>5. \A j \in 1..n : m_q[j] \in offered /\ m_q[j].doc # e.doc
  BY <1>0 DEF KeepsTheBest
<1>6. \A j \in 1..n : m_q'[j] \in offered'
  BY <1>2, <1>5
<1>7. \A i, j \in 1..n : m_q'[i].doc = m_q'[j].doc => i = j
  <2>1. \A i, j \in 1..n : m_q[i].doc = m_q[j].doc => i = j
    BY <1>0 DEF KeepsTheBest
  <2> QED BY <1>2, <1>5, <2>1
<1>8. \A j \in 1..n : m_q'[j].score \in Int /\ m_q[h].score <= m_q'[j].score
  BY <1>2, <1>3, <1>4
<1>9. ASSUME NEW f \in offered', ~InHeap(f)'
      PROVE  \A j \in 1..n : f.score <= m_q'[j].score
  <2>1. f \in offered /\ f \in Entries /\ f.score \in Int
    <3>1. f # e
      BY <1>2, <1>9 DEF InHeap
    <3> QED BY <3>1, ScoreType DEF TypeOK
  <2>2. CASE InHeap(f)
    <3>1. PICK j \in 1..n : m_q[j] = f
      BY <1>0, <2>2 DEF InHeap
    <3>2. j = h
      BY <1>2, <1>9, <3>1 DEF InHeap
    <3> QED BY <1>8, <3>1, <3>2
  <2>3. CASE ~InHeap(f)
    <3>1. \A j \in 1..n : f.score <= m_q[j].score
      BY <1>0, <2>1, <2>3 DEF KeepsTheBest
    <3>2. f.score <= m_q[h].score
      BY <3>1
    <3> QED BY <1>3, <1>8, <2>1, <3>2
  <2> QED BY <2>2, <2>3
<1> QED BY <1>2, <1>3, <1>6, <1>7, <1>9 DEF KeepsTheBest

LEMMA RejectKeepsBest ==
  ASSUME TypeOK, ThresholdIsFront, KeepsTheBest, sorted = "heap",
         NEW e \in Entries, InsertReject(e), offered' = offered \cup {e},
         sorted' = sorted
  PROVE  KeepsTheBest'
<1>1. /\ Len(m_q) = K
      /\ \A j \in 1..Len(m_q) : e.score <= m_q[j].score
  <2>1. ~(e.score > threshold) /\ Len(m_q) >= K
    BY DEF InsertReject
  <2>2. threshold \in Int /\ \A j \in 1..Len(m_q) : threshold <= m_q[j].score
    BY <2>1, FullThreshold
  <2>3. Len(m_q) = K
    BY <2>1, FullThreshold
  <2> QED BY <2>1, <2>2, <2>3, ElementType, ScoreType
<1>2. m_q' = m_q
  BY DEF InsertReject
<1> QED BY <1>1, <1>2 DEF KeepsTheBest, InHeap

LEMMA KeepsBestStep ==
  TypeOK /\ ThresholdIsFront /\ KeepsTheBest /\ [Next]_vars => KeepsTheBest'
<1> SUFFICES ASSUME TypeOK, ThresholdIsFront, KeepsTheBest, [Next]_vars
             PROVE  KeepsTheBest'
  OBVIOUS
<1>1. CASE Clear
  <2>1. m_q' = <<>> /\ Len(m_q') = 0 /\ offered' = {}
    BY <1>1 DEF Clear
  <2> QED BY <2>1 DEF KeepsTheBest
<1>2. ASSUME NEW e \in Entries, \A f \in offered : f.doc # e.doc, Insert(e)
      PROVE  KeepsTheBest'
  BY <1>2, PushKeepsBest, ReplaceKeepsBest, RejectKeepsBest DEF Insert
<1>3. CASE Finalize
  BY <1>3 DEF Finalize, KeepsTheBest
<1>4. CASE UNCHANGED vars
  BY <1>4 DEF vars, KeepsTheBest, InHeap
<1> QED BY <1>1, <1>2, <1>3, <1>4 DEF Next, Offer

(* When every element is positive, finalize cuts nothing off.              *)
LEMMA AllPositive ==
  ASSUME NEW l \in Nat, NEW n \in 0..l, NEW q,
         \A i \in 1..l : q[i].score > 0,
         NEW p \in Bijection(1..n, {i \in 1..l : q[i].score > 0})
  PROVE  n = l
<1>1. {i \in 1..l : q[i].score > 0} = 1..l
  OBVIOUS
<1>2. ExistsBijection(1..n, 1..l)
  BY <1>1 DEF ExistsBijection
<1>3. /\ IsFiniteSet(1..n)
      /\ Cardinality(1..n) = IF 1 > n THEN 0 ELSE n - 1 + 1
  BY FS_Interval
<1>4. Cardinality(1..l) = IF 1 > l THEN 0 ELSE l - 1 + 1
  BY FS_Interval
<1>5. Cardinality(1..l) = Cardinality(1..n)
  BY <1>2, <1>3, FS_Bijection
<1> QED BY <1>3, <1>4, <1>5

LEMMA FinalizeIsTopK ==
  ASSUME TypeOK, KeepsTheBest, Finalize
  PROVE  ResultIsTopK'
<1>0. Len(m_q) \in Nat
  BY HeapLength
<1> DEFINE Positive == {i \in 1..Len(m_q) : m_q[i].score > 0}
<1>1. PICK n \in 0..Len(m_q) :
         \E p \in Bijection(1..n, Positive) :
           /\ m_q' \in Seq(Entries)
           /\ Len(m_q') = n
           /\ \A i \in 1..n : m_q'[i] = m_q[p[i]] /\ p[i] \in 1..Len(m_q)
           /\ \A i \in 1..(n - 1) : m_q[p[i]].score >= m_q[p[i + 1]].score
  BY FinalizeShape
<1>2. PICK p \in Bijection(1..n, Positive) :
           /\ Len(m_q') = n
           /\ \A i \in 1..n : m_q'[i] = m_q[p[i]] /\ p[i] \in 1..Len(m_q)
           /\ \A i \in 1..(n - 1) : m_q[p[i]].score >= m_q[p[i + 1]].score
  BY <1>1
<1>3. sorted = "heap" /\ sorted' = "sorted" /\ offered' = offered
  BY DEF Finalize
<1>4. \A i \in 1..n : p[i] \in Positive
  BY DEF Bijection, Injection
<1>5. \A j \in Positive : \E i \in 1..n : p[i] = j
  BY DEF Bijection, Surjection
<1>6. \A i \in 1..n : m_q'[i].score > 0 /\ m_q'[i] \in offered'
  BY <1>0, <1>2, <1>3, <1>4 DEF KeepsTheBest
<1>7. \A i \in 1..(n - 1) : m_q'[i].score >= m_q'[i + 1].score
  <2>1. \A i \in 1..(n - 1) : i \in 1..n /\ i + 1 \in 1..n
    BY <1>0
  <2> QED BY <1>2, <2>1
<1>8. ASSUME NEW f \in offered', f.score > 0, ~InHeap(f)'
      PROVE  n = K /\ \A i \in 1..n : f.score <= m_q'[i].score
  <2>1. ~InHeap(f)
    <3>1. SUFFICES ASSUME NEW j \in 1..Len(m_q), m_q[j] = f PROVE FALSE
      BY <1>0 DEF InHeap
    <3>2. j \in Positive
      BY <1>8, <3>1
    <3>3. PICK i \in 1..n : p[i] = j
      BY <1>5, <3>2
    <3> QED BY <1>2, <1>8, <3>1, <3>3 DEF InHeap
  <2>2. Len(m_q) = K /\ \A j \in 1..Len(m_q) : f.score <= m_q[j].score
    BY <1>0, <1>3, <2>1 DEF KeepsTheBest
  <2>3. f.score \in Int
    BY <1>3, ScoreType DEF TypeOK
  <2>4. \A j \in 1..Len(m_q) : m_q[j].score > 0
    BY <1>0, <1>8, <2>2, <2>3, ElementType
  <2>5. n = Len(m_q)
    BY <1>0, <2>4, AllPositive
  <2> QED BY <1>2, <2>2, <2>5
<1> QED BY <1>2, <1>6, <1>7, <1>8 DEF ResultIsTopK

(* After an insert the vector has what it had and perhaps the new pair,    *)
(* which a full queue takes only when its score would enter.               *)
LEMMA InsertElements ==
  ASSUME TypeOK, NEW e \in Entries, Insert(e)
  PROVE  /\ \A i \in 1..Len(m_q') :
              m_q'[i] = e \/ \E j \in 1..Len(m_q) : m_q'[i] = m_q[j]
         /\ ~WouldEnter(e.score) => m_q' = m_q
<1>0. Len(m_q) \in Nat
  BY HeapLength
<1>1. CASE InsertPush(e)
  <2>1. /\ Len(m_q') = Len(m_q) + 1 /\ m_q'[Len(m_q) + 1] = e
        /\ \A j \in 1..Len(m_q) : m_q'[j] = m_q[j]
    BY <1>1, PushShape DEF InsertPush
  <2>2. \A i \in 1..(Len(m_q) + 1) : i \in 1..Len(m_q) \/ i = Len(m_q) + 1
    BY <1>0
  <2>3. WouldEnter(e.score)
    BY <1>1 DEF InsertPush, WouldEnter
  <2> QED BY <2>1, <2>2, <2>3
<1>2. CASE InsertReplace(e)
  <2>1. PICK h \in 1..Len(m_q) : m_q' = [m_q EXCEPT ![h] = e]
    BY <1>2 DEF InsertReplace
  <2>2. /\ Len(m_q') = Len(m_q) /\ m_q'[h] = e
        /\ \A j \in 1..Len(m_q) : j # h => m_q'[j] = m_q[j]
    BY <2>1, ReplaceShape
  <2>3. WouldEnter(e.score)
    BY <1>2 DEF InsertReplace, WouldEnter
  <2> QED BY <2>2, <2>3
<1>3. CASE InsertReject(e)
  BY <1>3 DEF InsertReject
<1> QED BY <1>1, <1>2, <1>3 DEF Insert

(* finalize permutes and cuts: no element is new and none is there twice,  *)
(* and a positive score that would not enter the heap is beaten k times.   *)
LEMMA FinalizeKeepsElements ==
  ASSUME TypeOK, KeepsTheBest, Finalize
  PROVE  /\ \A i \in 1..Len(m_q') : \E j \in 1..Len(m_q) : m_q'[i] = m_q[j]
         /\ \A i, j \in 1..Len(m_q') : m_q'[i].doc = m_q'[j].doc => i = j
<1> DEFINE Positive == {i \in 1..Len(m_q) : m_q[i].score > 0}
<1>1. PICK n \in 0..Len(m_q) :
         \E p \in Bijection(1..n, Positive) :
           /\ m_q' \in Seq(Entries)
           /\ Len(m_q') = n
           /\ \A i \in 1..n : m_q'[i] = m_q[p[i]] /\ p[i] \in 1..Len(m_q)
           /\ \A i \in 1..(n - 1) : m_q[p[i]].score >= m_q[p[i + 1]].score
  BY FinalizeShape
<1>2. PICK p \in Bijection(1..n, Positive) :
           /\ Len(m_q') = n
           /\ \A i \in 1..n : m_q'[i] = m_q[p[i]] /\ p[i] \in 1..Len(m_q)
  BY <1>1
<1>3. \A i, j \in 1..n : p[i] = p[j] => i = j
  BY DEF Bijection, Injection, IsInjective
<1>4. \A i, j \in 1..Len(m_q) : m_q[i].doc = m_q[j].doc => i = j
  BY DEF KeepsTheBest, Finalize
<1>5. ASSUME NEW i \in 1..n, NEW j \in 1..n, m_q'[i].doc = m_q'[j].doc
      PROVE  i = j
  <2>1. p[i] = p[j]
    BY <1>2, <1>4, <1>5
  <2> QED BY <1>3, <2>1
<1> QED BY <1>2, <1>5

LEMMA FinalizeKeepsBar ==
  ASSUME IndInv, Finalize, NEW s \in Int, s > 0,
         Len(m_q) = K, \A i \in 1..Len(m_q) : s <= m_q[i].score
  PROVE  Len(m_q') = K /\ \A i \in 1..Len(m_q') : s <= m_q'[i].score
<1> DEFINE Positive == {i \in 1..Len(m_q) : m_q[i].score > 0}
<1>0. TypeOK /\ Len(m_q) \in Nat
  BY HeapLength DEF IndInv
<1>1. PICK n \in 0..Len(m_q) :
         \E p \in Bijection(1..n, Positive) :
           /\ m_q' \in Seq(Entries)
           /\ Len(m_q') = n
           /\ \A i \in 1..n : m_q'[i] = m_q[p[i]] /\ p[i] \in 1..Len(m_q)
           /\ \A i \in 1..(n - 1) : m_q[p[i]].score >= m_q[p[i + 1]].score
  BY <1>0, FinalizeShape
<1>2. PICK p \in Bijection(1..n, Positive) :
           /\ Len(m_q') = n
           /\ \A i \in 1..n : m_q'[i] = m_q[p[i]] /\ p[i] \in 1..Len(m_q)
  BY <1>1
<1>3. \A j \in 1..Len(m_q) : m_q[j].score > 0
  BY <1>0, ElementType
<1>4. n = Len(m_q)
  BY <1>0, <1>3, AllPositive
<1> QED BY <1>2, <1>4

LEMMA ResultStep ==
  TypeOK /\ KeepsTheBest /\ ResultIsTopK /\ [Next]_vars => ResultIsTopK'
<1> SUFFICES ASSUME TypeOK, KeepsTheBest, ResultIsTopK, [Next]_vars
             PROVE  ResultIsTopK'
  OBVIOUS
<1>1. CASE Clear
  BY <1>1 DEF Clear, ResultIsTopK
<1>2. ASSUME NEW e \in Entries, Insert(e) PROVE ResultIsTopK'
  BY <1>2 DEF Insert, ResultIsTopK
<1>3. CASE Finalize
  BY <1>3, FinalizeIsTopK
<1>4. CASE UNCHANGED vars
  BY <1>4 DEF vars, ResultIsTopK, InHeap
<1> QED BY <1>1, <1>2, <1>3, <1>4 DEF Next, Offer

(* would_enter tells whether a score is better than the worst one kept.    *)
LEMMA WouldEnterMeans ==
  ASSUME IndInv, sorted = "heap", NEW s \in Int
  PROVE  WouldEnter(s) <=> ~(/\ Len(m_q) >= K
                             /\ \A i \in 1..Len(m_q) : s <= m_q[i].score)
<1>0. Len(m_q) \in Nat /\ K \in Nat
  BY HeapLength, TopkAssumption DEF IndInv
<1>1. CASE Len(m_q) < K
  BY <1>0, <1>1 DEF WouldEnter
<1>2. CASE Len(m_q) >= K
  <2>1. threshold \in Int /\ \A j \in 1..Len(m_q) : threshold <= m_q[j].score
    BY <1>2, FullThreshold DEF IndInv
  <2>2. PICK i \in 1..Len(m_q) : threshold = m_q[i].score
    BY <1>2, FullThreshold DEF IndInv
  <2>3. \A j \in 1..Len(m_q) : m_q[j].score \in Int
    BY ElementType DEF IndInv
  <2>4. s > threshold <=> ~\A j \in 1..Len(m_q) : s <= m_q[j].score
    BY <2>1, <2>2, <2>3
  <2> QED BY <1>0, <1>2, <2>4 DEF WouldEnter
<1> QED BY <1>0, <1>1, <1>2

(* What would not enter before an insert does not enter after it.          *)
LEMMA BarStep ==
  ASSUME IndInv, IndInv', NEW e \in Entries, Insert(e),
         NEW s \in Int, ~WouldEnter(s)
  PROVE  ~WouldEnter(s)'
<1>1. sorted = "heap" /\ K \in Nat /\ Len(m_q) \in Nat
  BY HeapLength, TopkAssumption DEF Insert, IndInv
<1>2. ~(Len(m_q) < K) /\ ~(s > threshold)
  BY DEF WouldEnter
<1>3. Len(m_q) >= K
  BY <1>1, <1>2
<1>4. /\ Len(m_q) = K /\ threshold \in Int
      /\ \A j \in 1..Len(m_q) : threshold <= m_q[j].score
  <2>1. TypeOK /\ ThresholdIsFront
    BY DEF IndInv
  <2> QED BY <1>1, <1>3, <2>1, FullThreshold
<1>5. Len(m_q') = K /\ threshold' \in Int /\ threshold <= threshold'
  <2>1. CASE InsertPush(e)
    BY <1>1, <1>4, <2>1 DEF InsertPush
  <2>2. CASE InsertReject(e)
    BY <1>4, <2>2 DEF InsertReject
  <2>3. CASE InsertReplace(e)
    <3>1. PICK h \in 1..Len(m_q) : m_q' = [m_q EXCEPT ![h] = e]
      BY <2>3 DEF InsertReplace
    <3>2. /\ Len(m_q') = Len(m_q) /\ m_q'[h] = e
          /\ \A j \in 1..Len(m_q) : j # h => m_q'[j] = m_q[j]
      BY <3>1, ReplaceShape DEF IndInv
    <3>3. PICK i \in 1..Len(m_q') : threshold' = m_q'[i].score
      BY <2>3 DEF InsertReplace, NewThreshold
    <3>4. e.score \in Int /\ e.score > threshold
      BY <2>3, ScoreType DEF InsertReplace
    <3>5. m_q[i].score \in Int
      BY <3>2, <3>3, ElementType DEF IndInv
    <3>6. CASE i = h
      BY <1>4, <3>2, <3>3, <3>4, <3>6
    <3>7. CASE i # h
      BY <1>4, <3>2, <3>3, <3>5, <3>7
    <3> QED BY <3>6, <3>7
  <2> QED BY <2>1, <2>2, <2>3 DEF Insert
<1> QED BY <1>1, <1>2, <1>4, <1>5 DEF WouldEnter

LEMMA StepInv == IndInv /\ [Next]_vars => IndInv'
BY TypeStep, ThresholdStep, KeepsBestStep, ResultStep DEF IndInv

LEMMA Inductive == Spec => []IndInv
BY InitInv, StepInv, PTL DEF Spec
-----------------------------------------------------------------------------
(* Every variable keeps its type, for every k and any integer scores.      *)
THEOREM TypeCorrect == Spec => []TypeOK
<1>1. IndInv => TypeOK
  BY DEF IndInv
<1> QED BY <1>1, Inductive, PTL

(* insert keeps the k best of the documents offered since clear(), in      *)
(* whatever order they come and however std::pop_heap breaks ties.         *)
THEOREM HoldsTheBest == Spec => []KeepsTheBest
<1>1. IndInv => KeepsTheBest
  BY DEF IndInv
<1> QED BY <1>1, Inductive, PTL

(* would_enter says no exactly when the queue is full of documents that    *)
(* are as good, though threshold is never reset.                           *)
THEOREM WouldEnterCorrect == Spec => []WouldEnterIsRight
<1>1. Scores \subseteq Int
  BY TopkAssumption
<1>2. IndInv => WouldEnterIsRight
  BY <1>1, WouldEnterMeans DEF WouldEnterIsRight
<1> QED BY <1>2, Inductive, PTL

(* Within a query a full queue never lets in what it once would not: the   *)
(* documents the pruning algorithms skip stay skippable.                   *)
THEOREM BarIsMonotone == Spec => BarNeverFalls
<1>1. ASSUME IndInv, IndInv', Next, Len(m_q) = K, sorted' = "heap", m_q' # <<>>,
             NEW s \in Scores, ~WouldEnter(s)
      PROVE  ~WouldEnter(s)'
  <2>1. PICK e \in Entries : Insert(e)
    BY <1>1 DEF Next, Offer, Clear, Finalize
  <2>2. s \in Int
    BY TopkAssumption
  <2> QED BY <1>1, <2>1, <2>2, BarStep
<1>2. IndInv /\ IndInv' /\ [Next]_vars =>
        [(Len(m_q) = K /\ sorted' = "heap" /\ m_q' # <<>>) =>
           \A s \in Scores : ~WouldEnter(s) => ~WouldEnter(s)']_vars
  BY <1>1
<1> QED BY <1>2, Inductive, PTL DEF Spec, BarNeverFalls

(* finalize returns the k best positive scores, best first, and leaves out *)
(* a positive one only for k others that are as good.                      *)
THEOREM ReturnsTopK == Spec => []ResultIsTopK
<1>1. IndInv => ResultIsTopK
  BY DEF IndInv
<1> QED BY <1>1, Inductive, PTL
=============================================================================
