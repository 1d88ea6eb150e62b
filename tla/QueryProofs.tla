----------------------------- MODULE QueryProofs -----------------------------
(***************************************************************************)
(* What the proofs about the query algorithms share: sums of parts of      *)
(* scores, where an enumerator lands, and what a step of a search does to  *)
(* the queue.  The queue is reasoned about by the lemmas of                *)
(* TopkQueueProofs, of which it is an instance.                            *)
(***************************************************************************)
EXTENDS WandData, WellFoundedInduction, FiniteSetTheorems, TLAPS

(* Every set of natural numbers has a least element, and every set of      *)
(* subsets of a finite set a smallest one: proofs by induction are proofs  *)
(* by a smallest counterexample.                                           *)
LEMMA LeastOf ==
  ASSUME NEW T \in SUBSET Nat, T # {}
  PROVE  \E x \in T : \A y \in T : x <= y
<1> DEFINE R == OpToRel(<, Nat)
<1>1. IsWellFoundedOn(R, Nat)
  BY Zenon, NatLessThanWellFounded
<1>2. PICK x \in T : \A y \in T : ~(<<y, x>> \in R)
  <2> HIDE DEF R
  <2> QED BY <1>1, WFMin
<1>3. \A y \in T : ~(y < x)
  BY <1>2 DEF OpToRel
<1> QED BY <1>3

LEMMA SmallestSet ==
  ASSUME NEW S, IsFiniteSet(S), NEW T \in SUBSET SUBSET S, T # {}
  PROVE  \E x \in T : \A y \in T : y \subseteq x => y = x
<1> DEFINE R == StrictSubsetOrdering(S)
           F == FiniteSubsetsOf(S)
<1>1. IsWellFoundedOn(R, F)
  BY FS_StrictSubsetOrderingWellFounded
<1>2. T \subseteq F
  BY FS_Subset DEF FiniteSubsetsOf
<1>3. PICK x \in T : \A y \in T : ~(<<y, x>> \in R)
  <2> HIDE DEF R, F
  <2> QED BY <1>1, <1>2, WFMin
<1> QED BY <1>2, <1>3 DEF StrictSubsetOrdering
-----------------------------------------------------------------------------
(* Sums over finite sets.                                                  *)
Pick(s) == CHOOSE x \in s : TRUE

IsSum(f, g, S) ==
    g = [s \in SUBSET S |-> IF s = {} THEN 0 ELSE f[Pick(s)] + g[s \ {Pick(s)}]]

LEMMA PickIn == ASSUME NEW s, s # {} PROVE Pick(s) \in s
BY DEF Pick

LEMMA SumUnfold ==
  ASSUME NEW f, NEW S
  PROVE  SumFunctionOnSet(f, S) = (CHOOSE g : IsSum(f, g, S))[S]
BY DEF SumFunctionOnSet, FoldFunctionOnSet, MapThenFoldSet, IsSum, Pick

LEMMA SumAt ==
  ASSUME NEW f, NEW g, NEW S, IsSum(f, g, S), NEW s \in SUBSET S
  PROVE  g[s] = IF s = {} THEN 0 ELSE f[Pick(s)] + g[s \ {Pick(s)}]
BY DEF IsSum

LEMMA SumUnique ==
  ASSUME NEW f, NEW g, NEW h, NEW S, NEW T, IsSum(f, g, S), IsSum(f, h, T),
         NEW U \in SUBSET (S \cap T), IsFiniteSet(U)
  PROVE  g[U] = h[U]
<1> DEFINE C == {s \in SUBSET U : g[s] # h[s]}
<1>1. SUFFICES ASSUME C # {} PROVE FALSE
  OBVIOUS
<1>2. PICK s \in C : \A r \in C : r \subseteq s => r = s
  <2>1. C \in SUBSET SUBSET U
    OBVIOUS
  <2> HIDE DEF C
  <2> QED BY <1>1, <2>1, SmallestSet
<1>3. s \in SUBSET S /\ s \in SUBSET T
  BY <1>2
<1>4. CASE s = {}
  BY <1>3, <1>4, SumAt
<1>5. CASE s # {}
  <2>1. s \ {Pick(s)} \notin C
    BY <1>2, <1>5, PickIn
  <2>2. g[s \ {Pick(s)}] = h[s \ {Pick(s)}]
    BY <2>1
  <2> QED BY <1>3, <1>5, <2>2, SumAt
<1> QED BY <1>4, <1>5

LEMMA SumExists ==
  ASSUME NEW f, NEW S, IsFiniteSet(S)
  PROVE  \E g : IsSum(f, g, S)
<1> DEFINE C == {U \in SUBSET S : ~\E g : IsSum(f, g, U)}
<1>1. SUFFICES ASSUME C # {} PROVE FALSE
  OBVIOUS
<1>2. PICK U \in C : \A V \in C : V \subseteq U => V = U
  <2>1. C \in SUBSET SUBSET S
    OBVIOUS
  <2> HIDE DEF C
  <2> QED BY <1>1, <2>1, SmallestSet
<1> DEFINE Sum(V) == CHOOSE g : IsSum(f, g, V)
           G == [s \in SUBSET U |->
                   IF s = {} THEN 0
                   ELSE f[Pick(s)] + Sum(s \ {Pick(s)})[s \ {Pick(s)}]]
<1>3. ASSUME NEW V \in SUBSET U, V # U PROVE IsSum(f, Sum(V), V)
  <2>1. V \notin C
    BY <1>2, <1>3
  <2> QED BY <2>1
<1>4. ASSUME NEW r \in SUBSET U, r # U PROVE Sum(r)[r] = G[r]
  <2>1. IsSum(f, Sum(r), r)
    BY <1>3, <1>4
  <2>2. CASE r = {}
    BY <2>1, <2>2, SumAt
  <2>3. CASE r # {}
    <3> DEFINE v == r \ {Pick(r)}
    <3>1. v \in SUBSET U /\ v # U /\ IsFiniteSet(v) /\ v \subseteq r
      BY <1>4, FS_Subset
    <3>2. IsSum(f, Sum(v), v)
      BY <1>3, <3>1
    <3>3. Sum(r)[v] = Sum(v)[v]
      <4> HIDE DEF v, Sum
      <4> QED BY <2>1, <3>1, <3>2, SumUnique
    <3>4. Sum(r)[r] = f[Pick(r)] + Sum(r)[v]
      <4> HIDE DEF Sum
      <4> QED BY <2>1, <2>3, SumAt
    <3> QED BY <2>3, <3>3, <3>4
  <2> QED BY <2>2, <2>3
<1>5. \A s \in SUBSET U : s # {} => G[s \ {Pick(s)}] = Sum(s \ {Pick(s)})[s \ {Pick(s)}]
  <2> HIDE DEF G, Sum
  <2> QED BY <1>4, PickIn
<1>6. IsSum(f, G, U)
  <2> DEFINE Old(s) == IF s = {} THEN 0
                       ELSE f[Pick(s)] + Sum(s \ {Pick(s)})[s \ {Pick(s)}]
             New(s) == IF s = {} THEN 0 ELSE f[Pick(s)] + G[s \ {Pick(s)}]
  <2>1. \A s \in SUBSET U : New(s) = Old(s)
    <3> HIDE DEF G, Sum
    <3> QED BY <1>5
  <2>2. G = [s \in SUBSET U |-> Old(s)]
    OBVIOUS
  <2>3. G = [s \in SUBSET U |-> New(s)]
    <3> HIDE DEF G, Old, New
    <3> QED BY <2>1, <2>2
  <2> QED BY <2>3 DEF IsSum
<1> QED BY <1>2, <1>6

LEMMA SumRec ==
  ASSUME NEW f, NEW S, IsFiniteSet(S), S # {}
  PROVE  SumFunctionOnSet(f, S) = f[Pick(S)] + SumFunctionOnSet(f, S \ {Pick(S)})
<1> DEFINE Sum(V) == CHOOSE g : IsSum(f, g, V)
           R == S \ {Pick(S)}
<1>1. IsFiniteSet(R) /\ R \subseteq S
  BY FS_Subset
<1>2. IsSum(f, Sum(S), S) /\ IsSum(f, Sum(R), R)
  <2> HIDE DEF R
  <2> QED BY <1>1, SumExists
<1>3. SumFunctionOnSet(f, S) = Sum(S)[S] /\ SumFunctionOnSet(f, R) = Sum(R)[R]
  BY SumUnfold
<1>4. Sum(S)[R] = Sum(R)[R]
  <2> HIDE DEF R, Sum
  <2> QED BY <1>1, <1>2, SumUnique
<1>5. Sum(S)[S] = f[Pick(S)] + Sum(S)[R]
  <2> HIDE DEF Sum
  <2> QED BY <1>2, SumAt
<1> QED BY <1>3, <1>4, <1>5

LEMMA SumEmpty == ASSUME NEW f PROVE SumFunctionOnSet(f, {}) = 0
<1> DEFINE Sum(V) == CHOOSE g : IsSum(f, g, V)
<1>1. IsSum(f, Sum({}), {})
  BY FS_EmptySet, SumExists
<1>2. Sum({})[{}] = 0
  <2> HIDE DEF Sum
  <2> QED BY <1>1, SumAt
<1> QED BY <1>2, SumUnfold

(* A sum of integers is one.                                               *)
LEMMA SumType ==
  ASSUME NEW S, IsFiniteSet(S), NEW f, \A x \in S : f[x] \in Int
  PROVE  SumFunctionOnSet(f, S) \in Int
<1> DEFINE C == {U \in SUBSET S : SumFunctionOnSet(f, U) \notin Int}
<1>1. SUFFICES ASSUME C # {} PROVE FALSE
  OBVIOUS
<1>2. PICK U \in C : \A V \in C : V \subseteq U => V = U
  <2>1. C \in SUBSET SUBSET S
    OBVIOUS
  <2> HIDE DEF C
  <2> QED BY <1>1, <2>1, SmallestSet
<1>3. U # {}
  <2>1. SumFunctionOnSet(f, {}) \in Int
    BY SumEmpty
  <2> QED BY <1>2, <2>1
<1>4. Pick(U) \in U /\ IsFiniteSet(U) /\ U \ {Pick(U)} \subseteq U
  BY <1>3, PickIn, FS_Subset
<1>5. SumFunctionOnSet(f, U \ {Pick(U)}) \in Int
  BY <1>2, <1>4
<1>6. SumFunctionOnSet(f, U) = f[Pick(U)] + SumFunctionOnSet(f, U \ {Pick(U)})
  BY <1>3, <1>4, SumRec
<1> QED BY <1>4, <1>5, <1>6

(* Any element may be taken out of a sum first.                            *)
LEMMA SumRemove ==
  ASSUME NEW S, IsFiniteSet(S), NEW f, \A x \in S : f[x] \in Int,
         NEW U \in SUBSET S, NEW y \in U
  PROVE  SumFunctionOnSet(f, U) = f[y] + SumFunctionOnSet(f, U \ {y})
<1> DEFINE Sum(V) == SumFunctionOnSet(f, V)
           C == {V \in SUBSET S : \E z \in V : Sum(V) # f[z] + Sum(V \ {z})}
<1>1. SUFFICES ASSUME C # {} PROVE FALSE
  OBVIOUS
<1>2. PICK V \in C : \A W \in C : W \subseteq V => W = V
  <2>1. C \in SUBSET SUBSET S
    OBVIOUS
  <2> HIDE DEF C
  <2> QED BY <1>1, <2>1, SmallestSet
<1>3. PICK z \in V : Sum(V) # f[z] + Sum(V \ {z})
  BY <1>2
<1> DEFINE x == Pick(V)
           W == (V \ {x}) \ {z}
<1>4. x \in V /\ f[x] \in Int /\ f[z] \in Int
  BY <1>2, <1>3, PickIn
<1>5. \A X \in SUBSET S : Sum(X) \in Int
  BY SumType, FS_Subset
<1>6. Sum(V) = f[x] + Sum(V \ {x})
  BY <1>2, <1>3, SumRec, FS_Subset
<1>7. x # z
  BY <1>3, <1>6
<1>8. Sum(V \ {x}) = f[z] + Sum(W)
  <2>1. V \ {x} \in SUBSET S /\ V \ {x} \notin C /\ z \in V \ {x}
    BY <1>2, <1>3, <1>4, <1>7
  <2> HIDE DEF x, Sum
  <2> QED BY <2>1
<1>9. Sum(V \ {z}) = f[x] + Sum(W)
  <2>1. V \ {z} \in SUBSET S /\ V \ {z} \notin C /\ x \in V \ {z}
    BY <1>2, <1>3, <1>4, <1>7
  <2>2. (V \ {z}) \ {x} = W
    OBVIOUS
  <2>3. Sum(V \ {z}) = f[x] + Sum((V \ {z}) \ {x})
    <3> HIDE DEF x, Sum, W
    <3> QED BY <2>1
  <2> QED BY <2>2, <2>3
<1>10. Sum(W) \in Int
  BY <1>2, <1>5
<1> HIDE DEF x, W, Sum
<1> QED BY <1>3, <1>4, <1>6, <1>8, <1>9, <1>10

(* A sum over a part, of smaller natural numbers, is no larger.            *)
LEMMA SumMonotone ==
  ASSUME NEW S, IsFiniteSet(S), NEW f, NEW g,
         \A x \in S : f[x] \in Nat /\ g[x] \in Nat /\ f[x] <= g[x],
         NEW L \in SUBSET S, NEW M \in SUBSET L
  PROVE  SumFunctionOnSet(f, M) <= SumFunctionOnSet(g, L)
<1> DEFINE F(V) == SumFunctionOnSet(f, V)
           G(V) == SumFunctionOnSet(g, V)
           C == {V \in SUBSET S : \E W \in SUBSET V : ~(F(W) <= G(V))}
<1>1. SUFFICES ASSUME C # {} PROVE FALSE
  OBVIOUS
<1>2. PICK V \in C : \A W \in C : W \subseteq V => W = V
  <2>1. C \in SUBSET SUBSET S
    OBVIOUS
  <2> HIDE DEF C
  <2> QED BY <1>1, <2>1, SmallestSet
<1>3. PICK W \in SUBSET V : ~(F(W) <= G(V))
  BY <1>2
<1>4. \A X \in SUBSET S : F(X) \in Int /\ G(X) \in Int
  <2>1. \A x \in S : f[x] \in Int /\ g[x] \in Int
    OBVIOUS
  <2> QED BY <2>1, SumType, FS_Subset
<1>5. V # {}
  <2>1. F({}) = 0 /\ G({}) = 0
    BY SumEmpty
  <2> HIDE DEF F, G
  <2> QED BY <1>3, <2>1
<1>6. PICK y \in V : TRUE
  BY <1>5
<1>7. f[y] \in Nat /\ g[y] \in Nat /\ f[y] <= g[y]
  BY <1>2
<1>8. G(V) = g[y] + G(V \ {y})
  BY <1>2, SumRemove
<1>9. \A X \in SUBSET (V \ {y}) : F(X) <= G(V \ {y})
  <2>1. V \ {y} \in SUBSET S /\ V \ {y} \notin C
    BY <1>2
  <2> HIDE DEF F, G
  <2> QED BY <2>1
<1>10. CASE y \in W
  <2>1. F(W) = f[y] + F(W \ {y})
    BY <1>2, <1>10, SumRemove
  <2>2. W \ {y} \in SUBSET (V \ {y}) /\ W \ {y} \in SUBSET S /\ V \ {y} \in SUBSET S
    BY <1>2
  <2>3. F(W \ {y}) <= G(V \ {y}) /\ F(W \ {y}) \in Int /\ G(V \ {y}) \in Int
    BY <1>4, <1>9, <2>2
  <2> HIDE DEF F, G
  <2> QED BY <1>3, <1>7, <1>8, <2>1, <2>3
<1>11. CASE y \notin W
  <2>2. W \in SUBSET (V \ {y}) /\ W \in SUBSET S /\ V \ {y} \in SUBSET S
    BY <1>2, <1>11
  <2>3. F(W) <= G(V \ {y}) /\ F(W) \in Int /\ G(V \ {y}) \in Int
    BY <1>4, <1>9, <2>2
  <2> HIDE DEF F, G
  <2> QED BY <1>3, <1>7, <1>8, <2>3
<1> QED BY <1>10, <1>11

(* The sum over two disjoint sets.                                         *)
LEMMA SumOfTwo ==
  ASSUME NEW S, IsFiniteSet(S), NEW f, \A x \in S : f[x] \in Int,
         NEW A \in SUBSET S, NEW B \in SUBSET S, A \cap B = {}
  PROVE  SumFunctionOnSet(f, A \cup B)
           = SumFunctionOnSet(f, A) + SumFunctionOnSet(f, B)
<1> DEFINE Sum(V) == SumFunctionOnSet(f, V)
           C == {V \in SUBSET S : V \cap B = {} /\ Sum(V \cup B) # Sum(V) + Sum(B)}
<1>1. SUFFICES ASSUME C # {} PROVE FALSE
  OBVIOUS
<1>2. PICK V \in C : \A W \in C : W \subseteq V => W = V
  <2>1. C \in SUBSET SUBSET S
    OBVIOUS
  <2> HIDE DEF C
  <2> QED BY <1>1, <2>1, SmallestSet
<1>3. \A X \in SUBSET S : Sum(X) \in Int
  BY SumType, FS_Subset
<1>4. V # {}
  <2>1. Sum({}) = 0 /\ Sum(B) \in Int
    BY <1>3, SumEmpty
  <2>2. Sum(V \cup B) # Sum(V) + Sum(B)
    BY <1>2
  <2>3. ASSUME V = {} PROVE Sum(V \cup B) = Sum(B) /\ Sum(V) = 0
    <3>1. V \cup B = B
      BY <2>3
    <3> HIDE DEF Sum
    <3> QED BY <2>1, <2>3, <3>1
  <2> HIDE DEF Sum
  <2> QED BY <2>1, <2>2, <2>3
<1>5. PICK y \in V : TRUE
  BY <1>4
<1>6. f[y] \in Int
  BY <1>2
<1>7. Sum(V) = f[y] + Sum(V \ {y})
  BY <1>2, SumRemove
<1>8. Sum(V \cup B) = f[y] + Sum((V \cup B) \ {y})
  <2>1. V \cup B \in SUBSET S /\ y \in V \cup B
    BY <1>2
  <2> QED BY <2>1, SumRemove
<1>9. (V \cup B) \ {y} = (V \ {y}) \cup B
  BY <1>2
<1>10. Sum((V \ {y}) \cup B) = Sum(V \ {y}) + Sum(B)
  <2>1. V \ {y} \in SUBSET S /\ V \ {y} \notin C /\ (V \ {y}) \cap B = {}
    BY <1>2
  <2> HIDE DEF Sum
  <2> QED BY <2>1
<1>11. Sum(V \ {y}) \in Int /\ Sum(B) \in Int
  BY <1>2, <1>3
<1>12. Sum(V \cup B) # Sum(V) + Sum(B)
  BY <1>2
<1>13. Sum((V \cup B) \ {y}) = Sum(V \ {y}) + Sum(B)
  BY <1>9, <1>10
<1> HIDE DEF Sum
<1> QED BY <1>6, <1>7, <1>8, <1>11, <1>12, <1>13
-----------------------------------------------------------------------------
TP == INSTANCE TopkQueueProofs

(* What was offered to the queue has its full score, or the full score     *)
(* would not enter and neither did the document.                           *)
OfferedIsRight ==
    \A e \in offered :
        /\ Matching(e.doc) # {}
        /\ e.score = FullScore(e.doc) \/ ~Topk!WouldEnter(FullScore(e.doc))

(* The part of the invariants of the algorithms that is about the queue.   *)
QueueInv ==
    /\ QueryTypeOK
    /\ TP!IndInv
    /\ pc = "search" => sorted = "heap" /\ OfferedIsRight
    /\ QueueScoresAreFull
    /\ AnswerIsExhaustive

(* Nothing can enter the queue any more but what is in it.                 *)
NothingLeft ==
    \A d \in Docs : Matching(d) # {} /\ NotOffered(d)
        => ~Topk!WouldEnter(FullScore(d))

(* What TopkQueue assumes holds of its instance.                           *)
LEMMA QueueAssumed == K \in Nat \ {0} /\ Scores \subseteq Int
BY QueryAssumption

(* The names of TopkQueue and those of its proofs.                         *)
LEMMA SameQueue ==
  /\ Topk!TypeOK <=> TP!TypeOK
  /\ Topk!KeepsTheBest <=> TP!KeepsTheBest
  /\ Topk!ResultIsTopK <=> TP!ResultIsTopK
  /\ Topk!Finalize <=> TP!Finalize
  /\ Topk!Entries = TP!Entries
  /\ \A s : Topk!WouldEnter(s) <=> TP!WouldEnter(s)
  /\ \A e : Topk!Insert(e) <=> TP!Insert(e)
  /\ \A e : Topk!InHeap(e) <=> TP!InHeap(e)
<1>1. Topk!TypeOK <=> TP!TypeOK
  BY DEF Topk!TypeOK, TP!TypeOK, Topk!Entries, TP!Entries
<1>2. Topk!KeepsTheBest <=> TP!KeepsTheBest
  BY DEF Topk!KeepsTheBest, TP!KeepsTheBest, Topk!InHeap, TP!InHeap
<1>3. Topk!ResultIsTopK <=> TP!ResultIsTopK
  BY DEF Topk!ResultIsTopK, TP!ResultIsTopK, Topk!InHeap, TP!InHeap
<1>4. Topk!Finalize <=> TP!Finalize
  <2>1. \A S, T : Topk!Bijection(S, T) = TP!Bijection(S, T)
    BY DEF Topk!Bijection, TP!Bijection, Topk!Injection, TP!Injection,
       Topk!Surjection, TP!Surjection, Topk!IsInjective, TP!IsInjective
  <2> QED BY <2>1 DEF Topk!Finalize, TP!Finalize
<1>5. Topk!Entries = TP!Entries
  BY DEF Topk!Entries, TP!Entries
<1>6. \A s : Topk!WouldEnter(s) <=> TP!WouldEnter(s)
  BY DEF Topk!WouldEnter, TP!WouldEnter
<1>7. ASSUME NEW e PROVE Topk!Insert(e) <=> TP!Insert(e)
  <2>1. Topk!NewThreshold <=> TP!NewThreshold
    BY DEF Topk!NewThreshold, TP!NewThreshold, Topk!IsFront, TP!IsFront
  <2>2. Topk!InsertPush(e) <=> TP!InsertPush(e)
    BY <2>1 DEF Topk!InsertPush, TP!InsertPush
  <2>3. Topk!InsertReplace(e) <=> TP!InsertReplace(e)
    BY <2>1 DEF Topk!InsertReplace, TP!InsertReplace, Topk!IsFront, TP!IsFront
  <2>4. Topk!InsertReject(e) <=> TP!InsertReject(e)
    BY DEF Topk!InsertReject, TP!InsertReject
  <2> QED BY <2>2, <2>3, <2>4 DEF Topk!Insert, TP!Insert
<1>8. \A e : Topk!InHeap(e) <=> TP!InHeap(e)
  BY DEF Topk!InHeap, TP!InHeap
<1> QED BY <1>1, <1>2, <1>3, <1>4, <1>5, <1>6, <1>7, <1>8
-----------------------------------------------------------------------------
(* A query and its lists.                                                  *)
LEMMA QueryFacts ==
  ASSUME query \in Queries
  PROVE  /\ query.lists \in Nat /\ IsFiniteSet(Lists)
         /\ query.q_len \in Nat
         /\ \A t \in Lists : query.q_weight[t] \in Nat
         /\ \A t \in Lists : \A d \in Docs : query.term_weight[t][d] \in Nat
         /\ \A d \in Docs : query.doc_weight[d] \in Int /\ query.doc_weight[d] <= 0
         /\ \A t \in Lists : Postings(t) \subseteq Docs /\ Postings(t) # {}
<1>1. query.lists \in Nat
  BY QueryAssumption
<1>2. IsFiniteSet(Lists)
  BY <1>1, FS_Interval DEF Lists
<1>3. /\ query.q_len \in Nat
      /\ query.q_weight \in [1..query.lists -> Nat]
      /\ query.term_weight \in [1..query.lists -> [Docs -> Nat]]
      /\ query.doc_weight \in [Docs -> Int]
  BY QueryAssumption
<1>4. \A t \in Lists : \A d \in Docs : query.term_weight[t][d] \in Nat
  BY <1>3 DEF Lists
<1>5. \A t \in Lists : Postings(t) \subseteq Docs /\ Postings(t) # {}
  BY QueryAssumption DEF Postings, Lists
<1>6. \A d \in Docs : query.doc_weight[d] \in Int /\ query.doc_weight[d] <= 0
  BY <1>3, QueryAssumption
<1> QED BY <1>1, <1>2, <1>3, <1>4, <1>5, <1>6 DEF Lists

LEMMA ScoreIsScore ==
  ASSUME query \in Queries, NEW d \in Docs
  PROVE  /\ \A L \in SUBSET Lists : Score(L, d) \in Scores /\ Score(L, d) \in Int
         /\ Matching(d) \in SUBSET Lists
         /\ FullScore(d) \in Scores /\ FullScore(d) \in Int
<1>1. \A L \in SUBSET Lists : Score(L, d) \in Scores /\ Score(L, d) \in Int
  BY ScoresAssumption, QueryAssumption DEF Score, Lists
<1>2. Matching(d) \in SUBSET Lists
  BY DEF Matching
<1> QED BY <1>1, <1>2 DEF FullScore

(* Where an enumerator lands.                                              *)
LEMMA FirstGeqLands ==
  ASSUME query \in Queries, NEW t \in Lists, NEW b \in Int
  PROVE  /\ FirstGeq(t, b) \in 0..NumDocs
         /\ FirstGeq(t, b) = NumDocs \/ FirstGeq(t, b) \in Postings(t)
         /\ b <= NumDocs => b <= FirstGeq(t, b)
         /\ \A c \in Postings(t) : c >= b => FirstGeq(t, b) <= c
<1>0. NumDocs \in Nat /\ Postings(t) \subseteq Docs
  BY QueryAssumption DEF Postings
<1> DEFINE P == {c \in Postings(t) : c >= b}
<1>1. CASE \E d \in Postings(t) : d >= b
  <2>1. \E d \in P : \A c \in P : d <= c
    <3>1. P \in SUBSET Nat /\ P # {}
      BY <1>0, <1>1 DEF Docs
    <3> HIDE DEF P
    <3> QED BY <3>1, LeastOf
  <2>2. \E d \in Postings(t) :
           d >= b /\ \A c \in Postings(t) : c >= b => d <= c
    BY <2>1
  <2>3. /\ FirstGeq(t, b) \in Postings(t) /\ FirstGeq(t, b) >= b
        /\ \A c \in Postings(t) : c >= b => FirstGeq(t, b) <= c
    BY <1>1, <2>2 DEF FirstGeq
  <2> QED BY <1>0, <2>3 DEF Docs
<1>2. CASE ~\E d \in Postings(t) : d >= b
  BY <1>0, <1>2 DEF FirstGeq
<1> QED BY <1>1, <1>2

(* Of several enumerators one is first, or all are at the end.             *)
LEMMA FirstOfSome ==
  ASSUME NEW L, NEW at, \A t \in L : at[t] \in 0..NumDocs
  PROVE  \E d \in 0..NumDocs :
           /\ \A t \in L : d <= at[t]
           /\ d = NumDocs \/ \E t \in L : d = at[t]
<1> DEFINE P == {at[t] : t \in L} \cup {NumDocs}
<1>1. NumDocs \in Nat
  BY QueryAssumption
<1>2. P \in SUBSET Nat /\ P # {}
  BY <1>1
<1>3. PICK d \in P : \A e \in P : d <= e
  <2> HIDE DEF P
  <2> QED BY <1>2, LeastOf
<1> QED BY <1>1, <1>3

(* A step keeps the query, and with it all that is read off it.            *)
LEMMA SameQuery ==
  ASSUME query' = query
  PROVE  /\ Lists' = Lists
         /\ \A d : Matching(d)' = Matching(d)
         /\ \A d : FullScore(d)' = FullScore(d)
BY DEF Lists, Matching, FullScore, Score, Postings
-----------------------------------------------------------------------------
(* What a step of a search may do to the queue.                            *)
LEMMA EntryIsEntry ==
  ASSUME NEW s \in Scores, NEW d \in Docs
  PROVE  /\ Entry(s, d) \in TP!Entries
         /\ Entry(s, d).score = s /\ Entry(s, d).doc = d
BY DEF Entry, TP!Entries

LEMMA SameQueueNext ==
  /\ (Topk!TypeOK)' <=> (TP!TypeOK)'
  /\ \A s : Topk!WouldEnter(s)' <=> TP!WouldEnter(s)'
<1>1. (Topk!TypeOK)' <=> (TP!TypeOK)'
  BY DEF Topk!TypeOK, TP!TypeOK, Topk!Entries, TP!Entries
<1>2. \A s : Topk!WouldEnter(s)' <=> TP!WouldEnter(s)'
  BY DEF Topk!WouldEnter, TP!WouldEnter
<1> QED BY <1>1, <1>2

LEMMA InitQueue ==
  ASSUME QueryInit
  PROVE  QueueInv /\ Topk!Init
<1>1. query \in Queries /\ threshold \in Scores
  BY QueryAssumption DEF QueryInit
<1>2. TP!Init /\ Topk!Init
  BY <1>1 DEF QueryInit, TP!Init, Topk!Init
<1>3. TP!IndInv
  BY <1>2, QueueAssumed, TP!InitInv
<1>4. Topk!TypeOK
  BY <1>3, SameQueue DEF TP!IndInv
<1>5. docid \in [Lists -> 0..NumDocs]
  BY <1>1, FirstGeqLands DEF QueryInit
<1>6. QueryTypeOK
  BY <1>1, <1>4, <1>5 DEF QueryTypeOK, QueryInit
<1>7. Len(m_q) = 0 /\ offered = {} /\ sorted = "heap"
  BY DEF QueryInit
<1>8. QueueScoresAreFull
  BY <1>7 DEF QueueScoresAreFull
<1>9. AnswerIsExhaustive
  <2>1. pc = "done" => query.lists = 0
    BY DEF QueryInit
  <2>2. pc = "done" => \A d \in Docs : Matching(d) = {}
    BY <2>1 DEF Matching, Lists
  <2> QED BY <1>7, <2>2 DEF AnswerIsExhaustive
<1> QED BY <1>2, <1>3, <1>6, <1>7, <1>8, <1>9 DEF QueueInv, OfferedIsRight

LEMMA OfferStep ==
  ASSUME QueueInv, pc = "search", UNCHANGED <<query, pc>>,
         docid' \in [Lists -> 0..NumDocs],
         NEW d \in Docs, NotOffered(d), Matching(d) # {},
         NEW s \in Scores, Topk!Insert(Entry(s, d)),
         \/ s = FullScore(d)
         \/ ~Topk!WouldEnter(s) /\ ~Topk!WouldEnter(FullScore(d))
  PROVE  /\ QueueInv'
         /\ \A r \in Int : ~Topk!WouldEnter(r) => ~Topk!WouldEnter(r)'
         /\ offered' = offered \cup {Entry(s, d)}
         /\ Topk!Next
<1> DEFINE e == Entry(s, d)
<1>1. e \in TP!Entries /\ e.score = s /\ e.doc = d
  BY EntryIsEntry
<1>2. TP!Insert(e)
  BY SameQueue
<1>3. \A f \in offered : f.doc # e.doc
  BY <1>1 DEF NotOffered
<1> HIDE DEF e
<1>4. TP!Next /\ Topk!Next
  <2>1. TP!Offer
    BY <1>1, <1>2, <1>3 DEF TP!Offer
  <2>2. Topk!Offer
    BY <1>1, <1>2, <1>3, SameQueue DEF Topk!Offer
  <2> QED BY <2>1, <2>2 DEF TP!Next, Topk!Next
<1>5. TP!IndInv /\ TP!IndInv' /\ TP!TypeOK
  BY <1>4, QueueAssumed, TP!StepInv DEF QueueInv, TP!IndInv
<1>6. \A r \in Int : ~Topk!WouldEnter(r) => ~Topk!WouldEnter(r)'
  BY <1>1, <1>2, <1>5, QueueAssumed, TP!BarStep, SameQueue, SameQueueNext
<1>7. /\ offered' = offered \cup {e} /\ sorted = "heap" /\ sorted' = "heap"
  BY <1>2 DEF TP!Insert
<1>8. QueryTypeOK'
  <2>1. (Topk!TypeOK)'
    BY <1>5, SameQueueNext DEF TP!IndInv
  <2>2. query' \in Queries /\ pc' \in {"search", "done"} /\ Lists' = Lists
    BY SameQuery DEF QueueInv, QueryTypeOK
  <2> QED BY <2>1, <2>2 DEF QueryTypeOK
<1>9. query \in Queries /\ OfferedIsRight /\ QueueScoresAreFull
  BY DEF QueueInv, QueryTypeOK
<1>10. OfferedIsRight'
  <2>1. SUFFICES ASSUME NEW f \in offered'
                 PROVE  /\ Matching(f.doc) # {}
                        /\ \E r \in Int :
                             /\ r = FullScore(f.doc)
                             /\ f.score = r \/ ~Topk!WouldEnter(r)'
    BY SameQuery DEF OfferedIsRight
  <2>2. CASE f = e
    BY <1>1, <1>6, <1>9, <2>2, ScoreIsScore
  <2>3. CASE f # e
    <3>1. f \in offered /\ f.doc \in Docs
      BY <1>5, <1>7, <2>3 DEF TP!TypeOK, TP!Entries
    <3>2. /\ Matching(f.doc) # {}
          /\ f.score = FullScore(f.doc) \/ ~Topk!WouldEnter(FullScore(f.doc))
      BY <1>9, <3>1 DEF OfferedIsRight
    <3> QED BY <1>6, <1>9, <3>1, <3>2, ScoreIsScore
  <2> QED BY <2>2, <2>3
<1>11. QueueScoresAreFull'
  <2>1. SUFFICES ASSUME NEW i \in 1..Len(m_q')
                 PROVE  m_q'[i].score = FullScore(m_q'[i].doc)
    BY SameQuery DEF QueueScoresAreFull
  <2>2. \A j \in 1..Len(m_q) : m_q[j].score = FullScore(m_q[j].doc)
    BY <1>9 DEF QueueScoresAreFull
  <2>3. /\ m_q'[i] = e \/ \E j \in 1..Len(m_q) : m_q'[i] = m_q[j]
        /\ ~TP!WouldEnter(e.score) => m_q' = m_q
    BY <1>1, <1>2, <1>5, QueueAssumed, TP!InsertElements
  <2>4. CASE s = FullScore(d)
    BY <1>1, <2>2, <2>3, <2>4
  <2>5. CASE ~Topk!WouldEnter(s)
    BY <1>1, <2>2, <2>3, <2>5, SameQueue
  <2> QED BY <2>4, <2>5
<1>12. AnswerIsExhaustive'
  BY DEF AnswerIsExhaustive
<1>13. QueueInv'
  BY <1>5, <1>7, <1>8, <1>10, <1>11, <1>12 DEF QueueInv
<1> QED BY <1>4, <1>6, <1>7, <1>13 DEF e

(* A step that leaves the queue and its query alone.                       *)
LEMMA QuietStep ==
  ASSUME QueueInv, UNCHANGED <<query, pc, m_q, threshold, offered, sorted>>,
         docid' \in [Lists -> 0..NumDocs]
  PROVE  /\ QueueInv'
         /\ \A r : Topk!WouldEnter(r)' <=> Topk!WouldEnter(r)
<1>1. TP!IndInv'
  <2>1. [TP!Next]_(TP!vars)
    BY DEF TP!vars
  <2> QED BY <2>1, QueueAssumed, TP!StepInv DEF QueueInv
<1>2. \A r : Topk!WouldEnter(r)' <=> Topk!WouldEnter(r)
  BY DEF Topk!WouldEnter
<1>3. QueryTypeOK'
  <2>1. (Topk!TypeOK)'
    BY <1>1, SameQueueNext DEF TP!IndInv
  <2>2. query' \in Queries /\ pc' \in {"search", "done"} /\ Lists' = Lists
    BY SameQuery DEF QueueInv, QueryTypeOK
  <2> QED BY <2>1, <2>2 DEF QueryTypeOK
<1>4. /\ pc = "search" => sorted = "heap" /\ OfferedIsRight
      /\ QueueScoresAreFull /\ AnswerIsExhaustive
  BY DEF QueueInv
<1>5. pc' = "search" => OfferedIsRight'
  <2>1. SUFFICES ASSUME pc = "search", NEW f \in offered
                 PROVE  /\ Matching(f.doc) # {}
                        /\ \E r : /\ r = FullScore(f.doc)
                                  /\ f.score = r \/ ~Topk!WouldEnter(r)'
    BY SameQuery DEF OfferedIsRight
  <2> QED BY <1>2, <1>4, <2>1 DEF OfferedIsRight
<1>6. QueueScoresAreFull'
  BY <1>4, SameQuery DEF QueueScoresAreFull
<1>7. AnswerIsExhaustive'
  BY <1>4, SameQuery DEF AnswerIsExhaustive
<1> QED BY <1>1, <1>2, <1>3, <1>4, <1>5, <1>6, <1>7 DEF QueueInv

(* operator() returns when nothing that could enter is left: the answer is *)
(* the one of an exhaustive evaluation.                                    *)
LEMMA ReturnStep ==
  ASSUME QueueInv, pc = "search", NothingLeft, Return
  PROVE  QueueInv' /\ Topk!Next
<1>1. /\ TP!Finalize /\ Topk!Next /\ TP!Next
      /\ query' = query /\ docid' = docid /\ pc' = "done"
  BY SameQueue DEF Return, Topk!Next, TP!Next
<1>2. TP!IndInv /\ TP!IndInv' /\ TP!TypeOK /\ TP!KeepsTheBest
  BY <1>1, QueueAssumed, TP!StepInv DEF QueueInv, TP!IndInv
<1>3. sorted = "heap" /\ offered' = offered
  BY <1>1 DEF TP!Finalize
<1>4. query \in Queries /\ OfferedIsRight /\ QueueScoresAreFull
  BY DEF QueueInv, QueryTypeOK
<1>5. QueryTypeOK'
  <2>1. (Topk!TypeOK)'
    BY <1>2, SameQueueNext DEF TP!IndInv
  <2> QED BY <1>1, <2>1, SameQuery DEF QueryTypeOK, QueueInv
<1>6. /\ \A i \in 1..Len(m_q') : \E j \in 1..Len(m_q) : m_q'[i] = m_q[j]
      /\ \A i, j \in 1..Len(m_q') : m_q'[i].doc = m_q'[j].doc => i = j
  BY <1>1, <1>2, QueueAssumed, TP!FinalizeKeepsElements
<1>7. \A i \in 1..Len(m_q') : m_q'[i].score = FullScore(m_q'[i].doc)
  BY <1>4, <1>6 DEF QueueScoresAreFull
<1>8. QueueScoresAreFull'
  BY <1>1, <1>7, SameQuery DEF QueueScoresAreFull
<1>9. /\ \A i \in 1..Len(m_q') : m_q'[i].score > 0 /\ m_q'[i] \in offered
      /\ \A i \in 1..(Len(m_q') - 1) : m_q'[i].score >= m_q'[i + 1].score
      /\ \A e \in offered : e.score > 0 =>
           \/ \E i \in 1..Len(m_q') : m_q'[i] = e
           \/ /\ Len(m_q') = K
              /\ \A i \in 1..Len(m_q') : e.score <= m_q'[i].score
  <2>1. TP!ResultIsTopK' /\ sorted' = "sorted"
    BY <1>1, <1>2 DEF TP!IndInv, TP!Finalize
  <2> QED BY <1>3, <2>1 DEF TP!ResultIsTopK, TP!InHeap
<1>10. Len(m_q') \in Nat
  BY <1>5, TP!HeapLength DEF QueryTypeOK, Topk!TypeOK
<1>11. ASSUME NEW d \in Docs, FullScore(d) > 0, ~Topk!WouldEnter(FullScore(d))
       PROVE  /\ Len(m_q') = K
              /\ \A i \in 1..Len(m_q') : FullScore(d) <= m_q'[i].score
  <2>1. FullScore(d) \in Int
    BY <1>4, ScoreIsScore
  <2>2. Len(m_q) >= K /\ \A i \in 1..Len(m_q) : FullScore(d) <= m_q[i].score
    BY <1>2, <1>3, <1>11, <2>1, QueueAssumed, TP!WouldEnterMeans, SameQueue
  <2>3. Len(m_q) = K
    BY <1>2, <1>3, <2>2, QueueAssumed, TP!FullThreshold DEF TP!IndInv
  <2> QED BY <1>1, <1>2, <1>11, <2>1, <2>2, <2>3, QueueAssumed, TP!FinalizeKeepsBar
<1>12. AnswerIsExhaustive'
  <2>1. ASSUME NEW i \in 1..Len(m_q')
        PROVE  /\ m_q'[i].score = FullScore(m_q'[i].doc) /\ m_q'[i].score > 0
               /\ Matching(m_q'[i].doc) # {}
               /\ i > 1 => m_q'[i - 1].score >= m_q'[i].score
    <3>1. Matching(m_q'[i].doc) # {}
      BY <1>4, <1>9 DEF OfferedIsRight
    <3>2. i > 1 => m_q'[i - 1].score >= m_q'[i].score
      <4>1. i > 1 => i - 1 \in 1..(Len(m_q') - 1) /\ (i - 1) + 1 = i
        BY <1>10
      <4> QED BY <1>9, <4>1
    <3> QED BY <1>7, <1>9, <3>1, <3>2
  <2>2. ASSUME NEW d \in Docs, Matching(d) # {}, FullScore(d) > 0
        PROVE  \/ \E i \in 1..Len(m_q') : m_q'[i].doc = d
               \/ /\ Len(m_q') = K
                  /\ \A i \in 1..Len(m_q') : FullScore(d) <= m_q'[i].score
    <3>1. CASE ~Topk!WouldEnter(FullScore(d))
      BY <1>11, <2>2, <3>1
    <3>2. CASE Topk!WouldEnter(FullScore(d))
      <4>1. PICK e \in offered : e.doc = d
        BY <2>2, <3>2 DEF NothingLeft, NotOffered
      <4>2. e.score = FullScore(d)
        BY <1>4, <3>2, <4>1 DEF OfferedIsRight
      <4> QED BY <1>9, <2>2, <4>1, <4>2
    <3> QED BY <3>1, <3>2
  <2> QED BY <1>1, <1>6, <2>1, <2>2, SameQuery DEF AnswerIsExhaustive
<1> QED BY <1>1, <1>2, <1>5, <1>8, <1>12 DEF QueueInv
-----------------------------------------------------------------------------
(* The bounds of wand_data.                                                *)
LEMMA GreatestIs ==
  ASSUME NEW S, IsFiniteSet(S), \A x \in S : x \in Int, S # {}
  PROVE  Greatest(S) \in S /\ \A y \in S : y <= Greatest(S)
<1> DEFINE C == {U \in SUBSET S : U # {} /\ ~\E x \in U : \A y \in U : y <= x}
<1>1. SUFFICES C = {}
  <2>1. S \notin C
    BY <1>1
  <2>2. \E x \in S : \A y \in S : y <= x
    BY <2>1
  <2> HIDE DEF C
  <2> QED BY <2>2 DEF Greatest
<1>2. SUFFICES ASSUME C # {} PROVE FALSE
  OBVIOUS
<1>3. PICK U \in C : \A V \in C : V \subseteq U => V = U
  <2>1. C \in SUBSET SUBSET S
    OBVIOUS
  <2> HIDE DEF C
  <2> QED BY <1>2, <2>1, SmallestSet
<1>4. PICK z \in U : z \in Int
  OBVIOUS
<1>5. U \ {z} \in SUBSET S /\ U \ {z} \notin C
  BY <1>3, <1>4
<1>6. CASE U \ {z} = {}
  <2>1. \A y \in U : y <= z
    BY <1>4, <1>6
  <2> QED BY <2>1
<1>7. CASE U \ {z} # {}
  <2>1. PICK x \in U \ {z} : \A y \in U \ {z} : y <= x
    BY <1>5, <1>7
  <2>2. x \in Int /\ U \subseteq Int
    OBVIOUS
  <2>3. CASE x <= z
    <3>1. \A y \in U : y <= z
      BY <1>4, <2>1, <2>2, <2>3
    <3> QED BY <3>1
  <2>4. CASE ~(x <= z)
    <3>1. \A y \in U : y <= x
      BY <1>4, <2>1, <2>2, <2>4
    <3> QED BY <3>1
  <2> QED BY <2>3, <2>4
<1> QED BY <1>6, <1>7

LEMMA ImageIsFinite ==
  ASSUME NEW S, IsFiniteSet(S), NEW f
  PROVE  IsFiniteSet({f[x] : x \in S})
<1> DEFINE T == {f[x] : x \in S}
           g == [x \in S |-> f[x]]
<1>1. g \in Surjection(S, T)
  BY DEF Surjection
<1> HIDE DEF g, T
<1>2. IsFiniteSet(T)
  BY <1>1, FS_Surjection
<1> QED BY <1>2 DEF T

LEMMA Multiply ==
  ASSUME NEW n \in Nat, NEW a \in Int, NEW b \in Int, a <= b
  PROVE  n * a \in Int /\ n * b \in Int /\ n * a <= n * b
<1>1. n * a \in Int /\ n * b \in Int
  OBVIOUS
<1>2. n * b - n * a = n * (b - a)
  OBVIOUS
<1>3. n * (b - a) >= 0
  OBVIOUS
<1> QED BY <1>1, <1>2, <1>3

LEMMA MultiplyNat ==
  ASSUME NEW n \in Nat, NEW a \in Nat
  PROVE  n * a \in Nat
OBVIOUS

LEMMA DocsAreFinite == IsFiniteSet(Docs)
<1>1. NumDocs \in Nat
  BY QueryAssumption
<1>2. 0 \in Int /\ NumDocs - 1 \in Int
  BY <1>1
<1> QED BY <1>2, FS_Interval DEF Docs

(* max_term_weight bounds what a list adds to the score of any document.   *)
LEMMA TermBound ==
  ASSUME query \in Queries, NEW t \in Lists
  PROVE  /\ MaxTermWeight(t) \in Nat
         /\ \A d \in Docs : /\ Part(query, d)[t] \in Nat
                            /\ Part(query, d)[t] <= MaxTermWeight(t)
                            /\ d \notin Postings(t) => Part(query, d)[t] = 0
<1> DEFINE W == {query.term_weight[t][d] : d \in Postings(t)}
<1>1. /\ query.q_weight[t] \in Nat
      /\ \A d \in Docs : query.term_weight[t][d] \in Nat
      /\ Postings(t) \subseteq Docs /\ Postings(t) # {}
  BY QueryFacts
<1>2. IsFiniteSet(W)
  <2>1. IsFiniteSet(Postings(t))
    BY <1>1, DocsAreFinite, FS_Subset
  <2> DEFINE w == [d \in Postings(t) |-> query.term_weight[t][d]]
  <2>2. W = {w[d] : d \in Postings(t)}
    OBVIOUS
  <2> HIDE DEF w, W
  <2> QED BY <2>1, <2>2, ImageIsFinite
<1>3. W \subseteq Nat /\ W # {}
  BY <1>1
<1>4. Greatest(W) \in W /\ \A y \in W : y <= Greatest(W)
  <2>1. W \subseteq Int
    BY <1>3
  <2> HIDE DEF W
  <2> QED BY <1>2, <1>3, <2>1, GreatestIs
<1>5. Greatest(W) \in Nat
  <2> HIDE DEF W
  <2> QED BY <1>3, <1>4
<1>6. MaxTermWeight(t) = query.q_weight[t] * Greatest(W)
  BY DEF MaxTermWeight
<1>7. ASSUME NEW d \in Docs
      PROVE  query.term_weight[t][d] <= Greatest(W)
  <2>1. CASE d \in Postings(t)
    BY <1>4, <2>1
  <2>2. CASE d \notin Postings(t)
    <3>1. query.term_weight[t][d] = 0
      BY <1>1, <2>2 DEF Postings
    <3> HIDE DEF W
    <3> QED BY <1>5, <3>1
  <2> QED BY <2>1, <2>2
<1>8. ASSUME NEW d \in Docs
      PROVE  Part(query, d)[t] = query.q_weight[t] * query.term_weight[t][d]
  BY DEF Part, Lists
<1> HIDE DEF W
<1>9. MaxTermWeight(t) \in Nat
  BY <1>1, <1>5, <1>6, MultiplyNat
<1>10. ASSUME NEW d \in Docs
       PROVE  /\ Part(query, d)[t] \in Nat
              /\ Part(query, d)[t] <= MaxTermWeight(t)
              /\ d \notin Postings(t) => Part(query, d)[t] = 0
  <2>1. Part(query, d)[t] \in Nat
    BY <1>1, <1>8, MultiplyNat
  <2>2. query.term_weight[t][d] \in Int /\ Greatest(W) \in Int
    BY <1>1, <1>5
  <2>3. ASSUME d \notin Postings(t) PROVE Part(query, d)[t] = 0
    <3>1. query.term_weight[t][d] = 0
      BY <1>1, <2>3 DEF Postings
    <3> QED BY <1>1, <1>8, <3>1
  <2>4. Part(query, d)[t] <= MaxTermWeight(t)
    BY <1>1, <1>6, <1>7, <1>8, <2>2, Multiply
  <2> QED BY <2>1, <2>3, <2>4
<1> QED BY <1>9, <1>10

(* max_document_weight bounds the weight of every document of the list;    *)
(* the compressed wand_data has no such bound.                             *)
LEMMA DocumentBound ==
  ASSUME query \in Queries, Storage = "raw", NEW t \in Lists
  PROVE  /\ MaxDocumentWeight(t) \in Int
         /\ \A d \in Postings(t) : query.doc_weight[d] <= MaxDocumentWeight(t)
<1> DEFINE W == {query.doc_weight[d] : d \in Postings(t)}
<1>1. /\ \A d \in Docs : query.doc_weight[d] \in Int
      /\ Postings(t) \subseteq Docs /\ Postings(t) # {}
  BY QueryFacts
<1>2. IsFiniteSet(W)
  <2>1. IsFiniteSet(Postings(t))
    BY <1>1, DocsAreFinite, FS_Subset
  <2> DEFINE w == [d \in Postings(t) |-> query.doc_weight[d]]
  <2>2. W = {w[d] : d \in Postings(t)}
    OBVIOUS
  <2> HIDE DEF w, W
  <2> QED BY <2>1, <2>2, ImageIsFinite
<1>3. W \subseteq Int /\ W # {}
  BY <1>1
<1>4. Greatest(W) \in W /\ \A y \in W : y <= Greatest(W)
  <2> HIDE DEF W
  <2> QED BY <1>2, <1>3, GreatestIs
<1>5. MaxDocumentWeight(t) = Greatest(W)
  BY DEF MaxDocumentWeight
<1> QED BY <1>3, <1>4, <1>5

(* The largest max_document_weight of some lists.                          *)
LEMMA GreatestDocumentWeight ==
  ASSUME query \in Queries, Storage = "raw", NEW L \in SUBSET Lists, L # {}
  PROVE  LET g == Greatest({MaxDocumentWeight(t) : t \in L}) IN
         /\ g \in Int
         /\ \E t \in L : g = MaxDocumentWeight(t)
         /\ \A t \in L : MaxDocumentWeight(t) <= g
<1> DEFINE W == {MaxDocumentWeight(t) : t \in L}
           w == [t \in L |-> MaxDocumentWeight(t)]
<1>1. IsFiniteSet(L)
  BY QueryFacts, FS_Subset
<1>2. \A t \in L : MaxDocumentWeight(t) \in Int
  BY DocumentBound
<1>3. W = {w[t] : t \in L}
  OBVIOUS
<1>4. IsFiniteSet(W)
  <2> HIDE DEF w, W
  <2> QED BY <1>1, <1>3, ImageIsFinite
<1>5. W # {} /\ \A x \in W : x \in Int
  BY <1>2
<1>6. Greatest(W) \in W /\ \A y \in W : y <= Greatest(W)
  <2> HIDE DEF W
  <2> QED BY <1>4, <1>5, GreatestIs
<1> QED BY <1>5, <1>6

LEMMA ListBoundType ==
  ASSUME query \in Queries, Storage = "raw", NEW L \in SUBSET Lists
  PROVE  /\ SumFunctionOnSet([t \in Lists |-> MaxTermWeight(t)], L) \in Int
         /\ L # {} => /\ query.q_len * Greatest({MaxDocumentWeight(t) : t \in L}) \in Int
                      /\ ListBound(L) \in Int
<1> DEFINE m == [t \in Lists |-> MaxTermWeight(t)]
           g == Greatest({MaxDocumentWeight(t) : t \in L})
<1>1. SumFunctionOnSet(m, L) \in Int
  <2>1. IsFiniteSet(L) /\ \A t \in L : m[t] \in Int
    BY QueryFacts, FS_Subset, TermBound
  <2> HIDE DEF m
  <2> QED BY <2>1, SumType
<1>2. ASSUME L # {} PROVE query.q_len * g \in Int
  <2>1. g \in Int
    BY <1>2, GreatestDocumentWeight
  <2> HIDE DEF g
  <2> QED BY <2>1, QueryFacts, Multiply
<1>3. ListBound(L) = query.q_len * g + SumFunctionOnSet(m, L)
  BY DEF ListBound
<1> HIDE DEF m, g
<1>4. L # {} => ListBound(L) \in Int
  BY <1>1, <1>2, <1>3
<1> QED BY <1>1, <1>2, <1>4 DEF m, g

(* The score of a document from some of its lists, and bounds on what a    *)
(* set that holds its other lists adds, bound its full score.              *)
LEMMA BoundedRest ==
  ASSUME query \in Queries, NEW d \in Docs,
         NEW A \in SUBSET Matching(d), NEW B \in SUBSET Lists, Matching(d) \ A \subseteq B,
         NEW m, \A t \in B : m[t] \in Nat /\ Part(query, d)[t] <= m[t]
  PROVE  /\ SumFunctionOnSet(m, B) \in Int
         /\ FullScore(d) <= Score(A, d) + SumFunctionOnSet(m, B)
<1> DEFINE f == Part(query, d)
           w == query.q_len * query.doc_weight[d]
           Rest == Matching(d) \ A
<1>1. /\ IsFiniteSet(Lists) /\ Matching(d) \subseteq Lists
      /\ A \in SUBSET Lists /\ Rest \in SUBSET Lists /\ Rest \in SUBSET B
      /\ A \cap Rest = {} /\ A \cup Rest = Matching(d)
  BY QueryFacts DEF Matching
<1>2. /\ \A t \in Lists : f[t] \in Nat /\ f[t] \in Int
      /\ \A t \in B : m[t] \in Nat /\ m[t] \in Int /\ f[t] <= m[t]
  <2>1. \A t \in Lists : f[t] \in Nat
    BY TermBound
  <2> HIDE DEF f
  <2> QED BY <2>1 DEF f
<1>3. w \in Int
  <2>1. query.q_len \in Nat /\ query.doc_weight[d] \in Int
    BY QueryFacts
  <2> QED BY <2>1, Multiply
<1>4. /\ FullScore(d) = w + SumFunctionOnSet(f, Matching(d))
      /\ Score(A, d) = w + SumFunctionOnSet(f, A)
  BY DEF FullScore, Score, ScoreOf
<1> HIDE DEF f, w, Rest
<1>5. IsFiniteSet(A) /\ IsFiniteSet(B) /\ IsFiniteSet(Rest)
  BY <1>1, FS_Subset
<1>6. SumFunctionOnSet(f, Matching(d)) = SumFunctionOnSet(f, A) + SumFunctionOnSet(f, Rest)
  BY <1>1, <1>2, SumOfTwo
<1>7. SumFunctionOnSet(f, Rest) <= SumFunctionOnSet(m, B)
  <2>1. \A t \in B : f[t] \in Nat /\ m[t] \in Nat /\ f[t] <= m[t]
    BY <1>2
  <2>2. B \in SUBSET B
    OBVIOUS
  <2> QED BY <1>1, <1>5, <2>1, <2>2, SumMonotone
<1>8. SumFunctionOnSet(f, A) \in Int /\ SumFunctionOnSet(f, Rest) \in Int
  BY <1>1, <1>2, <1>5, SumType
<1>9. SumFunctionOnSet(m, B) \in Int
  BY <1>2, <1>5, SumType
<1> QED BY <1>3, <1>4, <1>6, <1>7, <1>8, <1>9

LEMMA PartialBound ==
  ASSUME query \in Queries, NEW d \in Docs,
         NEW A \in SUBSET Matching(d), NEW B \in SUBSET Lists, Matching(d) \ A \subseteq B
  PROVE  FullScore(d) <=
           Score(A, d) + SumFunctionOnSet([t \in Lists |-> MaxTermWeight(t)], B)
<1> DEFINE m == [t \in Lists |-> MaxTermWeight(t)]
<1>1. \A t \in B : m[t] \in Nat /\ Part(query, d)[t] <= m[t]
  BY TermBound
<1>2. FullScore(d) <= Score(A, d) + SumFunctionOnSet(m, B)
  <2> HIDE DEF m
  <2> QED BY <1>1, BoundedRest
<1> QED BY <1>2

(* The least negative weight of the documents of some lists is a bound on  *)
(* what the document itself adds to its score.                             *)
LEMMA OwnWeightBound ==
  ASSUME query \in Queries, Storage = "raw", NEW L \in SUBSET Lists,
         NEW d \in Docs, Matching(d) # {}, Matching(d) \subseteq L
  PROVE  /\ Score({}, d) \in Int
         /\ Score({}, d) <= query.q_len * Greatest({MaxDocumentWeight(t) : t \in L})
<1> DEFINE g == Greatest({MaxDocumentWeight(t) : t \in L})
           w == query.doc_weight[d]
<1>1. w \in Int /\ query.q_len \in Nat
  BY QueryFacts
<1>2. g \in Int /\ w <= g
  <2>1. PICK t \in L : d \in Postings(t)
    BY DEF Matching
  <2>2. MaxDocumentWeight(t) \in Int /\ w <= MaxDocumentWeight(t)
    BY <2>1, DocumentBound
  <2>3. g \in Int /\ MaxDocumentWeight(t) <= g
    BY <2>1, GreatestDocumentWeight
  <2> HIDE DEF g, w
  <2> QED BY <1>1, <2>2, <2>3
<1>3. Score({}, d) = query.q_len * w
  <2>1. query.q_len * w \in Int
    BY <1>1, Multiply
  <2>2. Score({}, d) = query.q_len * w + SumFunctionOnSet(Part(query, d), {})
    BY DEF Score, ScoreOf
  <2> HIDE DEF w
  <2> QED BY <2>1, <2>2, SumEmpty
<1> HIDE DEF g, w
<1>4. /\ query.q_len * w \in Int /\ query.q_len * g \in Int
      /\ query.q_len * w <= query.q_len * g
  BY <1>1, <1>2, Multiply
<1> QED BY <1>3, <1>4 DEF g

(* The bound of whole lists is one: no document that is in these lists     *)
(* only can score more.                                                    *)
LEMMA BoundAdmissible ==
  ASSUME query \in Queries, Storage = "raw", NEW L \in SUBSET Lists,
         NEW d \in Docs, Matching(d) # {}, Matching(d) \subseteq L
  PROVE  FullScore(d) <= ListBound(L)
<1> DEFINE m == SumFunctionOnSet([t \in Lists |-> MaxTermWeight(t)], L)
           g == query.q_len * Greatest({MaxDocumentWeight(t) : t \in L})
<1>1. L # {}
  OBVIOUS
<1>2. FullScore(d) <= Score({}, d) + m
  BY PartialBound
<1>3. Score({}, d) \in Int /\ Score({}, d) <= g
  BY OwnWeightBound
<1>4. ListBound(L) = g + m
  BY DEF ListBound
<1>5. m \in Int /\ g \in Int /\ FullScore(d) \in Int
  BY <1>1, ListBoundType, ScoreIsScore
<1> HIDE DEF m, g
<1> QED BY <1>2, <1>3, <1>4, <1>5

(* More lists have a larger bound.                                         *)
LEMMA BoundMonotone ==
  ASSUME query \in Queries, Storage = "raw",
         NEW L \in SUBSET Lists, NEW M \in SUBSET L, M # {}
  PROVE  ListBound(M) <= ListBound(L)
<1> DEFINE m == [t \in Lists |-> MaxTermWeight(t)]
           g(S) == Greatest({MaxDocumentWeight(t) : t \in S})
<1>1. L # {} /\ M \in SUBSET Lists /\ query.q_len \in Nat /\ IsFiniteSet(Lists)
  BY QueryFacts
<1>2. g(M) \in Int /\ g(L) \in Int /\ g(M) <= g(L)
  <2>1. g(M) \in Int /\ \E t \in M : g(M) = MaxDocumentWeight(t)
    BY <1>1, GreatestDocumentWeight
  <2>2. g(L) \in Int /\ \A t \in L : MaxDocumentWeight(t) <= g(L)
    BY <1>1, GreatestDocumentWeight
  <2> HIDE DEF g
  <2> QED BY <2>1, <2>2
<1>3. SumFunctionOnSet(m, M) <= SumFunctionOnSet(m, L)
  <2>1. \A t \in Lists : m[t] \in Nat /\ m[t] <= m[t]
    BY TermBound
  <2> HIDE DEF m
  <2> QED BY <1>1, <2>1, SumMonotone
<1>4. /\ ListBound(M) = query.q_len * g(M) + SumFunctionOnSet(m, M)
      /\ ListBound(L) = query.q_len * g(L) + SumFunctionOnSet(m, L)
  BY DEF ListBound
<1>5. SumFunctionOnSet(m, M) \in Int /\ SumFunctionOnSet(m, L) \in Int
  BY <1>1, ListBoundType
<1> HIDE DEF m, g
<1>6. /\ query.q_len * g(M) \in Int /\ query.q_len * g(L) \in Int
      /\ query.q_len * g(M) <= query.q_len * g(L)
  BY <1>1, <1>2, Multiply
<1> QED BY <1>3, <1>4, <1>5, <1>6

(* A higher score passes the bar when a lower one does.                    *)
LEMMA BarIsOrdered ==
  ASSUME QueueInv, NEW r \in Int, NEW s \in Int, r <= s, ~Topk!WouldEnter(s)
  PROVE  ~Topk!WouldEnter(r)
<1>1. threshold \in Int
  BY QueryAssumption DEF QueueInv, QueryTypeOK, Topk!TypeOK
<1> QED BY <1>1 DEF Topk!WouldEnter
-----------------------------------------------------------------------------
(* The order of the lists.                                                 *)
LEMMA InSortedBy ==
  ASSUME NEW key, NEW p \in SortedBy(key)
  PROVE  /\ p \in Bijection(Lists, Lists)
         /\ \A i, j \in Lists : i < j => key[p[i]] <= key[p[j]]
BY DEF SortedBy

LEMMA BijectionMeans ==
  ASSUME NEW p
  PROVE  p \in Bijection(Lists, Lists) <=>
           /\ p \in [Lists -> Lists]
           /\ \A i, j \in Lists : p[i] = p[j] => i = j
           /\ \A t \in Lists : \E i \in Lists : p[i] = t
BY DEF Bijection, Injection, Surjection, IsInjective

(* How far an advanced list moves down: behind the positions in W that     *)
(* follow its own.                                                         *)
LEMMA LastPassed ==
  ASSUME query \in Queries, NEW i \in Lists, NEW W, NEW last,
         last = Greatest({j \in Lists : j > i /\ \A h \in i+1 .. j : h \in W} \cup {i})
  PROVE  /\ last \in Lists /\ i <= last
         /\ \A h \in i+1 .. last : h \in W
         /\ last + 1 \in Lists => last + 1 \notin W
<1> DEFINE P == {j \in Lists : j > i /\ \A h \in i+1 .. j : h \in W} \cup {i}
<1>1. IsFiniteSet(P) /\ P # {} /\ \A x \in P : x \in Int
  <2>1. P \in SUBSET Lists /\ Lists \subseteq Int
    BY QueryFacts DEF Lists
  <2> QED BY <2>1, QueryFacts, FS_Subset
<1>2. last \in P /\ \A y \in P : y <= last
  <2> HIDE DEF P
  <2> QED BY <1>1, GreatestIs DEF P
<1>3. query.lists \in Nat /\ i \in Int /\ last \in Lists /\ last \in Int
  BY <1>2, QueryFacts DEF Lists
<1>4. i <= last /\ \A h \in i+1 .. last : h \in W
  BY <1>2, <1>3
<1>5. ASSUME last + 1 \in Lists, last + 1 \in W PROVE FALSE
  <2>1. \A h \in i+1 .. last + 1 : h \in i+1 .. last \/ h = last + 1
    BY <1>3
  <2>2. last + 1 \in P
    BY <1>3, <1>4, <1>5, <2>1
  <2>3. last + 1 <= last
    BY <1>2, <2>2
  <2> QED BY <1>3, <2>3
<1> QED BY <1>3, <1>4, <1>5

(* The list at position i moves to position last, those between move up.   *)
MovedDown(p, i, last) ==
    [j \in Lists |-> IF j \in i .. last - 1 THEN p[j + 1]
                     ELSE IF j = last THEN p[i] ELSE p[j]]

LEMMA MovedDownAt ==
  ASSUME query \in Queries, NEW p \in Bijection(Lists, Lists),
         NEW i \in Lists, NEW last \in Lists, i <= last, NEW j \in Lists
  PROVE  LET q == MovedDown(p, i, last) IN
         /\ i <= j /\ j < last => q[j] = p[j + 1] /\ j + 1 \in Lists
         /\ j = last => q[j] = p[i]
         /\ j < i \/ j > last => q[j] = p[j]
         /\ q[j] \in Lists
<1>1. query.lists \in Nat
  BY QueryFacts
<1>2. /\ i <= j /\ j < last => j \in i .. last - 1 /\ j + 1 \in Lists
      /\ j = last => ~(j \in i .. last - 1)
      /\ j < i \/ j > last => ~(j \in i .. last - 1) /\ j # last
      /\ (i <= j /\ j < last) \/ j = last \/ j < i \/ j > last
  BY <1>1 DEF Lists
<1>3. p \in [Lists -> Lists]
  BY BijectionMeans
<1> QED BY <1>2, <1>3 DEF MovedDown

LEMMA MovedDownPermutes ==
  ASSUME query \in Queries, NEW p \in Bijection(Lists, Lists),
         NEW i \in Lists, NEW last \in Lists, i <= last
  PROVE  MovedDown(p, i, last) \in Bijection(Lists, Lists)
<1> DEFINE q == MovedDown(p, i, last)
<1>1. /\ p \in [Lists -> Lists]
      /\ \A a, b \in Lists : p[a] = p[b] => a = b
      /\ \A t \in Lists : \E a \in Lists : p[a] = t
  BY BijectionMeans
<1>2. query.lists \in Nat /\ \A a \in Lists : a \in Nat
  BY QueryFacts DEF Lists
<1>3. \A a \in Lists :
        /\ i <= a /\ a < last => q[a] = p[a + 1] /\ a + 1 \in Lists
        /\ a = last => q[a] = p[i]
        /\ a < i \/ a > last => q[a] = p[a]
        /\ q[a] \in Lists
  BY MovedDownAt
<1>4. q \in [Lists -> Lists]
  <2>1. q = [a \in Lists |-> q[a]]
    BY DEF MovedDown
  <2> HIDE DEF q
  <2> QED BY <1>3, <2>1
<1> HIDE DEF q
<1>5. ASSUME NEW a \in Lists, NEW b \in Lists, q[a] = q[b] PROVE a = b
  <2>1. a \in Nat /\ b \in Nat /\ i \in Nat /\ last \in Nat
    BY <1>2
  <2> DEFINE From(x) == IF i <= x /\ x < last THEN x + 1 ELSE IF x = last THEN i ELSE x
  <2>2. \A x \in Lists : From(x) \in Lists /\ q[x] = p[From(x)]
    BY <1>2, <1>3
  <2>3. From(a) = From(b)
    <3> HIDE DEF From
    <3> QED BY <1>1, <1>5, <2>2
  <2> QED BY <2>1, <2>3
<1>6. ASSUME NEW t \in Lists PROVE \E a \in Lists : q[a] = t
  <2>1. PICK b \in Lists : p[b] = t
    BY <1>1
  <2>2. b \in Nat /\ i \in Nat /\ last \in Nat
    BY <1>2
  <2>3. CASE b = i
    BY <1>3, <2>1, <2>3
  <2>4. CASE i < b /\ b <= last
    <3>1. b - 1 \in Lists /\ i <= b - 1 /\ b - 1 < last /\ (b - 1) + 1 = b
      BY <1>2, <2>2, <2>4 DEF Lists
    <3> QED BY <1>3, <2>1, <3>1
  <2>5. CASE b < i \/ b > last
    BY <1>3, <2>1, <2>5
  <2> QED BY <2>2, <2>3, <2>4, <2>5
<1> QED BY <1>4, <1>5, <1>6, BijectionMeans DEF q

(* Moving one advanced list down restores the order.                       *)
LEMMA MovedDownSorts ==
  ASSUME query \in Queries, NEW p \in Bijection(Lists, Lists),
         NEW i \in Lists, NEW last \in Lists, i <= last,
         NEW at, NEW to, \A t \in Lists : at[t] \in Int /\ to[t] \in Int,
         \A t \in Lists : t # p[i] => to[t] = at[t],
         at[p[i]] <= to[p[i]],
         \A a, b \in Lists : a < b => at[p[a]] <= at[p[b]],
         \A h \in i+1 .. last : at[p[h]] <= to[p[i]],
         last + 1 \in Lists => to[p[i]] <= at[p[last + 1]]
  PROVE  LET q == MovedDown(p, i, last) IN
         \A a, b \in Lists : a < b => to[q[a]] <= to[q[b]]
<1> DEFINE q == MovedDown(p, i, last)
<1>1. /\ p \in [Lists -> Lists]
      /\ \A a, b \in Lists : p[a] = p[b] => a = b
  BY BijectionMeans
<1>2. query.lists \in Nat /\ \A a \in Lists : a \in Nat
  BY QueryFacts DEF Lists
<1> DEFINE v == to[p[i]]
           key(a) == at[p[a]]
<1>3. /\ v \in Int /\ \A a \in Lists : key(a) \in Int
      /\ \A a, b \in Lists : a < b => key(a) <= key(b)
      /\ \A a \in Lists : a # i => to[p[a]] = key(a)
      /\ key(i) <= v
  BY <1>1
<1>4. \A h \in Lists : i < h /\ h <= last => key(h) <= v
  BY <1>2
<1>5. \A h \in Lists : h > last => v <= key(h)
  <2>1. SUFFICES ASSUME NEW h \in Lists, h > last PROVE v <= key(h)
    OBVIOUS
  <2>2. last + 1 \in Lists /\ v <= key(last + 1)
    BY <1>2, <2>1 DEF Lists
  <2>3. key(last + 1) <= key(h)
    <3>1. CASE last + 1 = h
      BY <1>3, <2>2, <3>1
    <3>2. CASE last + 1 < h
      BY <1>3, <2>2, <3>2
    <3> QED BY <1>2, <2>1, <3>1, <3>2
  <2> HIDE DEF v, key
  <2> QED BY <1>3, <2>2, <2>3
<1>6. ASSUME NEW a \in Lists
      PROVE  \/ i <= a /\ a < last /\ to[q[a]] = key(a + 1) /\ a + 1 \in Lists
             \/ a = last /\ to[q[a]] = v
             \/ (a < i \/ a > last) /\ to[q[a]] = key(a)
  <2>1. a \in Nat /\ i \in Nat /\ last \in Nat
    BY <1>2
  <2>2. CASE i <= a /\ a < last
    <3>1. q[a] = p[a + 1] /\ a + 1 \in Lists /\ a + 1 # i
      BY <2>1, <2>2, MovedDownAt
    <3> HIDE DEF q, key
    <3> QED BY <1>3, <2>2, <3>1
  <2>3. CASE a = last
    BY <2>3, MovedDownAt
  <2>4. CASE a < i \/ a > last
    <3>1. q[a] = p[a] /\ a # i
      BY <2>1, <2>4, MovedDownAt
    <3> HIDE DEF q, key
    <3> QED BY <1>3, <2>4, <3>1
  <2> QED BY <2>1, <2>2, <2>3, <2>4
<1> HIDE DEF q, key, v
<1>7. ASSUME NEW a \in Lists, NEW b \in Lists, a < b PROVE to[q[a]] <= to[q[b]]
  <2>1. a \in Nat /\ b \in Nat /\ i \in Nat /\ last \in Nat
    BY <1>2
  <2>2. CASE i <= a /\ a < last
    <3>1. to[q[a]] = key(a + 1) /\ a + 1 \in Lists /\ key(a + 1) \in Int
      BY <1>3, <1>6, <2>1, <2>2
    <3>2. CASE b < last
      <4>1. to[q[b]] = key(b + 1) /\ b + 1 \in Lists /\ a + 1 < b + 1
        BY <1>6, <1>7, <2>1, <2>2, <3>2
      <4> QED BY <1>3, <3>1, <4>1
    <3>3. CASE b = last
      <4>1. to[q[b]] = v /\ i < a + 1 /\ a + 1 <= last
        BY <1>6, <2>1, <2>2, <3>3
      <4> QED BY <1>4, <3>1, <4>1
    <3>4. CASE b > last
      <4>1. to[q[b]] = key(b) /\ a + 1 < b
        BY <1>6, <2>1, <2>2, <3>4
      <4> QED BY <1>3, <3>1, <4>1
    <3> QED BY <2>1, <3>2, <3>3, <3>4
  <2>3. CASE a = last
    <3>1. to[q[a]] = v /\ to[q[b]] = key(b)
      BY <1>6, <1>7, <2>1, <2>3
    <3> QED BY <1>5, <1>7, <2>3, <3>1
  <2>4. CASE a > last
    <3>1. to[q[a]] = key(a) /\ to[q[b]] = key(b)
      BY <1>6, <1>7, <2>1, <2>4
    <3> QED BY <1>3, <1>7, <3>1
  <2>5. CASE a < i
    <3>1. to[q[a]] = key(a) /\ key(a) <= key(i) /\ key(a) \in Int /\ key(i) \in Int
      BY <1>3, <1>6, <2>1, <2>5
    <3>2. CASE i <= b /\ b < last
      <4>1. to[q[b]] = key(b + 1) /\ b + 1 \in Lists /\ a < b + 1
        BY <1>6, <1>7, <2>1, <3>2
      <4> QED BY <1>3, <3>1, <4>1
    <3>3. CASE b = last
      <4>1. to[q[b]] = v
        BY <1>6, <2>1, <3>3
      <4> QED BY <1>3, <3>1, <4>1
    <3>4. CASE b < i \/ b > last
      <4>1. to[q[b]] = key(b)
        BY <1>6, <2>1, <3>4
      <4> QED BY <1>3, <1>7, <3>1, <4>1
    <3> QED BY <2>1, <3>2, <3>3, <3>4
  <2> QED BY <2>1, <2>2, <2>3, <2>4, <2>5
<1> QED BY <1>7 DEF q

(* The lists that are not past a document are the first ones of the order. *)
LEMMA Prefix ==
  ASSUME query \in Queries, NEW p \in Bijection(Lists, Lists),
         NEW at, \A t \in Lists : at[t] \in Int,
         \A a, b \in Lists : a < b => at[p[a]] <= at[p[b]],
         NEW d \in Int, NEW t \in Lists, at[t] <= d
  PROVE  \E k \in Lists :
           /\ {u \in Lists : at[u] <= d} = {p[j] : j \in 1..k}
           /\ \A j \in 1..k : at[p[j]] <= d
           /\ \A j \in Lists : j > k => at[p[j]] > d
<1> DEFINE P == {k \in Lists : at[p[k]] <= d}
<1>1. /\ p \in [Lists -> Lists]
      /\ \A u \in Lists : \E a \in Lists : p[a] = u
  BY BijectionMeans
<1>2. query.lists \in Nat /\ \A a \in Lists : a \in Nat
  BY QueryFacts DEF Lists
<1>3. IsFiniteSet(P) /\ P # {} /\ \A x \in P : x \in Int
  <2>1. P \in SUBSET Lists /\ P # {}
    BY <1>1
  <2> HIDE DEF P
  <2> QED BY <1>2, <2>1, QueryFacts, FS_Subset
<1>4. PICK k \in P : \A y \in P : y <= k
  <2> HIDE DEF P
  <2> QED BY <1>3, GreatestIs
<1>5. k \in Lists /\ k \in Nat /\ at[p[k]] <= d
  BY <1>2, <1>4
<1>6. \A j \in 1..k : j \in Lists /\ at[p[j]] <= d
  <2>1. SUFFICES ASSUME NEW j \in 1..k PROVE j \in Lists /\ at[p[j]] <= d
    OBVIOUS
  <2>2. j \in Lists /\ (j = k \/ j < k)
    BY <1>2, <1>5, <2>1 DEF Lists
  <2>3. at[p[j]] \in Int /\ at[p[k]] \in Int
    BY <1>1, <1>5, <2>2
  <2>4. at[p[j]] <= at[p[k]]
    BY <1>5, <2>2, <2>3
  <2> QED BY <1>5, <2>2, <2>3, <2>4
<1>7. \A j \in Lists : j > k => at[p[j]] > d
  <2>1. SUFFICES ASSUME NEW j \in Lists, j > k PROVE at[p[j]] > d
    OBVIOUS
  <2>2. j \notin P
    BY <1>2, <1>4, <1>5, <2>1
  <2>3. at[p[j]] \in Int
    BY <1>1
  <2> QED BY <2>2, <2>3
<1>8. {u \in Lists : at[u] <= d} = {p[j] : j \in 1..k}
  <2>1. ASSUME NEW u \in Lists, at[u] <= d PROVE \E j \in 1..k : u = p[j]
    <3>1. PICK j \in Lists : p[j] = u
      BY <1>1
    <3>2. j <= k
      BY <1>4, <2>1, <3>1
    <3> QED BY <3>1, <3>2, <1>5 DEF Lists
  <2>2. ASSUME NEW j \in 1..k PROVE p[j] \in Lists /\ at[p[j]] <= d
    BY <1>1, <1>6
  <2> QED BY <2>1, <2>2
<1> QED BY <1>5, <1>6, <1>7, <1>8

(* What WAND relies on: a document that no enumerator of its lists is past *)
(* cannot enter the queue when no pivot is found up to it.                 *)
LEMMA HopelessPrefix ==
  ASSUME QueueInv, Storage = "raw", NEW p \in Bijection(Lists, Lists),
         \A a, b \in Lists : a < b => docid[p[a]] <= docid[p[b]],
         NEW d \in Docs, Matching(d) # {}, \A t \in Matching(d) : docid[t] <= d,
         \A k \in Lists : (\A j \in 1..k : docid[p[j]] <= d)
           => ~Topk!WouldEnter(ListBound({p[j] : j \in 1..k}))
  PROVE  ~Topk!WouldEnter(FullScore(d))
<1>1. /\ query \in Queries /\ d \in Int /\ FullScore(d) \in Int
      /\ \A t \in Lists : docid[t] \in Int
  <2>1. query \in Queries /\ docid \in [Lists -> 0..NumDocs]
    BY DEF QueueInv, QueryTypeOK
  <2> QED BY <2>1, ScoreIsScore DEF Docs
<1>2. PICK t \in Matching(d) : t \in Lists /\ docid[t] <= d
  BY DEF Matching
<1>3. PICK k \in Lists :
        /\ {u \in Lists : docid[u] <= d} = {p[j] : j \in 1..k}
        /\ \A j \in 1..k : docid[p[j]] <= d
  BY <1>1, <1>2, Prefix
<1> DEFINE L == {u \in Lists : docid[u] <= d}
<1>4. L \in SUBSET Lists /\ Matching(d) \subseteq L /\ L # {}
  BY <1>2 DEF Matching
<1>5. ~Topk!WouldEnter(ListBound(L))
  BY <1>3
<1> HIDE DEF L
<1>6. FullScore(d) <= ListBound(L) /\ ListBound(L) \in Int
  BY <1>1, <1>4, BoundAdmissible, ListBoundType
<1> QED BY <1>1, <1>5, <1>6, BarIsOrdered

(* A document scored from some of its lists only has no higher score.      *)
LEMMA PartialScore ==
  ASSUME query \in Queries, NEW d \in Docs, NEW A \in SUBSET Matching(d)
  PROVE  Score(A, d) <= FullScore(d)
<1> DEFINE f == Part(query, d)
           w == query.q_len * query.doc_weight[d]
<1>1. IsFiniteSet(Lists) /\ Matching(d) \in SUBSET Lists /\ A \in SUBSET Lists
  BY QueryFacts DEF Matching
<1>2. \A t \in Lists : f[t] \in Nat /\ f[t] \in Int /\ f[t] <= f[t]
  <2>1. \A t \in Lists : f[t] \in Nat
    BY TermBound
  <2> HIDE DEF f
  <2> QED BY <2>1
<1>3. w \in Int
  <2>1. query.q_len \in Nat /\ query.doc_weight[d] \in Int
    BY QueryFacts
  <2> QED BY <2>1, Multiply
<1>4. /\ FullScore(d) = w + SumFunctionOnSet(f, Matching(d))
      /\ Score(A, d) = w + SumFunctionOnSet(f, A)
  BY DEF FullScore, Score, ScoreOf
<1> HIDE DEF f, w
<1>5. SumFunctionOnSet(f, A) <= SumFunctionOnSet(f, Matching(d))
  BY <1>1, <1>2, SumMonotone
<1>6. SumFunctionOnSet(f, A) \in Int /\ SumFunctionOnSet(f, Matching(d)) \in Int
  BY <1>1, <1>2, SumType, FS_Subset
<1> QED BY <1>3, <1>4, <1>5, <1>6

(* An enumerator asked for a document that is not before its own position. *)
LEMMA NextGeqLands ==
  ASSUME query \in Queries, NEW t \in Lists, NEW kind \in Kinds,
         NEW b \in 0..NumDocs, docid[t] <= b, docid[t] \in 0..NumDocs
  PROVE  LET to == NextGeq(kind, t, b) IN
         /\ to \in 0..NumDocs /\ b <= to
         /\ to = NumDocs \/ to \in Postings(t)
         /\ \A c \in Postings(t) : c >= b => to <= c
<1>1. b \in Int /\ b <= NumDocs /\ NumDocs \in Int
  BY QueryAssumption
<1>2. NextGeq(kind, t, b) = FirstGeq(t, b)
  BY <1>1 DEF NextGeq
<1> QED BY <1>1, <1>2, FirstGeqLands
-----------------------------------------------------------------------------
(* What wand_query and block_max_wand_query share.  Every enumerator is on *)
(* a document of its list or at the end, and everything offered lies       *)
(* before all of them.                                                     *)
EnumsOnLists ==
    /\ \A t \in Lists : docid[t] = NumDocs \/ docid[t] \in Postings(t)
    /\ \A e \in offered : \A t \in Lists : e.doc < docid[t]

(* The first document, scored from some of the lists at it.  When another  *)
(* list holds it too but is past it, it cannot enter.                      *)
LEMMA FirstDocument ==
  ASSUME QueueInv, pc = "search", SkippedIsHopeless, EnumsOnLists,
         NEW id \in Docs, NEW hits \in SUBSET Lists, hits # {},
         \A t \in hits : docid[t] = id,
         \A t \in Lists : t \notin hits => docid[t] > id
  PROVE  /\ hits \subseteq Matching(id) /\ NotOffered(id)
         /\ hits = Matching(id) \/ ~Topk!WouldEnter(FullScore(id))
<1>1. /\ query \in Queries /\ NumDocs \in Nat /\ id # NumDocs /\ id \in Int
      /\ docid \in [Lists -> 0..NumDocs]
  BY QueryAssumption DEF QueueInv, QueryTypeOK, Docs
<1>2. hits \subseteq Matching(id)
  BY <1>1 DEF EnumsOnLists, Matching
<1>3. NotOffered(id)
  <2>1. \A e \in offered : e.doc < id
    BY DEF EnumsOnLists
  <2> QED BY <1>1, <2>1 DEF NotOffered
<1>4. ASSUME hits # Matching(id) PROVE ~Topk!WouldEnter(FullScore(id))
  <2>1. PICK t \in Matching(id) : t \notin hits
    BY <1>2, <1>4
  <2>2. docid[t] > id
    BY <2>1 DEF Matching
  <2> QED BY <1>3, <2>2 DEF SkippedIsHopeless
<1> QED BY <1>2, <1>3, <1>4

(* Offering the first document and moving the lists at it.                 *)
LEMMA ScoreFirstStep ==
  ASSUME QueueInv, pc = "search", SkippedIsHopeless, EnumsOnLists,
         NEW id \in Docs, NEW hits \in SUBSET Lists, hits # {},
         \A t \in hits : docid[t] = id,
         \A t \in Lists : t \notin hits => docid[t] > id,
         UNCHANGED <<query, pc>>,
         docid' = [t \in Lists |-> IF t \in hits THEN NextDoc(t) ELSE docid[t]],
         NEW s \in Scores, Topk!Insert(Entry(s, id)),
         \/ s = FullScore(id)
         \/ ~Topk!WouldEnter(s) /\ ~Topk!WouldEnter(FullScore(id))
  PROVE  /\ QueueInv' /\ SkippedIsHopeless' /\ EnumsOnLists'
         /\ docid' \in [Lists -> 0..NumDocs]
         /\ Topk!Next
         /\ \A r \in Int : ~Topk!WouldEnter(r) => ~Topk!WouldEnter(r)'
         /\ \E t \in Lists : docid'[t] > docid[t]
         /\ \A t \in Lists : docid'[t] >= docid[t]
<1>1. /\ query \in Queries /\ NumDocs \in Nat /\ id \in Int /\ id < NumDocs
      /\ docid \in [Lists -> 0..NumDocs]
  BY QueryAssumption DEF QueueInv, QueryTypeOK, Docs
<1>2. NotOffered(id) /\ Matching(id) # {}
  BY FirstDocument
<1>3. ASSUME NEW t \in Lists
      PROVE  /\ docid'[t] \in 0..NumDocs
             /\ docid'[t] = NumDocs \/ docid'[t] \in Postings(t)
             /\ id < docid'[t]
             /\ docid'[t] >= docid[t]
             /\ t \in hits => /\ docid'[t] > docid[t]
                              /\ \A c \in Postings(t) : id < c => docid'[t] <= c
             /\ t \notin hits => docid'[t] = docid[t]
  <2>1. CASE t \in hits
    <3>1. docid'[t] = FirstGeq(t, id + 1)
      BY <2>1 DEF NextDoc
    <3>2. id + 1 \in Int /\ id + 1 <= NumDocs
      BY <1>1
    <3>3. Postings(t) \subseteq Nat
      BY <1>1 DEF Postings, Docs
    <3>4. /\ docid'[t] \in 0..NumDocs
          /\ docid'[t] = NumDocs \/ docid'[t] \in Postings(t)
          /\ id + 1 <= docid'[t]
          /\ \A c \in Postings(t) : c >= id + 1 => docid'[t] <= c
      BY <1>1, <3>1, <3>2, FirstGeqLands
    <3> QED BY <1>1, <2>1, <3>3, <3>4
  <2>2. CASE t \notin hits
    <3>1. docid'[t] = docid[t]
      BY <2>2
    <3>2. docid[t] \in 0..NumDocs /\ docid[t] > id
      BY <1>1, <2>2
    <3> QED BY <1>1, <2>2, <3>1, <3>2 DEF EnumsOnLists
  <2> QED BY <2>1, <2>2
<1>4. docid' \in [Lists -> 0..NumDocs]
  <2>1. docid' = [t \in Lists |-> docid'[t]]
    OBVIOUS
  <2> QED BY <1>3, <2>1
<1>5. /\ QueueInv' /\ Topk!Next /\ offered' = offered \cup {Entry(s, id)}
      /\ \A r \in Int : ~Topk!WouldEnter(r) => ~Topk!WouldEnter(r)'
  BY <1>2, <1>4, OfferStep
<1>6. Lists' = Lists /\ \A t : Postings(t)' = Postings(t)
  BY DEF Lists, Postings
<1>7. EnumsOnLists'
  <2>1. ASSUME NEW e \in offered', NEW t \in Lists PROVE e.doc < docid'[t]
    <3>1. CASE e \in offered
      <4>1. e \in Topk!Entries
        BY <3>1 DEF QueueInv, QueryTypeOK, Topk!TypeOK
      <4>2. e.doc < docid[t] /\ e.doc \in Int
        BY <1>1, <3>1, <4>1 DEF EnumsOnLists, Topk!Entries, Docs
      <4> QED BY <1>1, <1>3, <4>2
    <3>2. CASE e = Entry(s, id)
      <4>1. e.doc = id
        BY <3>2 DEF Entry
      <4> QED BY <1>3, <4>1
    <3> QED BY <1>5, <3>1, <3>2
  <2> QED BY <1>3, <1>6, <2>1 DEF EnumsOnLists
<1>8. SkippedIsHopeless'
  <2>1. SUFFICES ASSUME NEW d \in Docs, NotOffered(d)', NEW t \in Matching(d),
                        docid'[t] > d
                 PROVE  \E r \in Int : r = FullScore(d) /\ ~Topk!WouldEnter(r)'
    BY SameQuery DEF SkippedIsHopeless
  <2>2. NotOffered(d) /\ d # id
    <3>1. Entry(s, id).doc = id
      BY DEF Entry
    <3> QED BY <1>5, <2>1, <3>1 DEF NotOffered
  <2>3. /\ t \in Lists /\ d \in Postings(t) /\ d \in Int /\ FullScore(d) \in Int
        /\ docid[t] \in Int /\ docid'[t] \in Int
    BY <1>1, <1>3, ScoreIsScore DEF Matching, Docs
  <2>4. docid[t] > d
    BY <1>1, <1>3, <2>1, <2>2, <2>3
  <2> QED BY <1>5, <2>1, <2>2, <2>3, <2>4 DEF SkippedIsHopeless
<1>9. \E t \in Lists : docid'[t] > docid[t]
  BY <1>3
<1> QED BY <1>3, <1>4, <1>5, <1>7, <1>8, <1>9

(* Moving one list ahead, over documents that cannot enter.                *)
LEMMA AdvanceOneStep ==
  ASSUME QueueInv, pc = "search", SkippedIsHopeless, EnumsOnLists,
         NEW t \in Lists, NEW kind \in Kinds, NEW to \in 0..NumDocs, docid[t] < to,
         UNCHANGED <<query, pc, m_q, threshold, offered, sorted>>,
         docid' = [docid EXCEPT ![t] = NextGeq(kind, t, to)],
         \A d \in Postings(t) :
           NotOffered(d) /\ d < to /\ (\A u \in Matching(d) : docid[u] <= d)
             => ~Topk!WouldEnter(FullScore(d))
  PROVE  /\ QueueInv' /\ SkippedIsHopeless' /\ EnumsOnLists'
         /\ UNCHANGED Topk!vars
         /\ \A r : Topk!WouldEnter(r)' <=> Topk!WouldEnter(r)
         /\ docid' \in [Lists -> 0..NumDocs]
         /\ \A u \in Lists : u # t => docid'[u] = docid[u]
         /\ docid'[t] >= to
         /\ docid'[t] > docid[t]
         /\ \A u \in Lists : docid'[u] >= docid[u]
<1>1. /\ query \in Queries /\ NumDocs \in Nat /\ to \in Int
      /\ docid \in [Lists -> 0..NumDocs]
  BY QueryAssumption DEF QueueInv, QueryTypeOK
<1>2. docid'[t] = NextGeq(kind, t, to) /\ \A u \in Lists : u # t => docid'[u] = docid[u]
  BY <1>1
<1>3. docid[t] \in 0..NumDocs /\ docid[t] <= to
  BY <1>1
<1>4. /\ docid'[t] \in 0..NumDocs /\ to <= docid'[t]
      /\ docid'[t] = NumDocs \/ docid'[t] \in Postings(t)
      /\ \A c \in Postings(t) : c >= to => docid'[t] <= c
  BY <1>1, <1>2, <1>3, NextGeqLands
<1>5. docid'[t] > docid[t] /\ \A u \in Lists : docid'[u] >= docid[u]
  BY <1>1, <1>2, <1>3, <1>4
<1>6. docid' \in [Lists -> 0..NumDocs]
  <2>1. docid' = [u \in Lists |-> docid'[u]]
    BY <1>1
  <2> QED BY <1>1, <1>2, <1>4, <2>1
<1>7. QueueInv' /\ \A r : Topk!WouldEnter(r)' <=> Topk!WouldEnter(r)
  BY <1>6, QuietStep
<1>8. EnumsOnLists'
  <2>1. ASSUME NEW u \in Lists
        PROVE  docid'[u] = NumDocs \/ docid'[u] \in Postings(u)
    BY <1>2, <1>4 DEF EnumsOnLists
  <2>2. ASSUME NEW e \in offered, NEW u \in Lists PROVE e.doc < docid'[u]
    <3>1. e \in Topk!Entries
      BY DEF QueueInv, QueryTypeOK, Topk!TypeOK
    <3>2. e.doc < docid[u] /\ e.doc \in Int
      BY <1>1, <3>1 DEF EnumsOnLists, Topk!Entries, Docs
    <3>3. docid[u] \in Int /\ docid'[u] \in Int
      BY <1>1, <1>6
    <3> QED BY <1>5, <3>2, <3>3
  <2>3. Lists' = Lists /\ \A u : Postings(u)' = Postings(u)
    BY DEF Lists, Postings
  <2> QED BY <2>1, <2>2, <2>3 DEF EnumsOnLists
<1>9. SkippedIsHopeless'
  <2>1. SUFFICES ASSUME NEW d \in Docs, NotOffered(d), NEW u \in Matching(d),
                        docid'[u] > d
                 PROVE  \E r : r = FullScore(d) /\ ~Topk!WouldEnter(r)'
    BY SameQuery DEF SkippedIsHopeless, NotOffered
  <2>2. /\ d \in Int /\ Matching(d) \subseteq Lists /\ d \in Postings(u)
        /\ \A v \in Lists : docid[v] \in Int /\ docid'[v] \in Int
    BY <1>1, <1>6 DEF Matching, Docs
  <2>3. CASE \E v \in Matching(d) : docid[v] > d
    BY <1>7, <2>1, <2>3 DEF SkippedIsHopeless
  <2>4. CASE ~\E v \in Matching(d) : docid[v] > d
    <3>1. \A v \in Matching(d) : docid[v] <= d
      BY <2>2, <2>4
    <3>2. u = t
      BY <1>2, <2>1, <2>2, <3>1
    <3>3. d < to
      BY <1>1, <1>4, <2>1, <2>2, <3>2
    <3>4. ~Topk!WouldEnter(FullScore(d))
      BY <2>1, <2>2, <3>1, <3>2, <3>3
    <3> QED BY <1>7, <3>4
  <2> QED BY <2>3, <2>4
<1> QED BY <1>2, <1>4, <1>5, <1>6, <1>7, <1>8, <1>9 DEF Topk!vars

(* Moving that list down behind those it is not before any more.           *)
LEMMA AdvancedOrder ==
  ASSUME query \in Queries, NEW p \in Bijection(Lists, Lists),
         \A a, b \in Lists : a < b => docid[p[a]] <= docid[p[b]],
         NEW i \in Lists, NEW last \in Lists, i <= last,
         docid \in [Lists -> 0..NumDocs], docid' \in [Lists -> 0..NumDocs],
         \A u \in Lists : u # p[i] => docid'[u] = docid[u],
         docid'[p[i]] > docid[p[i]],
         \A h \in i+1 .. last : docid'[p[h]] <= docid'[p[i]],
         last + 1 \in Lists => docid'[p[i]] <= docid'[p[last + 1]]
  PROVE  /\ MovedDown(p, i, last) \in Bijection(Lists, Lists)
         /\ \A a, b \in Lists : a < b => docid'[MovedDown(p, i, last)[a]]
                                           <= docid'[MovedDown(p, i, last)[b]]
<1>1. /\ p \in [Lists -> Lists]
      /\ \A a, b \in Lists : p[a] = p[b] => a = b
  BY BijectionMeans
<1>2. NumDocs \in Int /\ \A u \in Lists : docid[u] \in Int /\ docid'[u] \in Int
  BY QueryAssumption
<1>3. ASSUME NEW h \in Lists, h # i PROVE docid'[p[h]] = docid[p[h]]
  BY <1>1, <1>3
<1>4. /\ \A h \in i+1 .. last : h \in Lists /\ h # i
      /\ last + 1 # i
  BY QueryFacts DEF Lists
<1>5. \A h \in i+1 .. last : docid[p[h]] <= docid'[p[i]]
  BY <1>3, <1>4
<1>6. last + 1 \in Lists => docid'[p[i]] <= docid[p[last + 1]]
  BY <1>3, <1>4
<1>7. docid[p[i]] <= docid'[p[i]]
  BY <1>1, <1>2
<1>8. MovedDown(p, i, last) \in Bijection(Lists, Lists)
  BY MovedDownPermutes
<1>9. LET q == MovedDown(p, i, last) IN
      \A a, b \in Lists : a < b => docid'[q[a]] <= docid'[q[b]]
  BY <1>2, <1>5, <1>6, <1>7, MovedDownSorts
<1> QED BY <1>8, <1>9
=============================================================================
