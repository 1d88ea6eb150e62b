-------------------------- MODULE HybridIndexProofs --------------------------
(***************************************************************************)
(* Proofs about HybridIndex, for every index, every statistics, budget and *)
(* setting: whichever threads compute the trade-offs and transform the     *)
(* lists, and whether or not the program was killed and run again, the     *)
(* index has the codings that were chosen, and no other choice is better.  *)
(***************************************************************************)
EXTENDS HybridIndex, SequenceTheorems, FiniteSetTheorems, WellFoundedInduction, TLAPS

(* Every set of natural numbers has a least element, and every set of      *)
(* subsets of a finite set a smallest one: proofs by induction are proofs  *)
(* by a smallest counterexample.                                           *)
LEMMA LeastOf ==
  ASSUME NEW T \in SUBSET Nat, T # {}
  PROVE  \E x \in T : \A y \in T : x <= y
<1> DEFINE R == OpToRel(<, Nat)
<1>1. IsWellFoundedOn(R, Nat)
  BY Zenon, NatLessThanWellFounded
<1>2. PICK x \in T : \A y \in T : ~(<<y, x>> \in R)
  <2> HIDE DEF R
  <2> QED BY <1>1, WFMin
<1>3. \A y \in T : ~(y < x)
  BY <1>2 DEF OpToRel
<1> QED BY <1>3

LEMMA InductionUpTo ==
  ASSUME NEW n \in Nat, NEW T \in SUBSET (1 .. n),
         \A m \in 1 .. n : (\A k \in 1 .. m - 1 : k \in T) => m \in T
  PROVE  T = 1 .. n
<1> DEFINE C == (1 .. n) \ T
<1>1. SUFFICES ASSUME C # {} PROVE FALSE
  OBVIOUS
<1>2. PICK m \in C : \A k \in C : m <= k
  <2>1. C \in SUBSET Nat
    OBVIOUS
  <2> HIDE DEF C
  <2> QED BY <1>1, <2>1, LeastOf
<1>3. ASSUME NEW k \in 1 .. m - 1 PROVE k \in T
  BY <1>2
<1> QED BY <1>2, <1>3

LEMMA SmallestSet ==
  ASSUME NEW S, IsFiniteSet(S), NEW T \in SUBSET SUBSET S, T # {}
  PROVE  \E x \in T : \A y \in T : y \subseteq x => y = x
<1> DEFINE R == StrictSubsetOrdering(S)
           F == FiniteSubsetsOf(S)
<1>1. IsWellFoundedOn(R, F)
  BY FS_StrictSubsetOrderingWellFounded
<1>2. T \subseteq F
  BY FS_Subset DEF FiniteSubsetsOf
<1>3. PICK x \in T : \A y \in T : ~(<<y, x>> \in R)
  <2> HIDE DEF R, F
  <2> QED BY <1>1, <1>2, WFMin
<1> QED BY <1>2, <1>3 DEF StrictSubsetOrdering
-----------------------------------------------------------------------------
(***************************************************************************)
(* Functions that are defined by recursion along 1 .. n.  There is one for *)
(* every first value and every step, a step being a function of the index  *)
(* and the value before.                                                   *)
(***************************************************************************)
IsRec(g, n, first, step) ==
    g = [i \in 1 .. n |-> IF i = 1 THEN first ELSE step[<<i, g[i - 1]>>]]

LEMMA RecExists ==
  ASSUME NEW n \in Nat, NEW first, NEW step
  PROVE  \E g : IsRec(g, n, first, step)
<1> DEFINE C == {m \in 0 .. n : ~\E g : IsRec(g, m, first, step)}
<1>1. SUFFICES ASSUME C # {} PROVE FALSE
  OBVIOUS
<1>2. PICK m \in C : \A k \in C : m <= k
  <2>1. C \in SUBSET Nat
    OBVIOUS
  <2> HIDE DEF C
  <2> QED BY <1>1, <2>1, LeastOf
<1>3. m # 0
  <2>1. IsRec([i \in 1 .. 0 |-> first], 0, first, step)
    BY DEF IsRec
  <2> QED BY <1>2, <2>1
<1>4. m - 1 \in 0 .. n /\ m - 1 \notin C
  BY <1>2, <1>3
<1>5. PICK h : IsRec(h, m - 1, first, step)
  BY <1>4
<1> DEFINE g == [i \in 1 .. m |-> IF i = 1 THEN first ELSE step[<<i, h[i - 1]>>]]
<1>6. ASSUME NEW i \in 1 .. m, i # 1 PROVE h[i - 1] = g[i - 1]
  <2>1. i - 1 \in 1 .. m - 1 /\ i - 1 \in 1 .. m
    BY <1>2, <1>6
  <2>2. h[i - 1] = IF i - 1 = 1 THEN first ELSE step[<<i - 1, h[i - 1 - 1]>>]
    BY <1>5, <2>1 DEF IsRec
  <2> QED BY <2>1, <2>2
<1>7. IsRec(g, m, first, step)
  <2>1. \A i \in 1 .. m :
          (IF i = 1 THEN first ELSE step[<<i, h[i - 1]>>])
            = (IF i = 1 THEN first ELSE step[<<i, g[i - 1]>>])
    <3> HIDE DEF g
    <3> QED BY <1>6
  <2> QED BY <2>1 DEF IsRec
<1> QED BY <1>2, <1>7

(* What it returns, when X[i] is what it may be for i.                     *)
LEMMA RecType ==
  ASSUME NEW n \in Nat, NEW first, NEW step, NEW X, NEW g,
         IsRec(g, n, first, step), n > 0 => first \in X[1],
         \A i \in 2 .. n : \A x \in X[i - 1] : step[<<i, x>>] \in X[i]
  PROVE  \A i \in 1 .. n : g[i] \in X[i]
<1> DEFINE C == {m \in 1 .. n : g[m] \notin X[m]}
<1>1. SUFFICES ASSUME C # {} PROVE FALSE
  OBVIOUS
<1>2. PICK m \in C : \A k \in C : m <= k
  <2>1. C \in SUBSET Nat
    OBVIOUS
  <2> HIDE DEF C
  <2> QED BY <1>1, <2>1, LeastOf
<1>3. g[m] = IF m = 1 THEN first ELSE step[<<m, g[m - 1]>>]
  BY <1>2 DEF IsRec
<1>4. CASE m = 1
  BY <1>2, <1>3, <1>4
<1>5. CASE m # 1
  <2>1. m \in 2 .. n /\ m - 1 \in 1 .. n /\ m - 1 \notin C
    BY <1>2, <1>5
  <2>2. g[m - 1] \in X[m - 1]
    BY <2>1
  <2> QED BY <1>2, <1>3, <1>5, <2>1, <2>2
<1> QED BY <1>4, <1>5
-----------------------------------------------------------------------------
(***************************************************************************)
(* The sequence of all elements of the sequences in seqs.                  *)
(***************************************************************************)
IsFlat(g, seqs) ==
    g = [i \in 1 .. Len(seqs) |-> IF i = 1 THEN seqs[i] ELSE g[i - 1] \o seqs[i]]

LEMMA FlattenRec ==
  ASSUME NEW S, NEW seqs \in Seq(Seq(S)), Len(seqs) > 0
  PROVE  \E g \in [1 .. Len(seqs) -> Seq(S)] :
           /\ FlattenSeq(seqs) = g[Len(seqs)] /\ g[1] = seqs[1]
           /\ \A i \in 2 .. Len(seqs) : g[i] = g[i - 1] \o seqs[i]
<1> DEFINE n == Len(seqs)
           step == [p \in (1 .. n) \X Seq(S) |-> p[2] \o seqs[p[1]]]
           X == [i \in 1 .. n |-> Seq(S)]
<1>1. n \in Nat /\ \A i \in 1 .. n : seqs[i] \in Seq(S)
  OBVIOUS
<1>2. ASSUME NEW i \in 1 .. n, NEW x \in Seq(S) PROVE step[<<i, x>>] = x \o seqs[i]
  <2>1. <<i, x>> \in (1 .. n) \X Seq(S)
    OBVIOUS
  <2>2. \A p \in (1 .. n) \X Seq(S) : step[p] = p[2] \o seqs[p[1]]
    OBVIOUS
  <2> HIDE DEF step
  <2> QED BY <2>1, <2>2
<1>3. PICK g : IsRec(g, n, seqs[1], step)
  <2> HIDE DEF n, step
  <2> QED BY <1>1, RecExists
<1>4. \A i \in 1 .. n : g[i] \in Seq(S)
  <2>1. \A i \in 1 .. n : X[i] = Seq(S)
    OBVIOUS
  <2> HIDE DEF X
  <2>2. n > 0 => seqs[1] \in X[1]
    BY <1>1, <2>1
  <2>3. ASSUME NEW i \in 2 .. n, NEW x \in X[i - 1] PROVE step[<<i, x>>] \in X[i]
    <3> HIDE DEF step
    <3>1. i \in 1 .. n /\ i - 1 \in 1 .. n
      BY <1>1
    <3>2. x \in Seq(S) /\ X[i] = Seq(S)
      BY <2>1, <3>1
    <3>3. step[<<i, x>>] = x \o seqs[i]
      BY <1>2, <3>1, <3>2
    <3> QED BY <1>1, <3>1, <3>2, <3>3, ConcatProperties
  <2> HIDE DEF n, step
  <2>4. \A i \in 1 .. n : g[i] \in X[i]
    BY <1>1, <1>3, <2>2, <2>3, RecType
  <2> QED BY <2>1, <2>4
<1>5. g = [i \in 1 .. n |-> IF i = 1 THEN seqs[1] ELSE step[<<i, g[i - 1]>>]]
  BY <1>3 DEF IsRec
<1>6. ASSUME NEW i \in 1 .. n, i # 1
      PROVE  step[<<i, g[i - 1]>>] = g[i - 1] \o seqs[i]
  <2>1. g[i - 1] \in Seq(S)
    BY <1>1, <1>4, <1>6
  <2> QED BY <1>2, <2>1
<1>7. IsFlat(g, seqs)
  <2> HIDE DEF step
  <2> QED BY <1>5, <1>6 DEF IsFlat
<1> DEFINE h == CHOOSE f : IsFlat(f, seqs)
<1>8. FlattenSeq(seqs) = h[n]
  BY <1>1 DEF FlattenSeq, IsFlat
<1>9. IsFlat(h, seqs)
  BY <1>7
<1>10. \A i \in 1 .. n : h[i] = IF i = 1 THEN seqs[1] ELSE h[i - 1] \o seqs[i]
  <2> HIDE DEF h
  <2> QED BY <1>9 DEF IsFlat
<1>11. h = [i \in 1 .. n |-> h[i]]
  <2> HIDE DEF h
  <2> QED BY <1>9 DEF IsFlat
<1>12. \A i \in 1 .. n : h[i] \in Seq(S)
  <2> DEFINE C == {m \in 1 .. n : h[m] \notin Seq(S)}
  <2>1. SUFFICES ASSUME C # {} PROVE FALSE
    OBVIOUS
  <2>2. PICK m \in C : \A k \in C : m <= k
    <3>1. C \in SUBSET Nat
      OBVIOUS
    <3> HIDE DEF C
    <3> QED BY <2>1, <3>1, LeastOf
  <2> HIDE DEF h
  <2>3. m # 1
    BY <1>1, <1>10, <2>2
  <2>4. m - 1 \in 1 .. n /\ m - 1 \notin C
    BY <2>2, <2>3
  <2>5. h[m] = h[m - 1] \o seqs[m] /\ h[m - 1] \in Seq(S)
    BY <1>10, <2>2, <2>3, <2>4
  <2>6. m \in 1 .. n /\ h[m] \notin Seq(S) /\ seqs[m] \in Seq(S)
    BY <1>1, <2>2
  <2> QED BY <2>5, <2>6, ConcatProperties
<1> HIDE DEF h
<1>13. h \in [1 .. n -> Seq(S)]
  BY <1>11, <1>12
<1>14. h[1] = seqs[1]
  <2>1. 1 \in 1 .. n
    BY <1>1
  <2> QED BY <1>10, <2>1
<1>15. ASSUME NEW i \in 2 .. n PROVE h[i] = h[i - 1] \o seqs[i]
  <2>1. i \in 1 .. n /\ i # 1
    BY <1>1
  <2> QED BY <1>10, <2>1
<1> QED BY <1>8, <1>13, <1>14, <1>15

(* off[i] is the number of elements of the sequences before the i-th.      *)
IsOffset(off, seqs) ==
    /\ off[1] = 0
    /\ \A i \in 1 .. Len(seqs) :
         off[i] \in Nat /\ off[i + 1] = off[i] + Len(seqs[i])

LEMMA FlattenAt ==
  ASSUME NEW S, NEW seqs \in Seq(Seq(S)), NEW off, IsOffset(off, seqs)
  PROVE  /\ FlattenSeq(seqs) \in Seq(S)
         /\ Len(FlattenSeq(seqs)) = off[Len(seqs) + 1]
         /\ \A i \in 1 .. Len(seqs) : \A k \in 1 .. Len(seqs[i]) :
              /\ off[i] + k \in 1 .. off[Len(seqs) + 1]
              /\ FlattenSeq(seqs)[off[i] + k] = seqs[i][k]
<1>1. PICK n \in Nat : n = Len(seqs)
  BY LenProperties
<1>2. \A i \in 1 .. n : seqs[i] \in Seq(S) /\ Len(seqs[i]) \in Nat
  BY <1>1, LenProperties
<1>3. CASE n = 0
  <2>1. FlattenSeq(seqs) = seqs /\ Len(seqs) = 0
    BY <1>1, <1>3 DEF FlattenSeq
  <2>2. off[Len(seqs) + 1] = 0 /\ 1 .. Len(seqs) = {}
    BY <2>1 DEF IsOffset
  <2> QED BY <2>1, <2>2
<1>4. CASE n > 0
  <2>1. PICK g \in [1 .. n -> Seq(S)] :
          /\ FlattenSeq(seqs) = g[n] /\ g[1] = seqs[1]
          /\ \A i \in 2 .. n : g[i] = g[i - 1] \o seqs[i]
    BY <1>1, <1>4, FlattenRec
  <2> DEFINE Has(m, j, x) == j \in 1 .. off[m + 1] /\ g[m][j] = x
             At(m) ==
               /\ Len(g[m]) = off[m + 1]
               /\ \A i \in 1 .. m : \A k \in 1 .. Len(seqs[i]) :
                    Has(m, off[i] + k, seqs[i][k])
             T == {m \in 1 .. n : At(m)}
  <2>2. ASSUME NEW m \in 1 .. n, \A k \in 1 .. m - 1 : At(k) PROVE At(m)
    <3>1. CASE m = 1
      <4>1. g[m] = seqs[1] /\ off[2] = Len(seqs[1]) /\ off[1] = 0 /\ Len(seqs[1]) \in Nat
        BY <1>1, <1>2, <1>4, <2>1, <3>1 DEF IsOffset
      <4>2. ASSUME NEW i \in 1 .. m, NEW k \in 1 .. Len(seqs[i])
            PROVE  Has(m, off[i] + k, seqs[i][k])
        BY <3>1, <4>1, <4>2
      <4> QED BY <3>1, <4>1, <4>2
    <3>2. CASE m # 1
      <4>1. m \in 2 .. n /\ m - 1 \in 1 .. n /\ m - 1 \in 1 .. m - 1
        BY <3>2
      <4>2. g[m] = g[m - 1] \o seqs[m] /\ g[m - 1] \in Seq(S) /\ seqs[m] \in Seq(S)
        BY <1>1, <1>2, <2>1, <4>1
      <4>8. PICK here \in Nat, len \in Nat :
              here = off[m] /\ len = Len(seqs[m]) /\ off[m + 1] = here + len
        BY <1>1, <1>2 DEF IsOffset
      <4>3. At(m - 1) /\ m - 1 + 1 = m
        <5> HIDE DEF At
        <5> QED BY <2>2, <4>1
      <4>4. Len(g[m - 1]) = off[m]
        BY <4>3
      <4>5. ASSUME NEW i \in 1 .. m - 1, NEW k \in 1 .. Len(seqs[i])
            PROVE  off[i] + k \in 1 .. off[m] /\ g[m - 1][off[i] + k] = seqs[i][k]
        BY <4>3
      <4> HIDE DEF At
      <4>6. /\ Len(g[m]) = off[m + 1]
            /\ \A j \in 1 .. off[m + 1] :
                 g[m][j] = IF j <= off[m] THEN g[m - 1][j] ELSE seqs[m][j - off[m]]
        <5>1. PICK a \in Seq(S), b \in Seq(S) :
                a = g[m - 1] /\ b = seqs[m] /\ g[m] = a \o b
          BY <4>2
        <5>2. /\ Len(a \o b) = Len(a) + Len(b)
              /\ \A j \in 1 .. Len(a) + Len(b) :
                   (a \o b)[j] = IF j <= Len(a) THEN a[j] ELSE b[j - Len(a)]
          BY ConcatProperties
        <5>3. Len(a) = here /\ Len(b) = len
          BY <4>4, <4>8, <5>1
        <5> QED BY <4>8, <5>1, <5>2, <5>3
      <4>7. ASSUME NEW i \in 1 .. m, NEW k \in 1 .. Len(seqs[i])
            PROVE  Has(m, off[i] + k, seqs[i][k])
        <5>1. CASE i = m
          <6>1. k \in 1 .. len
            BY <4>8, <5>1
          <6>2. here + k \in 1 .. here + len /\ ~(here + k <= here) /\ here + k - here = k
            BY <6>1
          <6>3. off[i] + k \in 1 .. off[m + 1]
            BY <4>8, <5>1, <6>2
          <6>4. g[m][here + k] = seqs[m][k]
            <7>1. PICK j : j = here + k
              OBVIOUS
            <7>2. j \in 1 .. off[m + 1] /\ ~(j <= off[m]) /\ j - off[m] = k
              <8>1. j \in 1 .. here + len /\ ~(j <= here) /\ j - here = k
                BY <6>1, <7>1
              <8> QED BY <4>8, <8>1, Zenon
            <7> QED BY <4>6, <7>1, <7>2
          <6> QED BY <4>8, <5>1, <6>3, <6>4
        <5>2. CASE i # m
          <6>1. i \in 1 .. m - 1
            BY <4>1, <5>2
          <6>2. off[i] + k \in 1 .. off[m] /\ g[m - 1][off[i] + k] = seqs[i][k]
            BY <4>5, <6>1
          <6>3. PICK j : j = off[i] + k
            OBVIOUS
          <6>4. j \in 1 .. here /\ g[m - 1][j] = seqs[i][k]
            BY <4>8, <6>2, <6>3
          <6>5. j \in 1 .. here + len /\ j <= here
            BY <6>4
          <6>7. j \in 1 .. off[m + 1] /\ j <= off[m]
            BY <4>8, <6>5, Zenon
          <6>6. g[m][j] = seqs[i][k]
            BY <4>6, <6>4, <6>7
          <6> QED BY <6>3, <6>6, <6>7
        <5> QED BY <5>1, <5>2
      <4> QED BY <4>6, <4>7 DEF At
    <3> QED BY <3>1, <3>2
  <2>3. T = 1 .. n
    <3>1. T \in SUBSET (1 .. n)
          /\ \A m \in 1 .. n : (\A k \in 1 .. m - 1 : k \in T) => m \in T
      <4> HIDE DEF At
      <4> QED BY <2>2
    <3> HIDE DEF T
    <3> QED BY <3>1, InductionUpTo
  <2>4. n \in T /\ g[n] \in Seq(S)
    <3> HIDE DEF T
    <3> QED BY <1>4, <2>3
  <2>5. At(n)
    <3> HIDE DEF At
    <3> QED BY <2>4
  <2> QED BY <1>1, <2>1, <2>4, <2>5
<1> QED BY <1>1, <1>3, <1>4

LEMMA FlattenRange ==
  ASSUME NEW S, NEW seqs \in Seq(Seq(S))
  PROVE  /\ FlattenSeq(seqs) \in Seq(S)
         /\ Range(FlattenSeq(seqs)) = UNION {Range(seqs[i]) : i \in 1 .. Len(seqs)}
<1>1. PICK n \in Nat : n = Len(seqs)
  BY LenProperties
<1>2. \A i \in 1 .. n : seqs[i] \in Seq(S)
  BY <1>1
<1>3. CASE n = 0
  <2>1. FlattenSeq(seqs) = seqs /\ Len(seqs) = 0
    BY <1>1, <1>3 DEF FlattenSeq
  <2>2. 1 .. Len(seqs) = {}
    BY <2>1
  <2>3. Range(seqs) = {}
    BY <2>2, RangeEquality, Zenon
  <2>4. UNION {Range(seqs[i]) : i \in 1 .. Len(seqs)} = {}
    BY <2>2, Zenon
  <2> QED BY <2>1, <2>3, <2>4
<1>4. CASE n > 0
  <2>1. PICK g \in [1 .. n -> Seq(S)] :
          /\ FlattenSeq(seqs) = g[n] /\ g[1] = seqs[1]
          /\ \A i \in 2 .. n : g[i] = g[i - 1] \o seqs[i]
    BY <1>1, <1>4, FlattenRec
  <2> DEFINE All(m) == UNION {Range(seqs[i]) : i \in 1 .. m}
             T == {m \in 1 .. n : Range(g[m]) = All(m)}
  <2>2. ASSUME NEW m \in 1 .. n, \A k \in 1 .. m - 1 : Range(g[k]) = All(k)
        PROVE  Range(g[m]) = All(m)
    <3>1. CASE m = 1
      <4>1. 1 .. m = {1} /\ g[m] = seqs[1]
        BY <2>1, <3>1
      <4> QED BY <4>1
    <3>2. CASE m # 1
      <4>1. m \in 2 .. n /\ m - 1 \in 1 .. n /\ m - 1 \in 1 .. m - 1
        BY <3>2
      <4>2. Range(g[m - 1]) = All(m - 1)
        BY <2>2, <4>1
      <4>3. g[m] = g[m - 1] \o seqs[m] /\ g[m - 1] \in Seq(S) /\ seqs[m] \in Seq(S)
        BY <1>2, <2>1, <4>1
      <4>4. Range(g[m]) = Range(g[m - 1]) \cup Range(seqs[m])
        <5> HIDE DEF All
        <5> QED BY <4>3, RangeConcatenation
      <4>5. 1 .. m = (1 .. m - 1) \cup {m}
        BY <4>1
      <4> QED BY <4>2, <4>4, <4>5
    <3> QED BY <3>1, <3>2
  <2>3. T = 1 .. n
    <3>1. T \in SUBSET (1 .. n)
          /\ \A m \in 1 .. n : (\A k \in 1 .. m - 1 : k \in T) => m \in T
      <4> HIDE DEF All
      <4> QED BY <2>2
    <3> HIDE DEF T
    <3> QED BY <3>1, InductionUpTo
  <2>4. n \in T /\ g[n] \in Seq(S)
    <3> HIDE DEF T
    <3> QED BY <1>4, <2>3
  <2>5. Range(g[n]) = All(n)
    <3> HIDE DEF All
    <3> QED BY <2>4
  <2> QED BY <1>1, <2>1, <2>4, <2>5
<1> QED BY <1>1, <1>3, <1>4
-----------------------------------------------------------------------------
(* What is known of the input of a run.                                    *)
LEMMA BlocksType == ASSUME NEW size \in Nat \ {0} PROVE Blocks(size) \in Nat \ {0}
<1> DEFINE m == size + BlockSize - 1
<1>1. BlockSize \in Nat /\ BlockSize > 0 /\ m \in Nat /\ m >= BlockSize
  BY HybridAssumption
<1>2. m \div BlockSize \in Nat /\ m \div BlockSize >= 1
  <2> HIDE DEF m
  <2> QED BY <1>1
<1> QED BY <1>2 DEF Blocks

LEMMA InputFacts ==
  ASSUME input \in Inputs
  PROVE  /\ NumLists \in Nat /\ DOMAIN Lists = 1 .. NumLists
         /\ \A l \in 1 .. NumLists :
              /\ Lists[l].size \in Nat \ {0} /\ NumBlocks(l) \in Nat \ {0}
              /\ Lists[l].codings \in Seq(SUBSET Coding)
              /\ DOMAIN Lists[l].codings = 1 .. 2 * NumBlocks(l)
              /\ \A s \in 1 .. 2 * NumBlocks(l) :
                   /\ Lists[l].codings[s] \in SUBSET Coding
                   /\ Lists[l].codings[s] # {} /\ IsFiniteSet(Lists[l].codings[s])
                   /\ \/ FullSide(Lists[l].size, s)
                      \/ \A c \in Lists[l].codings[s] : c.type = "interpolative"
<1>1. /\ Lists \in Seq([size : Nat \ {0}, codings : Seq(SUBSET Coding)])
      /\ \A l \in DOMAIN Lists :
           /\ Len(Lists[l].codings) = 2 * Blocks(Lists[l].size)
           /\ \A s \in DOMAIN Lists[l].codings :
                /\ Lists[l].codings[s] # {} /\ IsFiniteSet(Lists[l].codings[s])
                /\ \/ FullSide(Lists[l].size, s)
                   \/ \A c \in Lists[l].codings[s] : c.type = "interpolative"
  BY InputsAssumption DEF Lists
<1>2. NumLists \in Nat /\ DOMAIN Lists = 1 .. NumLists
  BY <1>1, LenProperties DEF NumLists
<1>3. ASSUME NEW l \in 1 .. NumLists
      PROVE  /\ Lists[l].size \in Nat \ {0} /\ NumBlocks(l) \in Nat \ {0}
             /\ Lists[l].codings \in Seq(SUBSET Coding)
             /\ DOMAIN Lists[l].codings = 1 .. 2 * NumBlocks(l)
  <2>1. Lists[l] \in [size : Nat \ {0}, codings : Seq(SUBSET Coding)]
    BY <1>1, <1>2, ElementOfSeq DEF NumLists
  <2>2. Lists[l].size \in Nat \ {0} /\ Lists[l].codings \in Seq(SUBSET Coding)
    BY <2>1
  <2>3. NumBlocks(l) \in Nat \ {0}
    BY <2>2, BlocksType DEF NumBlocks
  <2>4. Len(Lists[l].codings) = 2 * NumBlocks(l)
    BY <1>1, <1>2 DEF NumBlocks
  <2> QED BY <2>2, <2>3, <2>4, LenProperties
<1>4. ASSUME NEW l \in 1 .. NumLists, NEW s \in 1 .. 2 * NumBlocks(l)
      PROVE  /\ Lists[l].codings[s] \in SUBSET Coding
             /\ Lists[l].codings[s] # {} /\ IsFiniteSet(Lists[l].codings[s])
             /\ \/ FullSide(Lists[l].size, s)
                \/ \A c \in Lists[l].codings[s] : c.type = "interpolative"
  <2>1. l \in DOMAIN Lists /\ s \in DOMAIN Lists[l].codings
    BY <1>2, <1>3
  <2>2. s \in 1 .. Len(Lists[l].codings)
    BY <1>3, <2>1, LenProperties
  <2>3. Lists[l].codings[s] \in SUBSET Coding
    BY <1>3, <2>2, ElementOfSeq
  <2> QED BY <1>1, <2>1, <2>3
<1> QED BY <1>2, <1>3, <1>4

(* The lines of the statistics are of different lists, in their order.     *)
LEMMA StatsFacts ==
  ASSUME input \in Inputs
  PROVE  /\ Len(input.stats) \in Nat /\ DOMAIN input.stats = 1 .. Len(input.stats)
         /\ \A k \in DOMAIN input.stats :
              /\ input.stats[k].list \in 1 .. NumLists
              /\ input.stats[k].counts \in Seq(Nat)
              /\ Len(input.stats[k].counts) = 2 * NumBlocks(input.stats[k].list)
              /\ \A m \in DOMAIN input.stats :
                   m < k => input.stats[m].list < input.stats[k].list
<1>1. /\ input.stats \in Seq([list : 1 .. NumLists, counts : Seq(Nat)])
      /\ \A k \in DOMAIN input.stats :
           /\ Len(input.stats[k].counts) = 2 * NumBlocks(input.stats[k].list)
           /\ \A m \in DOMAIN input.stats :
                m < k => input.stats[m].list < input.stats[k].list
  BY InputsAssumption DEF Lists, NumLists, NumBlocks
<1>2. Len(input.stats) \in Nat /\ DOMAIN input.stats = 1 .. Len(input.stats)
  BY <1>1, LenProperties
<1>3. ASSUME NEW k \in DOMAIN input.stats
      PROVE  input.stats[k].list \in 1 .. NumLists /\ input.stats[k].counts \in Seq(Nat)
  <2>1. input.stats[k] \in [list : 1 .. NumLists, counts : Seq(Nat)]
    BY <1>1, <1>2, ElementOfSeq
  <2> QED BY <2>1
<1> QED BY <1>1, <1>2, <1>3

(* The numbers of the sides: block_id_base goes through the lists.         *)
IsSides(g) ==
    g = [l \in 1 .. NumLists + 1 |->
            IF l = 1 THEN 0 ELSE g[l - 1] + 2 * NumBlocks(l - 1)]

LEMMA SidesExist == ASSUME input \in Inputs PROVE IsSides(SidesBefore)
<1>1. PICK n \in Nat : n = NumLists + 1
  BY InputFacts
<1> DEFINE step == [p \in (1 .. n) \X Nat |-> p[2] + 2 * NumBlocks(p[1] - 1)]
           X == [i \in 1 .. n |-> Nat]
<1>2. \A i \in 2 .. n : NumBlocks(i - 1) \in Nat
  <2>1. ASSUME NEW i \in 2 .. n PROVE i - 1 \in 1 .. NumLists
    BY <1>1, InputFacts
  <2> QED BY <2>1, InputFacts
<1>3. ASSUME NEW i \in 1 .. n, NEW x \in Nat
      PROVE  step[<<i, x>>] = x + 2 * NumBlocks(i - 1)
  <2>1. <<i, x>> \in (1 .. n) \X Nat
    OBVIOUS
  <2>2. \A p \in (1 .. n) \X Nat : step[p] = p[2] + 2 * NumBlocks(p[1] - 1)
    OBVIOUS
  <2> HIDE DEF step
  <2> QED BY <2>1, <2>2
<1> HIDE DEF step
<1>4. PICK g : IsRec(g, n, 0, step)
  BY RecExists
<1>5. \A i \in 1 .. n : g[i] \in Nat
  <2>1. \A i \in 1 .. n : X[i] = Nat
    OBVIOUS
  <2> HIDE DEF X
  <2>2. n > 0 => 0 \in X[1]
    BY <2>1
  <2>3. ASSUME NEW i \in 2 .. n, NEW x \in X[i - 1] PROVE step[<<i, x>>] \in X[i]
    <3>1. i \in 1 .. n /\ i - 1 \in 1 .. n
      OBVIOUS
    <3>2. x \in Nat /\ X[i] = Nat
      BY <2>1, <3>1
    <3> QED BY <1>2, <1>3, <3>1, <3>2
  <2>4. \A i \in 1 .. n : g[i] \in X[i]
    BY <1>4, <2>2, <2>3, RecType
  <2> QED BY <2>1, <2>4
<1>6. ASSUME NEW i \in 1 .. n, i # 1
      PROVE  step[<<i, g[i - 1]>>] = g[i - 1] + 2 * NumBlocks(i - 1)
  <2>1. g[i - 1] \in Nat
    BY <1>5, <1>6
  <2> QED BY <1>3, <2>1
<1>7. g = [i \in 1 .. n |-> IF i = 1 THEN 0 ELSE step[<<i, g[i - 1]>>]]
  BY <1>4 DEF IsRec
<1>8. g = [i \in 1 .. n |-> IF i = 1 THEN 0 ELSE g[i - 1] + 2 * NumBlocks(i - 1)]
  BY <1>6, <1>7
<1>9. IsSides(g)
  BY <1>1, <1>8 DEF IsSides
<1>10. SidesBefore = CHOOSE f : IsSides(f)
  BY DEF SidesBefore, IsSides
<1> QED BY <1>9, <1>10

LEMMA SidesType ==
  ASSUME input \in Inputs
  PROVE  /\ \A l \in 1 .. NumLists + 1 : SidesBefore[l] \in Nat
         /\ SidesBefore[1] = 0
         /\ \A l \in 1 .. NumLists : SidesBefore[l + 1] = SidesBefore[l] + 2 * NumBlocks(l)
<1>1. \A l \in 1 .. NumLists + 1 :
        SidesBefore[l] = IF l = 1 THEN 0 ELSE SidesBefore[l - 1] + 2 * NumBlocks(l - 1)
  BY SidesExist DEF IsSides
<1>2. NumLists \in Nat
  BY InputFacts
<1>3. SidesBefore[1] = 0
  BY <1>1, <1>2
<1>4. ASSUME NEW l \in 1 .. NumLists
      PROVE  SidesBefore[l + 1] = SidesBefore[l] + 2 * NumBlocks(l)
  <2>1. l + 1 \in 1 .. NumLists + 1 /\ l + 1 # 1 /\ l + 1 - 1 = l
    BY <1>2
  <2> QED BY <1>1, <2>1
<1> DEFINE T == {l \in 1 .. NumLists + 1 : SidesBefore[l] \in Nat}
<1>5. ASSUME NEW l \in 1 .. NumLists + 1, \A k \in 1 .. l - 1 : k \in T PROVE l \in T
  <2>1. CASE l = 1
    BY <1>3, <2>1
  <2>2. CASE l # 1
    <3>1. l - 1 \in 1 .. NumLists /\ l - 1 \in 1 .. l - 1 /\ l - 1 + 1 = l
      BY <1>2, <2>2
    <3>2. SidesBefore[l - 1] \in Nat /\ NumBlocks(l - 1) \in Nat
      BY <1>5, <3>1, InputFacts
    <3>3. SidesBefore[l] = SidesBefore[l - 1] + 2 * NumBlocks(l - 1)
      BY <1>4, <3>1
    <3> QED BY <3>2, <3>3
  <2> QED BY <2>1, <2>2
<1>6. T = 1 .. NumLists + 1
  <2>1. T \in SUBSET (1 .. NumLists + 1) /\ NumLists + 1 \in Nat
    BY <1>2
  <2> HIDE DEF T
  <2> QED BY <1>5, <2>1, InductionUpTo
<1> QED BY <1>3, <1>4, <1>6

(* The counts that the statistics have for list l, if any.                 *)
LinesOf(l) == {k \in DOMAIN input.stats : input.stats[k].list = l}
CountsOf(l) ==
    IF LinesOf(l) = {} THEN <<>>
    ELSE input.stats[CHOOSE k \in LinesOf(l) : TRUE].counts

(* The points that the file may have.                                      *)
Points ==
    {p \in [block_id : 1 .. NumSides, lambda : [num : Nat, den : Int], st : Coding] :
        p.st \in Codings[p.block_id]}

(* Every side that has a point among these has its smallest coding there,  *)
(* which costs nothing.                                                    *)
Rooted(points) ==
    \A p \in Range(points) : \E r \in Range(points) :
        r.block_id = p.block_id /\ r.lambda = Zero

LEMMA OneLine ==
  ASSUME input \in Inputs, NEW k \in DOMAIN input.stats, NEW l, input.stats[k].list = l
  PROVE  LinesOf(l) = {k} /\ CountsOf(l) = input.stats[k].counts
<1>1. k \in LinesOf(l)
  BY DEF LinesOf
<1>2. ASSUME NEW m \in LinesOf(l) PROVE m = k
  <2>1. m \in DOMAIN input.stats /\ input.stats[m].list = l
    BY DEF LinesOf
  <2>2. ~(m < k) /\ ~(k < m)
    BY <2>1, StatsFacts
  <2> QED BY <2>1, <2>2, StatsFacts
<1> QED BY <1>1, <1>2 DEF CountsOf

LEMMA AccessesAre ==
  ASSUME input \in Inputs, NEW l \in 1 .. NumLists, NEW s \in 1 .. 2 * NumBlocks(l)
  PROVE  /\ Accesses(l, s) \in Nat
         /\ Accesses(l, s) = 1 + IF CountsOf(l) = <<>> THEN 0 ELSE CountsOf(l)[s]
<1>1. CASE LinesOf(l) = {}
  BY <1>1 DEF Accesses, CountsOf, LinesOf
<1>2. CASE LinesOf(l) # {}
  <2>1. PICK k \in DOMAIN input.stats : input.stats[k].list = l
    BY <1>2 DEF LinesOf
  <2>2. LinesOf(l) = {k} /\ CountsOf(l) = input.stats[k].counts
    BY <2>1, OneLine
  <2>3. k \in Int
    BY <2>1, StatsFacts
  <2>4. Max({k}) = k
    BY <2>3 DEF Max
  <2>5. Accesses(l, s) = 1 + CountsOf(l)[s]
    BY <2>2, <2>4 DEF Accesses, LinesOf
  <2>6. CountsOf(l) \in Seq(Nat) /\ Len(CountsOf(l)) = 2 * NumBlocks(l)
    BY <2>1, <2>2, StatsFacts
  <2>7. CountsOf(l) # <<>> /\ CountsOf(l)[s] \in Nat
    <3>1. s \in 1 .. Len(CountsOf(l)) /\ Len(CountsOf(l)) > 0
      BY <2>6, InputFacts
    <3>2. CountsOf(l)[s] \in Nat
      BY <2>6, <3>1, ElementOfSeq
    <3>3. CountsOf(l) # <<>>
      BY <3>1
    <3> QED BY <3>2, <3>3
  <2> QED BY <2>5, <2>7
<1> QED BY <1>1, <1>2

LEMMA TimedType ==
  ASSUME NEW codings \in SUBSET Coding, IsFiniteSet(codings), NEW a \in Nat
  PROVE  /\ Timed(codings, a) \in SUBSET Coding /\ IsFiniteSet(Timed(codings, a))
         /\ codings # {} => Timed(codings, a) # {}
         /\ \A t \in Timed(codings, a) : \E c \in codings : t.type = c.type
<1>1. ASSUME NEW c \in codings
      PROVE  [c EXCEPT !.time = @ * a] \in Coding /\ [c EXCEPT !.time = @ * a].type = c.type
  <2>1. c \in [type : Types, space : Nat, time : Nat]
    BY DEF Coding
  <2>2. c.time * a \in Nat
    BY <2>1
  <2> QED BY <2>1, <2>2 DEF Coding
<1>2. IsFiniteSet(Timed(codings, a))
  <2> DEFINE f == [c \in codings |-> [c EXCEPT !.time = @ * a]]
  <2>1. f \in Surjection(codings, Timed(codings, a))
    BY DEF Surjection, Timed
  <2> HIDE DEF f
  <2> QED BY <2>1, FS_Surjection
<1> QED BY <1>1, <1>2 DEF Timed

(* The codings of a side are where its number says.                        *)
LEMMA CodingsAt ==
  ASSUME input \in Inputs
  PROVE  /\ NumSides \in Nat /\ DOMAIN Codings = 1 .. NumSides
         /\ \A b \in 1 .. NumSides : Codings[b] \in SUBSET Coding
         /\ \A l \in 1 .. NumLists : \A s \in 1 .. 2 * NumBlocks(l) :
              /\ Base(l) + s \in 1 .. NumSides
              /\ Codings[Base(l) + s] = Timed(Lists[l].codings[s], Accesses(l, s))
<1> DEFINE timed(l, s) == Timed(Lists[l].codings[s], Accesses(l, s))
           seqs == [l \in DOMAIN Lists |->
                      [s \in DOMAIN Lists[l].codings |-> timed(l, s)]]
           C == SUBSET Coding
<1>1. Codings = FlattenSeq(seqs)
  BY DEF Codings
<1>2. PICK n \in Nat : n = NumLists /\ DOMAIN Lists = 1 .. n
  BY InputFacts
<1>3. ASSUME NEW l \in 1 .. n, NEW s \in 1 .. 2 * NumBlocks(l)
      PROVE  timed(l, s) \in C
  BY <1>2, InputFacts, AccessesAre, TimedType
<1>4. ASSUME NEW l \in 1 .. n
      PROVE  /\ seqs[l] \in Seq(C) /\ Len(seqs[l]) = 2 * NumBlocks(l)
             /\ \A s \in 1 .. 2 * NumBlocks(l) : seqs[l][s] = timed(l, s)
  <2>1. PICK m \in Nat : m = 2 * NumBlocks(l) /\ DOMAIN Lists[l].codings = 1 .. m
    BY <1>2, InputFacts
  <2>2. \A s \in 1 .. m : timed(l, s) \in C
    BY <1>3, <2>1
  <2> HIDE DEF timed, C
  <2>3. seqs[l] = [s \in 1 .. m |-> timed(l, s)]
    BY <1>2, <2>1
  <2>4. seqs[l] \in [1 .. m -> C]
    BY <2>2, <2>3
  <2>5. seqs[l] \in Seq(C) /\ Len(seqs[l]) = m
    <3> HIDE DEF seqs
    <3> QED BY <2>4
  <2> QED BY <2>1, <2>3, <2>5
<1>5. seqs \in Seq(Seq(C)) /\ Len(seqs) = n
  <2>1. seqs = [l \in 1 .. n |-> seqs[l]]
    BY <1>2
  <2> HIDE DEF seqs, C
  <2>2. seqs \in [1 .. n -> Seq(C)]
    BY <1>4, <2>1
  <2> QED BY <2>2
<1> HIDE DEF seqs, C, timed
<1>6. IsOffset(SidesBefore, seqs)
  BY <1>2, <1>4, <1>5, SidesType DEF IsOffset
<1>7. /\ FlattenSeq(seqs) \in Seq(C)
      /\ Len(FlattenSeq(seqs)) = SidesBefore[Len(seqs) + 1]
      /\ \A i \in 1 .. Len(seqs) : \A k \in 1 .. Len(seqs[i]) :
           /\ SidesBefore[i] + k \in 1 .. SidesBefore[Len(seqs) + 1]
           /\ FlattenSeq(seqs)[SidesBefore[i] + k] = seqs[i][k]
  <2>1. PICK q \in Seq(Seq(C)) : q = seqs
    BY <1>5
  <2>2. PICK off : off = SidesBefore
    OBVIOUS
  <2>3. IsOffset(off, q)
    BY <1>6, <2>1, <2>2
  <2>4. /\ FlattenSeq(q) \in Seq(C) /\ Len(FlattenSeq(q)) = off[Len(q) + 1]
        /\ \A i \in 1 .. Len(q) : \A k \in 1 .. Len(q[i]) :
             /\ off[i] + k \in 1 .. off[Len(q) + 1]
             /\ FlattenSeq(q)[off[i] + k] = q[i][k]
    BY <2>3, FlattenAt
  <2> QED BY <2>1, <2>2, <2>4, Zenon
<1>8. Codings \in Seq(C) /\ Len(Codings) = NumSides
  BY <1>1, <1>2, <1>5, <1>7 DEF NumSides
<1>9. NumSides \in Nat /\ DOMAIN Codings = 1 .. NumSides
  BY <1>8, LenProperties
<1>10. ASSUME NEW b \in 1 .. NumSides PROVE Codings[b] \in SUBSET Coding
  BY <1>8, ElementOfSeq DEF C
<1>11. ASSUME NEW l \in 1 .. NumLists, NEW s \in 1 .. 2 * NumBlocks(l)
       PROVE  Base(l) + s \in 1 .. NumSides /\ Codings[Base(l) + s] = timed(l, s)
  <2>1. l \in 1 .. Len(seqs) /\ s \in 1 .. Len(seqs[l])
    BY <1>2, <1>4, <1>5
  <2>2. /\ SidesBefore[l] + s \in 1 .. SidesBefore[Len(seqs) + 1]
        /\ FlattenSeq(seqs)[SidesBefore[l] + s] = seqs[l][s]
    BY <1>7, <2>1
  <2>3. seqs[l][s] = timed(l, s) /\ Len(seqs) = NumLists
    BY <1>2, <1>4, <1>5
  <2> QED BY <1>1, <2>2, <2>3 DEF Base, NumSides
<1> QED BY <1>9, <1>10, <1>11 DEF timed

(* The order of the codings of a side: one with the least space exists and *)
(* one of those with the least time, so they can be sorted.                *)
NoneBefore(p) == \A i, j \in DOMAIN p : i < j => ~BySpace(p[j], p[i])

LEMMA FirstOf ==
  ASSUME NEW S \in SUBSET Coding, S # {}
  PROVE  \E m \in S : \A c \in S : ~BySpace(c, m)
<1>1. \A c \in S : c.space \in Nat /\ c.time \in Nat
  BY DEF Coding
<1> DEFINE Spaces == {c.space : c \in S}
<1>2. PICK x \in Spaces : \A y \in Spaces : x <= y
  <2>1. Spaces \in SUBSET Nat /\ Spaces # {}
    BY <1>1
  <2> HIDE DEF Spaces
  <2> QED BY <2>1, LeastOf
<1> DEFINE Times == {c.time : c \in {d \in S : d.space = x}}
<1>3. PICK t \in Times : \A y \in Times : t <= y
  <2>1. Times \in SUBSET Nat /\ Times # {}
    BY <1>1, <1>2
  <2> HIDE DEF Times
  <2> QED BY <2>1, LeastOf
<1>4. PICK m \in S : m.space = x /\ m.time = t
  BY <1>3
<1>5. ASSUME NEW c \in S PROVE ~BySpace(c, m)
  <2>1. x <= c.space /\ (c.space = x => t <= c.time)
    BY <1>2, <1>3
  <2> QED BY <1>1, <1>4, <2>1 DEF BySpace
<1> QED BY <1>5

LEMMA SortedExists ==
  ASSUME NEW S \in SUBSET Coding, IsFiniteSet(S)
  PROVE  \E p \in SetToSeqs(S) : NoneBefore(p)
<1> DEFINE Sortable(R) == \E p \in SetToSeqs(R) : NoneBefore(p)
           T == {R \in SUBSET S : ~Sortable(R)}
<1>1. SUFFICES ASSUME T # {} PROVE FALSE
  OBVIOUS
<1>2. PICK R \in T : \A y \in T : y \subseteq R => y = R
  <2>1. T \in SUBSET SUBSET S
    OBVIOUS
  <2> HIDE DEF T
  <2> QED BY <1>1, <2>1, SmallestSet
<1>3. R \in SUBSET S /\ ~Sortable(R)
  BY <1>2
<1> HIDE DEF Sortable
<1>4. CASE R = {}
  <2> DEFINE p == [i \in 1 .. 0 |-> i]
  <2>1. p \in SetToSeqs(R) /\ NoneBefore(p)
    BY <1>4, FS_EmptySet DEF SetToSeqs, NoneBefore
  <2> QED BY <1>3, <2>1 DEF Sortable
<1>5. CASE R # {}
  <2>1. PICK m \in R : \A c \in R : ~BySpace(c, m)
    BY <1>3, <1>5, FirstOf
  <2> DEFINE Q == R \ {m}
  <2>2. Q \in SUBSET S /\ Q # R /\ Q \subseteq R
    BY <1>3
  <2>3. Sortable(Q)
    BY <1>2, <2>2
  <2>4. IsFiniteSet(R)
    BY <1>3, FS_Subset
  <2>5. PICK n \in Nat : n = Cardinality(Q) /\ Cardinality(R) = n + 1
    <3>1. IsFiniteSet(Q) /\ Cardinality(Q) = Cardinality(R) - 1
      BY <2>1, <2>4, FS_RemoveElement
    <3>2. Cardinality(Q) \in Nat /\ Cardinality(R) \in Nat
      BY <2>4, <3>1, FS_CardinalityType
    <3> QED BY <3>1, <3>2
  <2> HIDE DEF Q
  <2>6. PICK p \in SetToSeqs(Q) : NoneBefore(p)
    BY <2>3 DEF Sortable
  <2>7. p \in [1 .. n -> Q] /\ \A i, j \in 1 .. n : i # j => p[i] # p[j]
    BY <2>5, <2>6 DEF SetToSeqs
  <2> DEFINE q == [i \in 1 .. n + 1 |-> IF i = 1 THEN m ELSE p[i - 1]]
  <2>8. ASSUME NEW i \in 1 .. n + 1, i # 1
        PROVE  i - 1 \in 1 .. n /\ q[i] = p[i - 1] /\ q[i] \in R /\ q[i] # m
    <3>1. i - 1 \in 1 .. n /\ q[i] = p[i - 1]
      BY <2>8
    <3> QED BY <2>7, <3>1 DEF Q
  <2>9. q[1] = m /\ 1 \in 1 .. n + 1 /\ q = [i \in 1 .. n + 1 |-> q[i]]
        /\ DOMAIN q = 1 .. n + 1
    OBVIOUS
  <2> HIDE DEF q
  <2>10. q \in [1 .. n + 1 -> R]
    <3>1. \A i \in 1 .. n + 1 : q[i] \in R
      BY <2>1, <2>8, <2>9
    <3> QED BY <2>9, <3>1
  <2>11. ASSUME NEW i \in 1 .. n + 1, NEW j \in 1 .. n + 1, i # j PROVE q[i] # q[j]
    <3>1. CASE i = 1
      BY <2>8, <2>9, <2>11, <3>1
    <3>2. CASE j = 1
      BY <2>8, <2>9, <2>11, <3>2
    <3>3. CASE i # 1 /\ j # 1
      <4>1. i - 1 # j - 1
        BY <2>11
      <4> QED BY <2>7, <2>8, <3>3, <4>1
    <3> QED BY <3>1, <3>2, <3>3
  <2>12. ASSUME NEW i \in 1 .. n + 1, NEW j \in 1 .. n + 1, i < j
         PROVE  ~BySpace(q[j], q[i])
    <3>1. j # 1
      BY <2>12
    <3>2. CASE i = 1
      BY <2>1, <2>8, <2>9, <3>1, <3>2
    <3>3. CASE i # 1
      <4>1. i - 1 < j - 1 /\ DOMAIN p = 1 .. n
        BY <2>7, <2>12
      <4> QED BY <2>6, <2>8, <3>1, <3>3, <4>1 DEF NoneBefore
    <3> QED BY <3>2, <3>3
  <2>13. q \in SetToSeqs(R) /\ NoneBefore(q)
    BY <2>5, <2>9, <2>10, <2>11, <2>12 DEF SetToSeqs, NoneBefore
  <2> QED BY <1>3, <2>13 DEF Sortable
<1> QED BY <1>4, <1>5

LEMMA SortedType ==
  ASSUME NEW S \in SUBSET Coding, IsFiniteSet(S), S # {}
  PROVE  \E n \in Nat \ {0} :
           /\ Sorted(S) \in [1 .. n -> S]
           /\ S = {Sorted(S)[i] : i \in 1 .. n}
           /\ \A i, j \in 1 .. n : i < j =>
                /\ Sorted(S)[i].space <= Sorted(S)[j].space
                /\ ~BySpace(Sorted(S)[j], Sorted(S)[i])
<1>1. Sorted(S) \in SetToSeqs(S) /\ NoneBefore(Sorted(S))
  BY SortedExists DEF Sorted, NoneBefore
<1>2. PICK n \in Nat \ {0} : n = Cardinality(S)
  BY FS_EmptySet, FS_CardinalityType
<1>3. PICK p : p = Sorted(S)
  OBVIOUS
<1>4. p \in [1 .. n -> S] /\ DOMAIN p = 1 .. n
  BY <1>1, <1>2, <1>3 DEF SetToSeqs
<1>5. ASSUME NEW i \in 1 .. n, NEW j \in 1 .. n, i < j
      PROVE  p[i].space <= p[j].space /\ ~BySpace(p[j], p[i])
  <2>1. p[i].space \in Nat /\ p[j].space \in Nat
    BY <1>4 DEF Coding
  <2>2. ~BySpace(p[j], p[i])
    BY <1>1, <1>3, <1>4, <1>5 DEF NoneBefore
  <2> QED BY <2>1, <2>2 DEF BySpace
<1>6. S = {p[i] : i \in 1 .. n}
  <2>1. p \in Injection(1 .. n, S)
    BY <1>1, <1>2, <1>3, <1>4 DEF SetToSeqs, Injection, IsInjective
  <2>2. Cardinality(1 .. n) = Cardinality(S)
    BY <1>2, FS_Interval
  <2>3. p \in Surjection(1 .. n, S)
    BY <2>1, <2>2, FS_Injection
  <2> QED BY <1>4, <2>3 DEF Surjection
<1> QED BY <1>3, <1>4, <1>5, <1>6

(***************************************************************************)
(* The points of one side.  They are in buf while the codings up to the    *)
(* one with this space were gone through.                                  *)
(***************************************************************************)
SideBuf(S, b, space) ==
    {buf \in Seq([block_id : {b}, lambda : [num : Nat, den : Int], st : S]) :
        /\ Len(buf) > 0 /\ buf[1].lambda = Zero
        /\ \A k \in 1 .. Len(buf) : buf[k].st.space <= space}

LEMMA KeptType ==
  ASSUME NEW S \in SUBSET Coding, NEW b, NEW cur \in S,
         NEW buf \in SideBuf(S, b, cur.space)
  PROVE  /\ Kept(buf, cur) \in 1 .. Len(buf)
         /\ IF input.heuristic_greedy THEN Kept(buf, cur) = Len(buf)
            ELSE \A k \in 1 .. Len(buf) :
                   /\ k = Kept(buf, cur) => ~Below(Lambda(buf[k].st, cur), buf[k].lambda)
                   /\ k > Kept(buf, cur) => Below(Lambda(buf[k].st, cur), buf[k].lambda)
<1>1. PICK n \in Nat : n = Len(buf) /\ DOMAIN buf = 1 .. n /\ n > 0
  BY LenProperties DEF SideBuf
<1>2. CASE input.heuristic_greedy
  BY <1>1, <1>2 DEF Kept
<1>3. CASE ~input.heuristic_greedy
  <2> DEFINE K == {k \in DOMAIN buf : ~Below(Lambda(buf[k].st, cur), buf[k].lambda)}
  <2>1. 1 \in K
    <3>1. buf[1] \in [block_id : {b}, lambda : [num : Nat, den : Int], st : S]
      <4> DEFINE P == [block_id : {b}, lambda : [num : Nat, den : Int], st : S]
      <4>1. buf \in Seq(P) /\ 1 \in 1 .. Len(buf)
        BY <1>1 DEF SideBuf
      <4> HIDE DEF P
      <4>2. buf[1] \in P
        BY <4>1, ElementOfSeq
      <4> QED BY <4>2 DEF P
    <3>2. buf[1].st \in Coding /\ cur \in Coding /\ buf[1].st.space <= cur.space
      BY <1>1, <3>1 DEF SideBuf
    <3>3. PICK d \in Int, e \in Int :
            /\ d = cur.space - buf[1].st.space /\ d >= 0
            /\ e = buf[1].st.time - cur.time
      BY <3>2 DEF Coding
    <3>4. Lambda(buf[1].st, cur) = [num |-> d, den |-> e]
      BY <3>3 DEF Lambda
    <3>5. ~Below([num |-> d, den |-> e], Zero)
      <4>1. d * 1 = d /\ 0 * e = 0
        OBVIOUS
      <4> QED BY <3>3, <4>1 DEF Below, Zero
    <3>6. buf[1].lambda = Zero
      BY DEF SideBuf
    <3> QED BY <1>1, <3>4, <3>5, <3>6
  <2>2. K \subseteq 1 .. n
    BY <1>1
  <2>3. Kept(buf, cur) = Max(K)
    BY <1>3 DEF Kept
  <2>6. \A k \in 1 .. n : k \in K <=> ~Below(Lambda(buf[k].st, cur), buf[k].lambda)
    BY <1>1
  <2> HIDE DEF K
  <2>4. \E x \in K : \A y \in K : x >= y
    <3> DEFINE N == {n - k : k \in K}
    <3>1. N \in SUBSET Nat /\ N # {}
      BY <2>1, <2>2
    <3>2. PICK z \in N : \A y \in N : z <= y
      <4> HIDE DEF N
      <4> QED BY <3>1, LeastOf
    <3>3. PICK x \in K : z = n - x
      BY <3>2
    <3>4. ASSUME NEW y \in K PROVE x >= y
      <4>1. n - x <= n - y
        BY <3>2, <3>3
      <4> QED BY <2>2, <3>3, <4>1
    <3> QED BY <3>4
  <2>5. Max(K) \in K /\ \A k \in K : Max(K) >= k
    BY <2>4 DEF Max
  <2>7. \A k \in 1 .. n : k > Kept(buf, cur) => k \notin K
    <3>1. PICK z \in 1 .. n : z = Kept(buf, cur) /\ \A k \in K : z >= k
      BY <2>2, <2>3, <2>5
    <3>2. ASSUME NEW k \in 1 .. n, k > z, k \in K PROVE FALSE
      <4>1. z >= k
        BY <3>1, <3>2
      <4> QED BY <3>2, <4>1
    <3> QED BY <3>1, <3>2
  <2> QED BY <1>1, <1>3, <2>2, <2>3, <2>5, <2>6, <2>7
<1> QED BY <1>2, <1>3

(* What appending cur makes of the points of a side.                       *)
Follows(buf, cur, new) ==
    IF cur.time >= buf[Len(buf)].st.time THEN new = buf
    ELSE LET m == Kept(buf, cur) IN
         /\ Len(new) = m + 1 /\ \A k \in 1 .. m : new[k] = buf[k]
         /\ new[m + 1] = [block_id |-> buf[Len(buf)].block_id,
                          lambda |-> Lambda(buf[m].st, cur), st |-> cur]

LEMMA AppendedType ==
  ASSUME NEW S \in SUBSET Coding, NEW b, NEW cur \in S,
         NEW buf \in SideBuf(S, b, cur.space)
  PROVE  /\ Appended(buf, cur) \in SideBuf(S, b, cur.space)
         /\ Follows(buf, cur, Appended(buf, cur))
<1> DEFINE P == [block_id : {b}, lambda : [num : Nat, den : Int], st : S]
<1>1. PICK m \in Nat, n \in Nat :
        m = Kept(buf, cur) /\ n = Len(buf) /\ 1 <= m /\ m <= n
  <2>1. Kept(buf, cur) \in 1 .. Len(buf)
    BY KeptType
  <2>2. Len(buf) \in Nat
    BY LenProperties DEF SideBuf
  <2> QED BY <2>1, <2>2
<1>2. buf \in Seq(P) /\ buf[1].lambda = Zero
      /\ \A k \in 1 .. n : buf[k] \in P /\ buf[k].st.space <= cur.space
  <2>1. buf \in Seq(P) /\ buf[1].lambda = Zero
        /\ \A k \in 1 .. n : buf[k].st.space <= cur.space
    BY <1>1 DEF SideBuf
  <2> HIDE DEF P
  <2> QED BY <1>1, <2>1, ElementOfSeq
<1>3. PICK kept : kept = SubSeq(buf, 1, m)
  OBVIOUS
<1>4. kept \in Seq(P) /\ Len(kept) = m /\ \A k \in 1 .. m : kept[k] = buf[k]
  <2>1. /\ 1 .. m \subseteq 1 .. Len(buf)
        /\ \A k \in 1 .. m : SubSeq(buf, 1, m)[k] = buf[1 + k - 1]
    BY <1>1, <1>2, SubSeqProperties
  <2>2. SubSeq(buf, 1, m) \in Seq(P) /\ Len(SubSeq(buf, 1, m)) = m
    <3> HIDE DEF P
    <3> QED BY <1>1, <1>2, SubSeqProperties
  <2>3. \A k \in 1 .. m : 1 + k - 1 = k
    OBVIOUS
  <2> QED BY <1>3, <2>1, <2>2, <2>3
<1> DEFINE p == [block_id |-> Last(buf).block_id,
                 lambda |-> Lambda(Last(kept).st, cur), st |-> cur]
<1>5. p \in P
  <2>1. Last(buf) \in P /\ Last(kept) = buf[m] /\ buf[m] \in P
        /\ buf[m].st.space <= cur.space
    BY <1>1, <1>2, <1>4 DEF Last
  <2>2. buf[m].st \in Coding /\ cur \in Coding
    BY <2>1
  <2>3. cur.space - buf[m].st.space \in Nat /\ buf[m].st.time - cur.time \in Int
    BY <2>1, <2>2 DEF Coding
  <2> QED BY <2>1, <2>3 DEF Lambda
<1>8. Last(buf) = buf[n] /\ Last(kept) = buf[m]
  BY <1>1, <1>2, <1>4 DEF Last
<1>6. CASE cur.time >= Last(buf).st.time
  <2>1. Appended(buf, cur) = buf
    BY <1>6 DEF Appended
  <2>2. buf \in SideBuf(S, b, cur.space)
    OBVIOUS
  <2> QED BY <1>1, <1>6, <1>8, <2>1, <2>2 DEF Follows
<1>7. CASE ~(cur.time >= Last(buf).st.time)
  <2>1. Appended(buf, cur) = Append(kept, p)
    BY <1>1, <1>3, <1>7 DEF Appended
  <2>2. p.st.space <= cur.space
    <3>1. cur.space \in Nat
      BY DEF Coding
    <3> QED BY <3>1
  <2> HIDE DEF p
  <2>3. /\ Append(kept, p) \in Seq(P) /\ Len(Append(kept, p)) = m + 1
        /\ \A k \in 1 .. m : Append(kept, p)[k] = kept[k]
        /\ Append(kept, p)[m + 1] = p
    <3> HIDE DEF P
    <3> QED BY <1>4, <1>5, AppendProperties
  <2>4. \A k \in 1 .. m + 1 : Append(kept, p)[k].st.space <= cur.space
    <3>1. \A k \in 1 .. m : Append(kept, p)[k] = buf[k]
                          /\ buf[k].st.space <= cur.space
      <4>1. 1 .. m \subseteq 1 .. n
        BY <1>1
      <4> HIDE DEF P
      <4> QED BY <1>2, <1>4, <2>3, <4>1
    <3>2. \A k \in 1 .. m + 1 : k \in 1 .. m \/ k = m + 1
      OBVIOUS
    <3> HIDE DEF P
    <3> QED BY <2>2, <2>3, <3>1, <3>2
  <2>5. 1 \in 1 .. m /\ m + 1 > 0
    BY <1>1
  <2>6. Append(kept, p)[1].lambda = Zero
    BY <1>2, <1>4, <2>3, <2>5
  <2>7. p = [block_id |-> buf[n].block_id, lambda |-> Lambda(buf[m].st, cur), st |-> cur]
    BY <1>8 DEF p
  <2> HIDE DEF P
  <2>8. Appended(buf, cur) \in SideBuf(S, b, cur.space)
    BY <2>1, <2>3, <2>4, <2>5, <2>6 DEF SideBuf, P
  <2>9. \A k \in 1 .. m : Append(kept, p)[k] = buf[k]
    BY <1>4, <2>3
  <2>10. Follows(buf, cur, Append(kept, p))
    BY <1>1, <1>7, <1>8, <2>3, <2>7, <2>9 DEF Follows
  <2> QED BY <2>1, <2>8, <2>10
<1> QED BY <1>6, <1>7

(***************************************************************************)
(* What the lambda of a point means.  A slope weighs time against space;   *)
(* the weight of a coding by a slope is its Cost, and both ends of a step  *)
(* cost the same by the slope of the step.                                 *)
(***************************************************************************)
Slope == [num : Nat, den : Nat \ {0}]
Cost(lambda, st) == lambda.den * st.space + lambda.num * st.time

(* No coding of these costs less by the slope than st does.                *)
Supports(lambda, st, codings) == \A c \in codings : Cost(lambda, st) <= Cost(lambda, c)

LEMMA Grows ==
  ASSUME NEW a \in Int, NEW b \in Int, a <= b, NEW c \in Nat
  PROVE  a * c <= b * c
OBVIOUS

LEMMA Cancels ==
  ASSUME NEW a \in Int, NEW b \in Int, NEW c \in Nat \ {0}, a * c <= b * c
  PROVE  a <= b
OBVIOUS

(* Slopes are ordered.                                                     *)
LEMMA SlopesOrdered ==
  ASSUME NEW a \in Slope, NEW b \in Slope, NEW c \in Slope, ~Below(b, a), ~Below(c, b)
  PROVE  ~Below(c, a)
<1>1. PICK n1 \in Nat, d1 \in Nat \ {0}, n2 \in Nat, d2 \in Nat \ {0},
           n3 \in Nat, d3 \in Nat \ {0} :
        /\ n1 = a.num /\ d1 = a.den /\ n2 = b.num /\ d2 = b.den
        /\ n3 = c.num /\ d3 = c.den
  BY DEF Slope
<1>2. /\ n1 * d2 \in Int /\ n2 * d1 \in Int /\ n2 * d3 \in Int /\ n3 * d2 \in Int
      /\ n1 * d3 \in Int /\ n3 * d1 \in Int
  OBVIOUS
<1>3. n1 * d2 <= n2 * d1 /\ n2 * d3 <= n3 * d2
  BY <1>1, <1>2 DEF Below
<1>4. (n1 * d2) * d3 <= (n2 * d1) * d3 /\ (n2 * d3) * d1 <= (n3 * d2) * d1
  BY <1>2, <1>3, Grows
<1>5. /\ (n1 * d2) * d3 = (n1 * d3) * d2 /\ (n2 * d1) * d3 = (n2 * d3) * d1
      /\ (n3 * d2) * d1 = (n3 * d1) * d2
  OBVIOUS
<1>6. (n1 * d3) * d2 <= (n3 * d1) * d2
  BY <1>2, <1>4, <1>5
<1>7. n1 * d3 <= n3 * d1
  BY <1>2, <1>6, Cancels
<1> QED BY <1>1, <1>2, <1>7 DEF Below

(* A step of x in space and y in time that is worth it neither by a slope  *)
(* below nor by one above is not by a slope between.                       *)
LEMMA Between ==
  ASSUME NEW n1 \in Nat, NEW d1 \in Nat \ {0}, NEW n2 \in Nat, NEW d2 \in Nat \ {0},
         NEW n \in Nat, NEW d \in Nat \ {0}, NEW x \in Int, NEW y \in Int,
         n1 * d <= n * d1, d1 * x + n1 * y >= 0,
         y >= 0 \/ (n * d2 <= n2 * d /\ d2 * x + n2 * y >= 0)
  PROVE  d * x + n * y >= 0
<1>1. CASE y >= 0
  <2>1. (n1 * d) * y <= (n * d1) * y /\ 0 * d <= (d1 * x + n1 * y) * d
    BY <1>1, Grows
  <2>2. (d1 * x + n1 * y) * d = (d1 * x) * d + (n1 * d) * y
        /\ (d * x + n * y) * d1 = (d1 * x) * d + (n * d1) * y
    OBVIOUS
  <2>3. 0 * d1 <= (d * x + n * y) * d1
    BY <2>1, <2>2
  <2> QED BY <2>3, Cancels
<1>2. CASE ~(y >= 0)
  <2> DEFINE z == 0 - y
  <2>1. (n * d2) * z <= (n2 * d) * z /\ 0 * d <= (d2 * x + n2 * y) * d
    BY <1>2, Grows
  <2>2. (d2 * x + n2 * y) * d = (d2 * x) * d - (n2 * d) * z
        /\ (d * x + n * y) * d2 = (d2 * x) * d - (n * d2) * z
    OBVIOUS
  <2>3. 0 * d2 <= (d * x + n * y) * d2
    BY <2>1, <2>2
  <2> QED BY <2>3, Cancels
<1> QED BY <1>1, <1>2

LEMMA SupportedBetween ==
  ASSUME NEW a \in Slope, NEW l \in Slope, NEW st \in Coding, NEW c \in Coding,
         ~Below(l, a), Cost(a, st) <= Cost(a, c),
         \/ st.time <= c.time
         \/ \E b \in Slope : ~Below(b, l) /\ Cost(b, st) <= Cost(b, c)
  PROVE  Cost(l, st) <= Cost(l, c)
<1>1. PICK x \in Int, y \in Int : x = c.space - st.space /\ y = c.time - st.time
  BY DEF Coding
<1>2. ASSUME NEW s \in Slope
      PROVE  Cost(s, st) <= Cost(s, c) <=> s.den * x + s.num * y >= 0
  <2>1. PICK n \in Nat, d \in Nat \ {0}, s1 \in Nat, t1 \in Nat, s2 \in Nat, t2 \in Nat :
          /\ n = s.num /\ d = s.den /\ s1 = st.space /\ t1 = st.time
          /\ s2 = c.space /\ t2 = c.time
    BY DEF Slope, Coding
  <2>2. d * (s2 - s1) + n * (t2 - t1) = (d * s2 + n * t2) - (d * s1 + n * t1)
    OBVIOUS
  <2>3. d * s2 + n * t2 \in Int /\ d * s1 + n * t1 \in Int
    OBVIOUS
  <2>4. d * s1 + n * t1 <= d * s2 + n * t2 <=> d * (s2 - s1) + n * (t2 - t1) >= 0
    BY <2>2, <2>3
  <2> QED BY <1>1, <2>1, <2>4 DEF Cost
<1>3. a.den * x + a.num * y >= 0
  BY <1>2
<1>4. a.num * l.den <= l.num * a.den
  BY DEF Below, Slope
<1>5. CASE st.time <= c.time
  <2>1. y >= 0
    BY <1>1, <1>5 DEF Coding
  <2>2. l.den * x + l.num * y >= 0
    BY <1>3, <1>4, <2>1, Between DEF Slope
  <2> QED BY <1>2, <2>2
<1>6. CASE ~(st.time <= c.time)
  <2>1. PICK b \in Slope : ~Below(b, l) /\ Cost(b, st) <= Cost(b, c)
    BY <1>6
  <2>2. b.den * x + b.num * y >= 0 /\ l.num * b.den <= b.num * l.den
    BY <1>2, <2>1 DEF Below, Slope
  <2>3. PICK n1 \in Nat, d1 \in Nat \ {0}, n2 \in Nat, d2 \in Nat \ {0},
             n \in Nat, d \in Nat \ {0} :
          /\ n1 = a.num /\ d1 = a.den /\ n2 = b.num /\ d2 = b.den
          /\ n = l.num /\ d = l.den
    BY DEF Slope
  <2>4. /\ n1 * d <= n * d1 /\ d1 * x + n1 * y >= 0
        /\ y >= 0 \/ (n * d2 <= n2 * d /\ d2 * x + n2 * y >= 0)
    BY <1>3, <1>4, <2>2, <2>3
  <2>5. d * x + n * y >= 0
    BY <2>4, Between
  <2> QED BY <1>2, <2>3, <2>5
<1> QED BY <1>5, <1>6

(* A step to a faster and larger coding: what it is, and costs.            *)
LEMMA StepType ==
  ASSUME NEW from \in Coding, NEW to \in Coding,
         to.time < from.time, from.space < to.space
  PROVE  /\ Lambda(from, to) \in Slope /\ Lambda(from, to).num > 0
         /\ Cost(Lambda(from, to), from) = Cost(Lambda(from, to), to)
         /\ \A a \in Slope :
              ~Below(Lambda(from, to), a) => Cost(a, from) <= Cost(a, to)
<1>1. PICK s1 \in Nat, t1 \in Nat, s2 \in Nat, t2 \in Nat :
        s1 = from.space /\ t1 = from.time /\ s2 = to.space /\ t2 = to.time
  BY DEF Coding
<1>2. PICK n \in Nat, d \in Nat : n = s2 - s1 /\ d = t1 - t2 /\ n > 0 /\ d > 0
  BY <1>1
<1>3. Lambda(from, to) = [num |-> n, den |-> d]
  BY <1>1, <1>2 DEF Lambda
<1>4. d * s1 + n * t1 = d * s2 + n * t2
  <2>1. s2 = s1 + n /\ t1 = t2 + d
    BY <1>2
  <2>2. d * s1 + n * (t2 + d) = d * (s1 + n) + n * t2
    OBVIOUS
  <2> QED BY <2>1, <2>2
<1>5. ASSUME NEW a \in Slope, ~Below(Lambda(from, to), a)
      PROVE  Cost(a, from) <= Cost(a, to)
  <2>1. PICK p \in Nat, q \in Nat \ {0} : p = a.num /\ q = a.den
    BY DEF Slope
  <2>2. p * d <= n * q
    BY <1>3, <1>5, <2>1 DEF Below
  <2>3. q * s2 + p * t2 - (q * s1 + p * t1) = n * q - p * d
    <3>1. s2 = s1 + n /\ t1 = t2 + d
      BY <1>2
    <3>2. q * (s1 + n) + p * t2 - (q * s1 + p * (t2 + d)) = n * q - p * d
      OBVIOUS
    <3> QED BY <3>1, <3>2
  <2>4. q * s2 + p * t2 \in Int /\ q * s1 + p * t1 \in Int /\ n * q \in Int /\ p * d \in Int
    OBVIOUS
  <2>5. q * s1 + p * t1 <= q * s2 + p * t2
    BY <2>2, <2>3, <2>4
  <2> QED BY <1>1, <2>1, <2>5 DEF Cost
<1> QED BY <1>1, <1>2, <1>3, <1>4, <1>5 DEF Slope, Cost

(* A step over a coding, from which the rest would be cheaper, is cheaper  *)
(* than the step to it.                                                    *)
LEMMA StepOver ==
  ASSUME NEW from \in Coding, NEW mid \in Coding, NEW to \in Coding,
         to.time < mid.time, mid.time < from.time,
         from.space < mid.space, mid.space <= to.space,
         Below(Lambda(mid, to), Lambda(from, mid))
  PROVE  ~Below(Lambda(from, mid), Lambda(from, to))
<1>1. PICK n1 \in Nat, d1 \in Nat, n2 \in Nat, d2 \in Nat :
        /\ n1 = mid.space - from.space /\ d1 = from.time - mid.time
        /\ n2 = to.space - mid.space /\ d2 = mid.time - to.time
  BY DEF Coding
<1>2. /\ Lambda(from, mid) = [num |-> n1, den |-> d1]
      /\ Lambda(mid, to) = [num |-> n2, den |-> d2]
      /\ Lambda(from, to) = [num |-> n1 + n2, den |-> d1 + d2]
  BY <1>1 DEF Lambda, Coding
<1>3. n2 * d1 < n1 * d2
  BY <1>2 DEF Below
<1>4. ~(n1 * (d1 + d2) < (n1 + n2) * d1)
  <2>1. n1 * (d1 + d2) = n1 * d1 + n1 * d2 /\ (n1 + n2) * d1 = n1 * d1 + n2 * d1
    OBVIOUS
  <2>2. n1 * d1 \in Int /\ n1 * d2 \in Int /\ n2 * d1 \in Int
    OBVIOUS
  <2> QED BY <1>3, <2>1, <2>2
<1> QED BY <1>2, <1>4 DEF Below

(***************************************************************************)
(* The points of a side when the codings in D were gone through: each is   *)
(* a step from the one before, from the smallest coding to the fastest.    *)
(* Without the heuristic they are the lower hull: the steps cost more and  *)
(* more, and no coding is below one.                                       *)
(***************************************************************************)
Hull(buf, D) ==
    /\ \A k \in 1 .. Len(buf) : buf[k].st \in D /\ buf[k].lambda \in Slope
    /\ \A c \in D : buf[1].st.space <= c.space
    /\ \A c \in D : buf[Len(buf)].st.time <= c.time
    /\ \A k \in 2 .. Len(buf) : LET from == buf[k - 1].st IN
         /\ buf[k].lambda = Lambda(from, buf[k].st) /\ buf[k].lambda.num > 0
         /\ from.space < buf[k].st.space
         /\ Cost(buf[k].lambda, from) = Cost(buf[k].lambda, buf[k].st)
    /\ input.heuristic_greedy \/
        /\ \A j, k \in 1 .. Len(buf) : j <= k => ~Below(buf[k].lambda, buf[j].lambda)
        /\ \A k \in 1 .. Len(buf) : Supports(buf[k].lambda, buf[k].st, D)

LEMMA CostType ==
  ASSUME NEW a \in Slope, NEW c \in Coding PROVE Cost(a, c) \in Nat
<1>1. a.den \in Nat /\ a.num \in Nat /\ c.space \in Nat /\ c.time \in Nat
  BY DEF Slope, Coding
<1> QED BY <1>1 DEF Cost

LEMMA CostGrows ==
  ASSUME NEW a \in Slope, NEW c \in Coding, NEW e \in Coding,
         c.space <= e.space, c.time <= e.time
  PROVE  Cost(a, c) <= Cost(a, e)
<1>1. PICK n \in Nat, d \in Nat, s1 \in Nat, t1 \in Nat, s2 \in Nat, t2 \in Nat :
        /\ n = a.num /\ d = a.den /\ s1 = c.space /\ t1 = c.time
        /\ s2 = e.space /\ t2 = e.time
  BY DEF Slope, Coding
<1>2. s1 * d <= s2 * d /\ t1 * n <= t2 * n
  BY <1>1, Grows
<1>3. /\ s1 * d = d * s1 /\ s2 * d = d * s2 /\ t1 * n = n * t1 /\ t2 * n = n * t2
      /\ s1 * d \in Int /\ s2 * d \in Int /\ t1 * n \in Int /\ t2 * n \in Int
  OBVIOUS
<1> QED BY <1>1, <1>2, <1>3 DEF Cost

(* A coding that is not faster than the last point leaves the points.      *)
LEMMA HullStays ==
  ASSUME NEW D \in SUBSET Coding, NEW cur \in Coding, NEW n \in Nat \ {0},
         NEW buf, Len(buf) = n, Hull(buf, D), cur.time >= buf[n].st.time,
         \A c \in D : c.space <= cur.space
  PROVE  Hull(buf, D \cup {cur})
<1>1. \A k \in 1 .. n : buf[k].st \in D /\ buf[k].lambda \in Slope /\ buf[k].st \in Coding
  BY DEF Hull
<1>2. buf[1].st.space <= cur.space /\ buf[n].st.space <= cur.space
      /\ buf[n].st.time <= cur.time
  <2>1. buf[n].st.time \in Nat /\ cur.time \in Nat
    BY <1>1 DEF Coding
  <2> QED BY <1>1, <2>1
<1>3. ASSUME ~input.heuristic_greedy, NEW k \in 1 .. n
      PROVE  Cost(buf[k].lambda, buf[k].st) <= Cost(buf[k].lambda, cur)
  <2>1. n \in 1 .. n
    OBVIOUS
  <2>2. Cost(buf[k].lambda, buf[k].st) <= Cost(buf[k].lambda, buf[n].st)
    BY <1>1, <1>3, <2>1 DEF Hull, Supports
  <2>3. Cost(buf[k].lambda, buf[n].st) <= Cost(buf[k].lambda, cur)
    BY <1>1, <1>2, <2>1, CostGrows
  <2>4. /\ Cost(buf[k].lambda, buf[k].st) \in Nat /\ Cost(buf[k].lambda, buf[n].st) \in Nat
        /\ Cost(buf[k].lambda, cur) \in Nat
    BY <1>1, <2>1, CostType
  <2> QED BY <2>2, <2>3, <2>4
<1>4. /\ \A k \in 1 .. Len(buf) : buf[k].st \in D \cup {cur} /\ buf[k].lambda \in Slope
      /\ \A c \in D \cup {cur} : buf[1].st.space <= c.space
      /\ \A c \in D \cup {cur} : buf[Len(buf)].st.time <= c.time
  BY <1>1, <1>2 DEF Hull
<1>5. ~input.heuristic_greedy =>
        \A k \in 1 .. Len(buf) : Supports(buf[k].lambda, buf[k].st, D \cup {cur})
  BY <1>3 DEF Hull, Supports
<1> QED BY <1>4, <1>5 DEF Hull

(* A faster one becomes the last, behind the points that remain.           *)
LEMMA HullGrows ==
  ASSUME NEW D \in SUBSET Coding, NEW cur \in Coding, NEW n \in Nat \ {0},
         NEW buf, Len(buf) = n, Hull(buf, D), ~(cur.time >= buf[n].st.time),
         \A c \in D : c.space <= cur.space /\ ~BySpace(cur, c),
         NEW m \in 1 .. n, NEW new, Len(new) = m + 1,
         \A k \in 1 .. m : new[k] = buf[k],
         new[m + 1].lambda = Lambda(buf[m].st, cur), new[m + 1].st = cur,
         input.heuristic_greedy \/ \A k \in 1 .. n :
           /\ k = m => ~Below(Lambda(buf[k].st, cur), buf[k].lambda)
           /\ k > m => Below(Lambda(buf[k].st, cur), buf[k].lambda)
  PROVE  Hull(new, D \cup {cur})
<1> DEFINE mu == Lambda(buf[m].st, cur)
           E == D \cup {cur}
<1>1. \A k \in 1 .. n : buf[k].st \in D /\ buf[k].lambda \in Slope /\ buf[k].st \in Coding
  BY DEF Hull
<1>2. \A c \in D : c.space \in Nat /\ c.time \in Nat /\ c \in Coding
  BY DEF Coding
<1>3. \A c \in D : cur.time < c.time /\ c.space < cur.space
  <2>1. SUFFICES ASSUME NEW c \in D PROVE cur.time < c.time /\ c.space < cur.space
    OBVIOUS
  <2>2. buf[n].st.time <= c.time /\ buf[n].st.time \in Nat /\ c.time \in Nat
    BY <1>1, <1>2 DEF Hull
  <2>3. cur.time \in Nat /\ cur.space \in Nat /\ c.space \in Nat
    BY <1>2 DEF Coding
  <2>4. cur.time < c.time
    BY <2>2, <2>3
  <2>5. c.space # cur.space
    BY <2>4 DEF BySpace
  <2> QED BY <2>3, <2>4, <2>5
<1>4. /\ mu \in Slope /\ mu.num > 0 /\ Cost(mu, buf[m].st) = Cost(mu, cur)
      /\ \A a \in Slope : ~Below(mu, a) => Cost(a, buf[m].st) <= Cost(a, cur)
  BY <1>1, <1>3, StepType
<1> HIDE DEF mu
<1>5. /\ \A k \in 1 .. m : k \in 1 .. n /\ new[k] = buf[k]
      /\ new[m + 1].st = cur /\ new[m + 1].lambda = mu
      /\ \A k \in 1 .. m + 1 : k \in 1 .. m \/ k = m + 1
  BY DEF mu
<1>6. \A k \in 1 .. m + 1 : new[k].st \in E /\ new[k].lambda \in Slope
  BY <1>1, <1>4, <1>5
<1>7. \A c \in E : new[1].st.space <= c.space
  <2>1. new[1] = buf[1] /\ buf[1].st \in D
    BY <1>1, <1>5
  <2> QED BY <1>3, <2>1 DEF Hull
<1>8. \A c \in E : new[m + 1].st.time <= c.time
  <2>1. \A c \in D : cur.time <= c.time
    <3> SUFFICES ASSUME NEW c \in D PROVE cur.time <= c.time
      OBVIOUS
    <3>1. cur.time \in Nat /\ c.time \in Nat
      BY <1>2 DEF Coding
    <3> QED BY <1>3, <3>1
  <2>2. cur.time <= cur.time
    BY DEF Coding
  <2> QED BY <1>5, <2>1, <2>2
<1>9. ASSUME NEW k \in 2 .. m + 1
      PROVE  /\ new[k].lambda = Lambda(new[k - 1].st, new[k].st) /\ new[k].lambda.num > 0
             /\ new[k - 1].st.space < new[k].st.space
             /\ Cost(new[k].lambda, new[k - 1].st) = Cost(new[k].lambda, new[k].st)
  <2>1. CASE k \in 1 .. m
    <3>1. k \in 2 .. n /\ new[k] = buf[k] /\ new[k - 1] = buf[k - 1]
      BY <1>5, <2>1
    <3> QED BY <3>1 DEF Hull
  <2>2. CASE k = m + 1
    <3>1. k - 1 = m /\ new[k - 1] = buf[m] /\ new[k].st = cur /\ new[k].lambda = mu
      BY <1>5, <2>2
    <3>2. buf[m].st.space < cur.space
      BY <1>1, <1>3
    <3> QED BY <1>4, <3>1, <3>2 DEF mu
  <2> QED BY <1>5, <2>1, <2>2
<1>10. ASSUME ~input.heuristic_greedy
       PROVE  /\ \A j, k \in 1 .. m + 1 : j <= k => ~Below(new[k].lambda, new[j].lambda)
              /\ \A k \in 1 .. m + 1 : Supports(new[k].lambda, new[k].st, E)
  <2>1. ~Below(mu, buf[m].lambda)
    BY <1>10 DEF mu
  <2>2. \A j, k \in 1 .. n : j <= k => ~Below(buf[k].lambda, buf[j].lambda)
    BY <1>10 DEF Hull
  <2>3. \A k \in 1 .. n : \A c \in D : Cost(buf[k].lambda, buf[k].st) <= Cost(buf[k].lambda, c)
    BY <1>10 DEF Hull, Supports
  <2>4. \A k \in 1 .. m : ~Below(mu, buf[k].lambda)
    <3> SUFFICES ASSUME NEW k \in 1 .. m PROVE ~Below(mu, buf[k].lambda)
      OBVIOUS
    <3>1. k \in 1 .. n /\ ~Below(buf[m].lambda, buf[k].lambda)
      BY <2>2
    <3> QED BY <1>1, <1>4, <2>1, <3>1, SlopesOrdered
  <2>5. ~Below(mu, mu)
    <3>1. mu.num \in Nat /\ mu.den \in Nat
      BY <1>4 DEF Slope
    <3> QED BY <3>1 DEF Below
  <2>6. ASSUME NEW j \in 1 .. m + 1, NEW k \in 1 .. m + 1, j <= k
        PROVE  ~Below(new[k].lambda, new[j].lambda)
    <3>1. CASE k \in 1 .. m
      <4>1. j \in 1 .. m
        BY <2>6, <3>1
      <4> QED BY <1>5, <2>2, <2>6, <3>1, <4>1
    <3>2. CASE k = m + 1
      BY <1>5, <2>4, <2>5, <3>2
    <3> QED BY <1>5, <3>1, <3>2
  <2>7. ASSUME NEW k \in 1 .. m, NEW c \in E
        PROVE  Cost(buf[k].lambda, buf[k].st) <= Cost(buf[k].lambda, c)
    <3>1. CASE c \in D
      BY <1>5, <2>3, <3>1
    <3>2. CASE c = cur
      <4>1. Cost(buf[k].lambda, buf[k].st) <= Cost(buf[k].lambda, buf[m].st)
        BY <1>1, <1>5, <2>3
      <4>2. Cost(buf[k].lambda, buf[m].st) <= Cost(buf[k].lambda, cur)
        BY <1>1, <1>4, <1>5, <2>4
      <4>3. /\ Cost(buf[k].lambda, buf[k].st) \in Nat
            /\ Cost(buf[k].lambda, buf[m].st) \in Nat /\ Cost(buf[k].lambda, cur) \in Nat
        BY <1>1, <1>5, CostType
      <4> QED BY <3>2, <4>1, <4>2, <4>3
    <3> QED BY <3>1, <3>2
  <2>8. ASSUME NEW c \in D PROVE Cost(mu, buf[m].st) <= Cost(mu, c)
    <3>1. Cost(buf[m].lambda, buf[m].st) <= Cost(buf[m].lambda, c)
      BY <2>3
    <3>2. CASE m = n
      <4>1. buf[m].st.time <= c.time
        BY <3>2 DEF Hull
      <4> QED BY <1>1, <1>2, <1>4, <2>1, <3>1, <4>1, SupportedBetween
    <3>3. CASE m # n
      <4>1. m + 1 \in 2 .. n /\ m + 1 \in 1 .. n /\ m + 1 - 1 = m /\ m + 1 > m
        BY <3>3
      <4> DEFINE mid == buf[m + 1].st
                 up == buf[m + 1].lambda
      <4>2. /\ up = Lambda(buf[m].st, mid) /\ buf[m].st.space < mid.space
            /\ Cost(up, buf[m].st) = Cost(up, mid) /\ up \in Slope /\ mid \in D
            /\ mid \in Coding
        BY <1>1, <4>1 DEF Hull
      <4>3. Below(Lambda(mid, cur), up)
        BY <1>10, <4>1
      <4>4. cur.time < mid.time /\ mid.space <= cur.space
        BY <1>3, <4>2
      <4>5. mid.time < buf[m].st.time
        <5>1. /\ mid.time \in Nat /\ buf[m].st.time \in Nat
              /\ up.den = buf[m].st.time - mid.time /\ up.den \in Nat \ {0}
          BY <1>1, <1>2, <4>2 DEF Lambda, Slope
        <5> QED BY <5>1
      <4>6. ~Below(up, mu)
        BY <1>1, <4>2, <4>3, <4>4, <4>5, StepOver DEF mu
      <4>7. Cost(up, buf[m].st) <= Cost(up, c)
        BY <2>3, <4>1, <4>2
      <4> HIDE DEF up
      <4> QED BY <1>1, <1>2, <1>4, <2>1, <3>1, <4>2, <4>6, <4>7, SupportedBetween
    <3> QED BY <3>2, <3>3
  <2>9. ASSUME NEW k \in 1 .. m + 1 PROVE Supports(new[k].lambda, new[k].st, E)
    <3>1. CASE k \in 1 .. m
      BY <1>5, <2>7, <3>1 DEF Supports
    <3>2. CASE k = m + 1
      <4>1. Cost(mu, cur) <= Cost(mu, cur)
        <5>1. Cost(mu, cur) \in Nat
          BY <1>4, CostType
        <5> QED BY <5>1
      <4>2. \A c \in E : Cost(mu, cur) <= Cost(mu, c)
        BY <1>4, <2>8, <4>1
      <4> QED BY <1>5, <3>2, <4>2 DEF Supports
    <3> QED BY <1>5, <3>1, <3>2
  <2> QED BY <2>6, <2>9
<1> QED BY <1>6, <1>7, <1>8, <1>9, <1>10 DEF Hull

LEMMA LambdasType ==
  ASSUME NEW codings \in SUBSET Coding, IsFiniteSet(codings), codings # {},
         NEW b, NEW a \in Nat
  PROVE  /\ \E space : Lambdas(codings, b, a) \in SideBuf(Timed(codings, a), b, space)
         /\ Hull(Lambdas(codings, b, a), Timed(codings, a))
<1>1. PICK S \in SUBSET Coding : S = Timed(codings, a) /\ IsFiniteSet(S) /\ S # {}
  BY TimedType
<1>2. PICK n \in Nat \ {0} :
        /\ Sorted(S) \in [1 .. n -> S] /\ S = {Sorted(S)[i] : i \in 1 .. n}
        /\ \A i, j \in 1 .. n : i < j =>
             /\ Sorted(S)[i].space <= Sorted(S)[j].space
             /\ ~BySpace(Sorted(S)[j], Sorted(S)[i])
  BY <1>1, SortedType
<1>3. PICK points \in [1 .. n -> S] :
        /\ points = Sorted(S) /\ S = {points[i] : i \in 1 .. n}
        /\ \A i, j \in 1 .. n : i < j =>
             points[i].space <= points[j].space /\ ~BySpace(points[j], points[i])
  BY <1>2
<1>4. points \in Seq(S) /\ Len(points) = n /\ DOMAIN points = 1 .. n
  <2>1. points \in [1 .. n -> S]
    BY <1>3
  <2> QED BY <2>1
<1>5. \A i \in 1 .. n : points[i] \in S /\ points[i].space \in Nat
  <2>1. \A st \in Coding : st.space \in Nat
    BY DEF Coding
  <2> QED BY <1>3, <2>1
<1> DEFINE first == <<[block_id |-> b, lambda |-> Zero, st |-> points[1]]>>
           P == [block_id : {b}, lambda : [num : Nat, den : Int], st : S]
           step == [p \in (1 .. n) \X Seq(P) |-> Appended(p[2], points[p[1]])]
           D(i) == {points[k] : k \in 1 .. i}
           X == [i \in 1 .. n |-> {x \in SideBuf(S, b, points[i].space) : Hull(x, D(i))}]
           IsBuf(g) == g = [i \in 1 .. n |->
                              IF i = 1 THEN first ELSE Appended(g[i - 1], points[i])]
<1>6. \A i \in 1 .. n :
         /\ X[i] = {x \in SideBuf(S, b, points[i].space) : Hull(x, D(i))}
         /\ X[i] \subseteq Seq(P)
  BY DEF SideBuf
<1>7. ASSUME NEW i \in 1 .. n, NEW x \in Seq(P)
      PROVE  step[<<i, x>>] = Appended(x, points[i])
  <2>1. <<i, x>> \in (1 .. n) \X Seq(P)
    OBVIOUS
  <2>2. \A p \in (1 .. n) \X Seq(P) : step[p] = Appended(p[2], points[p[1]])
    OBVIOUS
  <2> HIDE DEF step, P
  <2> QED BY <2>1, <2>2
<1>8. first \in X[1]
  <2>1. points[1] \in S /\ points[1].space <= points[1].space /\ 1 \in 1 .. n
    BY <1>5
  <2>2. first \in Seq(P) /\ Len(first) = 1
    BY <2>1 DEF Zero
  <2>3. first[1].lambda = Zero /\ \A k \in 1 .. 1 : first[k].st.space <= points[1].space
    BY <2>1
  <2>4. first \in SideBuf(S, b, points[1].space)
    <3> HIDE DEF first
    <3>1. 1 .. Len(first) = 1 .. 1 /\ Len(first) > 0
      BY <2>2
    <3>2. \A k \in 1 .. Len(first) : first[k].st.space <= points[1].space
      BY <2>3, <3>1
    <3> HIDE DEF P
    <3> QED BY <2>2, <2>3, <3>1, <3>2 DEF SideBuf, P
  <2>5. Hull(first, D(1))
    <3>1. /\ Len(first) = 1 /\ first[1].st = points[1] /\ first[1].lambda = Zero
          /\ D(1) = {points[1]}
      BY <2>2
    <3> HIDE DEF first, D
    <3>2. /\ points[1] \in Coding /\ points[1].space \in Nat /\ points[1].time \in Nat
          /\ Zero \in Slope /\ 1 .. 1 = {1} /\ 2 .. 1 = {}
      BY <1>1, <2>1 DEF Coding, Zero, Slope
    <3>3. Cost(Zero, points[1]) <= Cost(Zero, points[1])
      <4>1. Cost(Zero, points[1]) \in Nat
        BY <3>2, CostType
      <4> QED BY <4>1
    <3>4. Supports(Zero, points[1], D(1)) /\ ~Below(Zero, Zero)
      BY <3>1, <3>3 DEF Supports, Below, Zero
    <3> QED BY <3>1, <3>2, <3>4 DEF Hull
  <2> HIDE DEF first, X, D
  <2> QED BY <1>6, <2>1, <2>4, <2>5
<1>9. ASSUME NEW i \in 2 .. n, NEW x \in X[i - 1]
      PROVE  step[<<i, x>>] = Appended(x, points[i]) /\ step[<<i, x>>] \in X[i]
  <2>7. /\ D(i) = D(i - 1) \cup {points[i]}
        /\ \A c \in D(i - 1) : c \in Coding /\ c.space <= points[i].space
                                          /\ ~BySpace(points[i], c)
    <3>1. \A k \in 1 .. i : k \in 1 .. i - 1 \/ k = i
      OBVIOUS
    <3>2. i \in 1 .. i /\ \A k \in 1 .. i - 1 : k \in 1 .. i /\ k \in 1 .. n /\ k < i
      OBVIOUS
    <3>3. D(i) = D(i - 1) \cup {points[i]}
      BY <3>1, <3>2
    <3>4. ASSUME NEW c \in D(i - 1)
          PROVE  c \in Coding /\ c.space <= points[i].space /\ ~BySpace(points[i], c)
      <4>1. PICK k \in 1 .. i - 1 : c = points[k]
        BY <3>4
      <4>2. k \in 1 .. n /\ i \in 1 .. n /\ k < i
        BY <3>2
      <4>3. points[k] \in S
        BY <1>5, <4>2
      <4> HIDE DEF D
      <4> QED BY <1>1, <1>3, <4>1, <4>2, <4>3
    <3> HIDE DEF D
    <3> QED BY <3>3, <3>4
  <2> HIDE DEF X, step, P, D
  <2>1. i \in 1 .. n /\ i - 1 \in 1 .. n /\ i - 1 < i
    OBVIOUS
  <2>2. x \in SideBuf(S, b, points[i - 1].space) /\ x \in Seq(P) /\ Hull(x, D(i - 1))
    BY <1>6, <2>1
  <2>3. points[i - 1].space <= points[i].space
    BY <1>3, <2>1
  <2>4. x \in SideBuf(S, b, points[i].space)
    <3>1. ASSUME NEW k \in 1 .. Len(x) PROVE x[k].st.space <= points[i].space
      <4>1. x[k] \in P
        BY <2>2, ElementOfSeq
      <4>2. x[k].st.space \in Nat
        BY <1>1, <4>1 DEF P, Coding
      <4>3. x[k].st.space <= points[i - 1].space
        BY <2>2 DEF SideBuf
      <4> QED BY <1>5, <2>1, <2>3, <4>2, <4>3
    <3> QED BY <2>2, <3>1 DEF SideBuf
  <2>5. /\ Appended(x, points[i]) \in SideBuf(S, b, points[i].space)
        /\ Follows(x, points[i], Appended(x, points[i]))
    BY <1>5, <2>1, <2>4, AppendedType
  <2>6. Hull(Appended(x, points[i]), D(i))
    <3>1. points[i] \in Coding /\ D(i - 1) \in SUBSET Coding
      BY <1>1, <1>5, <2>1, <2>7
    <3>2. PICK m \in Nat, k \in Nat \ {0} :
            m = Kept(x, points[i]) /\ k = Len(x) /\ m \in 1 .. k
      <4>1. Kept(x, points[i]) \in 1 .. Len(x)
        BY <1>5, <2>1, <2>4, KeptType
      <4>2. Len(x) \in Nat
        BY <2>2, LenProperties
      <4> QED BY <4>1, <4>2
    <3>3. CASE points[i].time >= x[k].st.time
      <4>1. Hull(x, D(i - 1) \cup {points[i]})
        BY <2>2, <2>7, <3>1, <3>2, <3>3, HullStays
      <4> QED BY <2>5, <2>7, <3>2, <3>3, <4>1 DEF Follows
    <3>4. CASE ~(points[i].time >= x[k].st.time)
      <4>1. PICK new : new = Appended(x, points[i])
        OBVIOUS
      <4>2. /\ Len(new) = m + 1 /\ \A j \in 1 .. m : new[j] = x[j]
            /\ new[m + 1].lambda = Lambda(x[m].st, points[i])
            /\ new[m + 1].st = points[i]
        BY <2>5, <3>2, <3>4, <4>1 DEF Follows
      <4>3. input.heuristic_greedy \/ \A j \in 1 .. k :
              /\ j = m => ~Below(Lambda(x[j].st, points[i]), x[j].lambda)
              /\ j > m => Below(Lambda(x[j].st, points[i]), x[j].lambda)
        BY <1>5, <2>1, <2>4, <3>2, KeptType
      <4>4. Hull(new, D(i - 1) \cup {points[i]})
        <5>1. PICK cur \in Coding, E \in SUBSET Coding : cur = points[i] /\ E = D(i - 1)
          BY <3>1
        <5>2. \A c \in E : c.space <= cur.space /\ ~BySpace(cur, c)
          BY <2>7, <5>1
        <5>3. Len(x) = k /\ Hull(x, E) /\ ~(cur.time >= x[k].st.time) /\ m \in 1 .. k
          BY <2>2, <3>2, <3>4, <5>1
        <5>4. /\ Len(new) = m + 1 /\ \A j \in 1 .. m : new[j] = x[j]
              /\ new[m + 1].lambda = Lambda(x[m].st, cur) /\ new[m + 1].st = cur
          BY <4>2, <5>1
        <5>5. input.heuristic_greedy \/ \A j \in 1 .. k :
                /\ j = m => ~Below(Lambda(x[j].st, cur), x[j].lambda)
                /\ j > m => Below(Lambda(x[j].st, cur), x[j].lambda)
          BY <4>3, <5>1
        <5>6. Hull(new, E \cup {cur})
          BY <5>2, <5>3, <5>4, <5>5, HullGrows
        <5> QED BY <5>1, <5>6
      <4> QED BY <2>7, <4>1, <4>4
    <3> QED BY <3>3, <3>4
  <2> QED BY <1>6, <1>7, <2>1, <2>2, <2>5, <2>6
<1> HIDE DEF X, step, D
<1>10. PICK g : IsRec(g, n, first, step)
  <2> HIDE DEF first
  <2> QED BY RecExists
<1>11. \A i \in 1 .. n : g[i] \in X[i]
  <2> HIDE DEF first
  <2> QED BY <1>8, <1>9, <1>10, RecType
<1>12. IsBuf(g)
  <2> HIDE DEF first, P, D
  <2>1. g = [i \in 1 .. n |-> IF i = 1 THEN first ELSE step[<<i, g[i - 1]>>]]
    BY <1>10 DEF IsRec
  <2>2. ASSUME NEW i \in 1 .. n, i # 1
        PROVE  step[<<i, g[i - 1]>>] = Appended(g[i - 1], points[i])
    <3>1. i \in 2 .. n /\ i - 1 \in 1 .. n
      BY <2>2
    <3> QED BY <1>9, <1>11, <3>1
  <2> QED BY <2>1, <2>2
<1> DEFINE h == CHOOSE f : IsBuf(f)
<1>13. Lambdas(codings, b, a) = h[n]
  <2>1. Sorted(Timed(codings, a)) = points
    BY <1>1, <1>3
  <2>2. Lambdas(codings, b, a) =
          (CHOOSE f : f = [i \in DOMAIN points |->
             IF i = 1 THEN first ELSE Appended(f[i - 1], points[i])])[Len(points)]
    BY <2>1 DEF Lambdas
  <2> HIDE DEF first
  <2> QED BY <1>4, <2>2
<1>14. IsBuf(h)
  BY <1>12
<1> HIDE DEF h
<1>15. \A i \in 1 .. n :
         h[i] = IF i = 1 THEN first ELSE Appended(h[i - 1], points[i])
  <2> HIDE DEF first, P, D
  <2> QED BY <1>14
<1>16. \A i \in 1 .. n : h[i] \in X[i]
  <2> HIDE DEF first, P, D
  <2> DEFINE T == {i \in 1 .. n : h[i] \in X[i]}
  <2>1. ASSUME NEW m \in 1 .. n, \A k \in 1 .. m - 1 : k \in T PROVE m \in T
    <3>1. CASE m = 1
      BY <1>8, <1>15, <3>1
    <3>2. CASE m # 1
      <4>1. m \in 2 .. n /\ m - 1 \in 1 .. m - 1
        BY <3>2
      <4>2. h[m - 1] \in X[m - 1] /\ h[m] = Appended(h[m - 1], points[m])
        BY <1>15, <2>1, <3>2, <4>1
      <4> QED BY <1>9, <4>1, <4>2
    <3> QED BY <3>1, <3>2
  <2>2. T = 1 .. n
    <3>1. T \in SUBSET (1 .. n)
      OBVIOUS
    <3> HIDE DEF T
    <3> QED BY <2>1, <3>1, InductionUpTo
  <2> QED BY <2>2
<1>17. h[n] \in SideBuf(S, b, points[n].space) /\ Hull(h[n], D(n))
  <2> HIDE DEF first, P, D
  <2> QED BY <1>6, <1>16
<1>18. D(n) = S
  BY <1>3 DEF D
<1> QED BY <1>1, <1>13, <1>17, <1>18

(* What the points of a side say of each other: the first of a side is its *)
(* smallest coding.  Without the heuristic no coding is below a point by   *)
(* its own slope, nor by that of a next point of the side, which there is  *)
(* unless the point is the fastest.                                        *)
Sided(points) ==
    \A p \in Range(points) : LET codings == Codings[p.block_id] IN
      /\ p.lambda \in Slope
      /\ p.lambda.num = 0 =>
           p.lambda = Zero /\ \A c \in codings : p.st.space <= c.space
      /\ input.heuristic_greedy \/
           /\ Supports(p.lambda, p.st, codings)
           /\ \/ \A c \in codings : p.st.time <= c.time
              \/ \E q \in Range(points) :
                   /\ q.block_id = p.block_id /\ q # p
                   /\ ~Below(q.lambda, p.lambda) /\ Supports(q.lambda, p.st, codings)

LEMMA HullSided ==
  ASSUME NEW b, NEW S \in SUBSET Coding, S = Codings[b], NEW n \in Nat \ {0},
         NEW buf, Len(buf) = n, DOMAIN buf = 1 .. n, Hull(buf, S), buf[1].lambda = Zero,
         \A k \in 1 .. n : buf[k].block_id = b
  PROVE  Sided(buf)
<1>1. Range(buf) = {buf[k] : k \in 1 .. n}
  BY DEF Range
<1>2. \A k \in 1 .. n : /\ buf[k].st \in S /\ buf[k].lambda \in Slope
                        /\ buf[k].st \in Coding /\ buf[k].block_id = b
  BY DEF Hull
<1>3. ASSUME NEW k \in 1 .. n, buf[k].lambda.num = 0
      PROVE  buf[k].lambda = Zero /\ \A c \in S : buf[k].st.space <= c.space
  <2>1. k = 1
    <3> SUFFICES ASSUME k # 1 PROVE FALSE
      OBVIOUS
    <3>1. k \in 2 .. n
      OBVIOUS
    <3> QED BY <1>3, <3>1 DEF Hull
  <2> QED BY <2>1 DEF Hull
<1>4. ASSUME ~input.heuristic_greedy, NEW k \in 1 .. n
      PROVE  /\ Supports(buf[k].lambda, buf[k].st, S)
             /\ \/ \A c \in S : buf[k].st.time <= c.time
                \/ \E q \in Range(buf) :
                     /\ q.block_id = b /\ q # buf[k] /\ ~Below(q.lambda, buf[k].lambda)
                     /\ Supports(q.lambda, buf[k].st, S)
  <2>1. \A j \in 1 .. n : Supports(buf[j].lambda, buf[j].st, S)
    BY <1>4 DEF Hull
  <2>2. CASE k = n
    BY <2>1, <2>2 DEF Hull
  <2>3. CASE k # n
    <3>1. k + 1 \in 2 .. n /\ k + 1 \in 1 .. n /\ k + 1 - 1 = k /\ k <= k + 1
      BY <2>3
    <3>2. /\ buf[k].st.space < buf[k + 1].st.space
          /\ Cost(buf[k + 1].lambda, buf[k].st) = Cost(buf[k + 1].lambda, buf[k + 1].st)
      BY <3>1 DEF Hull
    <3>3. ~Below(buf[k + 1].lambda, buf[k].lambda)
      BY <1>4, <3>1 DEF Hull
    <3>4. Supports(buf[k + 1].lambda, buf[k].st, S)
      BY <2>1, <3>1, <3>2 DEF Supports
    <3>5. buf[k + 1] # buf[k]
      <4>1. buf[k].st.space \in Nat
        BY <1>2 DEF Coding
      <4> QED BY <3>2, <4>1
    <3>6. buf[k + 1] \in Range(buf) /\ buf[k + 1].block_id = b
      BY <1>1, <1>2, <3>1
    <3> QED BY <2>1, <3>3, <3>4, <3>5, <3>6
  <2> QED BY <2>2, <2>3
<1>5. SUFFICES ASSUME NEW p \in Range(buf)
               PROVE  /\ p.block_id = b /\ p.lambda \in Slope
                      /\ p.lambda.num = 0 =>
                           p.lambda = Zero /\ \A c \in S : p.st.space <= c.space
                      /\ input.heuristic_greedy \/
                           /\ Supports(p.lambda, p.st, S)
                           /\ \/ \A c \in S : p.st.time <= c.time
                              \/ \E q \in Range(buf) :
                                   /\ q.block_id = b /\ q # p
                                   /\ ~Below(q.lambda, p.lambda)
                                   /\ Supports(q.lambda, p.st, S)
  BY DEF Sided
<1>6. PICK k \in 1 .. n : p = buf[k]
  BY <1>1
<1> QED BY <1>2, <1>3, <1>4, <1>6

LEMMA SidedUnion ==
  ASSUME NEW points,
         \A p \in Range(points) : \E part :
           p \in Range(part) /\ Sided(part) /\ Range(part) \subseteq Range(points)
  PROVE  Sided(points)
<1>1. SUFFICES ASSUME NEW p \in Range(points)
               PROVE  /\ p.lambda \in Slope
                      /\ p.lambda.num = 0 =>
                           /\ p.lambda = Zero
                           /\ \A c \in Codings[p.block_id] : p.st.space <= c.space
                      /\ input.heuristic_greedy \/
                           /\ Supports(p.lambda, p.st, Codings[p.block_id])
                           /\ \/ \A c \in Codings[p.block_id] : p.st.time <= c.time
                              \/ \E q \in Range(points) :
                                   /\ q.block_id = p.block_id /\ q # p
                                   /\ ~Below(q.lambda, p.lambda)
                                   /\ Supports(q.lambda, p.st, Codings[p.block_id])
  BY DEF Sided
<1>2. PICK part : p \in Range(part) /\ Sided(part) /\ Range(part) \subseteq Range(points)
  OBVIOUS
<1> QED BY <1>2 DEF Sided

(* The points of a list are points of its sides, and each side has the one *)
(* of its smallest coding.                                                 *)
LEMMA PointsOfType ==
  ASSUME input \in Inputs, NEW l \in 1 .. NumLists
  PROVE  /\ PointsOf(l, Base(l), CountsOf(l)) \in Seq(Points)
         /\ Rooted(PointsOf(l, Base(l), CountsOf(l)))
         /\ Sided(PointsOf(l, Base(l), CountsOf(l)))
         /\ \A p \in Range(PointsOf(l, Base(l), CountsOf(l))) : p.block_id <= Base(l + 1)
<1>1. PICK n \in Nat : n = 2 * NumBlocks(l) /\ n > 0
  BY InputFacts
<1> DEFINE side(s) == Lambdas(Lists[l].codings[s], Base(l) + s,
                              1 + IF CountsOf(l) = <<>> THEN 0 ELSE CountsOf(l)[s])
           seqs == [s \in 1 .. n |-> side(s)]
<1>2. PointsOf(l, Base(l), CountsOf(l)) = FlattenSeq(seqs)
  BY <1>1 DEF PointsOf
<1>3. ASSUME NEW s \in 1 .. n
      PROVE  /\ side(s) \in Seq(Points) /\ Len(side(s)) > 0
             /\ side(s)[1].lambda = Zero
             /\ \A p \in Range(side(s)) : p.block_id = Base(l) + s
             /\ Sided(side(s))
  <2>1. /\ Lists[l].codings[s] \in SUBSET Coding
        /\ Lists[l].codings[s] # {} /\ IsFiniteSet(Lists[l].codings[s])
    BY <1>1, InputFacts
  <2>2. /\ Accesses(l, s) \in Nat
        /\ side(s) = Lambdas(Lists[l].codings[s], Base(l) + s, Accesses(l, s))
    BY <1>1, AccessesAre
  <2>3. /\ Base(l) + s \in 1 .. NumSides
        /\ Codings[Base(l) + s] = Timed(Lists[l].codings[s], Accesses(l, s))
        /\ Codings[Base(l) + s] \in SUBSET Coding
    BY <1>1, CodingsAt
  <2>4. PICK b \in 1 .. NumSides, S \in SUBSET Coding :
          b = Base(l) + s /\ S = Codings[b] /\ S = Timed(Lists[l].codings[s], Accesses(l, s))
    BY <2>3
  <2>5. PICK buf, space : buf = side(s) /\ buf \in SideBuf(S, b, space) /\ Hull(buf, S)
    <3> HIDE DEF side
    <3> QED BY <2>1, <2>2, <2>4, LambdasType
  <2> DEFINE P == [block_id : {b}, lambda : [num : Nat, den : Int], st : S]
  <2>6. buf \in Seq(P) /\ Len(buf) > 0 /\ buf[1].lambda = Zero
    BY <2>5 DEF SideBuf
  <2>7. P \subseteq Points /\ \A p \in P : p.block_id = b
    BY <2>4 DEF Points
  <2> HIDE DEF P, side
  <2>8. buf \in Seq(Points) /\ \A p \in Range(buf) : p \in P
    <3>1. Range(buf) \subseteq P
      BY <2>6, RangeOfSeq
    <3>2. \A i \in 1 .. Len(buf) : buf[i] \in Points
      BY <2>6, <2>7, ElementOfSeq
    <3> QED BY <2>6, <2>7, <3>1, <3>2
  <2>9. Sided(buf)
    <3>1. PICK k \in Nat \ {0} : Len(buf) = k /\ DOMAIN buf = 1 .. k
      BY <2>6, LenProperties
    <3>2. \A i \in 1 .. k : buf[i].block_id = b
      BY <2>6, <2>7, <3>1, ElementOfSeq
    <3> QED BY <2>4, <2>5, <2>6, <3>1, <3>2, HullSided
  <2> QED BY <2>4, <2>5, <2>6, <2>7, <2>8, <2>9
<1> HIDE DEF side
<1>4. seqs \in Seq(Seq(Points)) /\ Len(seqs) = n /\ \A s \in 1 .. n : seqs[s] = side(s)
  <2>1. seqs \in [1 .. n -> Seq(Points)]
    BY <1>3
  <2> QED BY <2>1
<1> HIDE DEF seqs
<1>5. /\ FlattenSeq(seqs) \in Seq(Points)
      /\ Range(FlattenSeq(seqs)) = UNION {Range(seqs[i]) : i \in 1 .. Len(seqs)}
  BY <1>4, FlattenRange
<1>6. Range(FlattenSeq(seqs)) = UNION {Range(side(s)) : s \in 1 .. n}
  BY <1>4, <1>5
<1>7. ASSUME NEW p \in Range(FlattenSeq(seqs))
      PROVE  \E r \in Range(FlattenSeq(seqs)) :
                r.block_id = p.block_id /\ r.lambda = Zero
  <2>1. PICK s \in 1 .. n : p \in Range(side(s))
    BY <1>6
  <2>2. PICK buf \in Seq(Points) : buf = side(s) /\ Len(buf) > 0
    BY <1>3
  <2>3. buf[1] \in Range(buf)
    <3>1. 1 \in DOMAIN buf
      BY <2>2
    <3> QED BY <3>1 DEF Range
  <2>4. buf[1] \in Range(side(s)) /\ buf[1].lambda = Zero
    BY <1>3, <2>2, <2>3
  <2>5. buf[1].block_id = p.block_id
    BY <1>3, <2>1, <2>4
  <2> QED BY <1>6, <2>4, <2>5
<1>8. Sided(FlattenSeq(seqs))
  <2>1. ASSUME NEW p \in Range(FlattenSeq(seqs))
        PROVE  \E part : /\ p \in Range(part) /\ Sided(part)
                         /\ Range(part) \subseteq Range(FlattenSeq(seqs))
    <3>1. PICK s \in 1 .. n : p \in Range(side(s))
      BY <1>6
    <3>2. Range(side(s)) \subseteq Range(FlattenSeq(seqs)) /\ Sided(side(s))
      BY <1>3, <1>6
    <3> QED BY <3>1, <3>2
  <2> QED BY <2>1, SidedUnion
<1>9. ASSUME NEW p \in Range(FlattenSeq(seqs)) PROVE p.block_id <= Base(l + 1)
  <2>1. PICK s \in 1 .. n : p \in Range(side(s))
    BY <1>6
  <2>2. p.block_id = Base(l) + s
    BY <1>3, <2>1
  <2>3. Base(l) \in Nat /\ Base(l + 1) = Base(l) + n
    <3>1. NumLists \in Nat
      BY InputFacts
    <3>2. l \in 1 .. NumLists + 1
      BY <3>1
    <3> QED BY <1>1, <3>2, SidesType DEF Base
  <2> QED BY <2>2, <2>3
<1> QED BY <1>2, <1>5, <1>7, <1>8, <1>9 DEF Rooted

LEMMA RootedConcat ==
  ASSUME NEW a \in Seq(Points), NEW b \in Seq(Points), Rooted(a), Rooted(b)
  PROVE  a \o b \in Seq(Points) /\ Rooted(a \o b)
<1>1. Range(a \o b) = Range(a) \cup Range(b)
  BY RangeConcatenation
<1>2. a \o b \in Seq(Points)
  BY ConcatProperties
<1> QED BY <1>1, <1>2 DEF Rooted

(* The jobs of the queue, in the words of OrderedCommits.                  *)
QueueInv ==
    /\ added \in 0 .. NumLists
    /\ jobs = [j \in 1 .. added |-> jobs[j]]
    /\ prepared \subseteq 1 .. added
    /\ committed \in Seq(Nat) /\ Len(committed) <= added

(* How the phases of a run follow one another.                             *)
PhaseInv ==
    /\ pc \in {"start", "lambdas", "greedy", "transform", "over"}
    /\ pc = "over" <=> ended # "not"
    /\ pc \in {"start", "lambdas", "greedy"} => index = <<>>
    /\ pc \in {"start", "greedy"} => added = 0 /\ prepared = {} /\ committed = <<>>
    /\ pc # "start" => file.exists
    /\ ended \in {"killed", "terminates"} => file.exists

(* The lines of the statistics that were read are those of the lists whose *)
(* jobs were added; or the last one read waits for its list.               *)
ReadUpTo(line) ==
    \A k \in DOMAIN input.stats : k <= line <=> input.stats[k].list <= added

StatsType ==
    [line : 0 .. Len(input.stats), list : 0 .. NumLists, counts : Seq(Nat),
     consumed : BOOLEAN]

StatsInv ==
    pc \in {"start", "lambdas"} =>
    /\ stats \in StatsType
    /\ stats.line > 0 => stats.list = input.stats[stats.line].list
    /\ \/ stats.consumed = TRUE /\ ReadUpTo(stats.line)
       \/ /\ stats.consumed = FALSE /\ stats.counts = <<>>
          /\ stats.line = Len(input.stats) /\ ReadUpTo(stats.line)
       \/ /\ stats.consumed = FALSE /\ stats.line > 0
          /\ stats.counts = input.stats[stats.line].counts
          /\ ReadUpTo(stats.line - 1)

(* What the jobs that compute the trade-offs know, and what they found.    *)
LambdasInv ==
    pc = "lambdas" =>
    /\ \A j \in 1 .. added : jobs[j] =
         [base |-> Base(j), counts |-> CountsOf(j), points |-> jobs[j].points]
    /\ \A j \in prepared : j > Len(committed) =>
         jobs[j].points = PointsOf(j, Base(j), CountsOf(j))

(* The file has points of whole lists, unless a run was killed.            *)
FileInv ==
    /\ file \in [exists : BOOLEAN, sorted : BOOLEAN, points : Seq(Points)]
    /\ ~file.exists => file.points = <<>> /\ ~file.sorted
    /\ pc = "lambdas" \/ file.sorted => Rooted(file.points)
    /\ pc = "lambdas" => ~file.sorted

(* The smallest coding of a side is read before any dearer one of another, *)
(* thus before the budget can be exceeded.                                 *)
ChoiceInv ==
    /\ choice \in [1 .. NumSides -> Coding]
    /\ unread \in Seq(Points)
    /\ file.sorted =>
         \A k \in DOMAIN file.points : LET b == file.points[k].block_id IN
            /\ pc = "greedy" =>
                 \/ choice[b] \in Codings[b]
                 \/ \E i \in DOMAIN unread :
                      unread[i].block_id = b /\ unread[i].lambda = Zero
            /\ pc = "transform" => choice[b] \in Codings[b]
            /\ ended \in {"built", "throws"} => choice[b] \in Codings[b]

(* What the jobs that transform the lists know, and what they wrote.       *)
TransformInv ==
    /\ pc = "transform" =>
        /\ \A j \in 1 .. added :
             jobs[j] = [base |-> Base(j), types |-> jobs[j].types]
        /\ \A j \in prepared : j > Len(committed) =>
             jobs[j].types = TypesOf(j, Base(j))
        /\ Len(index) = Len(committed)
    /\ index = [l \in 1 .. Len(index) |-> TypesOf(l, Base(l))]
    /\ Len(index) \in Nat

(* How a run may have ended.                                               *)
EndInv ==
    /\ ended = "built" => Len(index) = NumLists
    /\ ended = "throws" => ~Whole
    /\ ended = "terminates" => input.handed_over
    /\ ended = "undefined" => input.budget = 0 /\ NumSides < Samples

IndInv ==
    /\ input \in Inputs
    /\ QueueInv /\ PhaseInv /\ StatsInv /\ LambdasInv
    /\ FileInv /\ ChoiceInv /\ TransformInv /\ EndInv
-----------------------------------------------------------------------------
(* What depends on the input stays with it.                                *)
LEMMA SameInput ==
  ASSUME input' = input
  PROVE  /\ NumLists' = NumLists /\ NumSides' = NumSides
         /\ \A l : Base(l)' = Base(l) /\ NumBlocks(l)' = NumBlocks(l)
                   /\ CountsOf(l)' = CountsOf(l)
         /\ Codings' = Codings /\ Points' = Points
<1>1. Lists' = Lists /\ NumLists' = NumLists
  BY DEF Lists, NumLists
<1>2. \A l : NumBlocks(l)' = NumBlocks(l)
  BY <1>1 DEF NumBlocks
<1>3. SidesBefore' = SidesBefore
  BY <1>1, <1>2 DEF SidesBefore
<1>4. \A l : CountsOf(l)' = CountsOf(l)
  BY DEF CountsOf, LinesOf
<1>5. Codings' = Codings
  BY <1>1 DEF Codings, Accesses
<1>6. NumSides' = NumSides
  BY <1>1, <1>3 DEF NumSides
<1>7. Points' = Points
  BY <1>5, <1>6 DEF Points
<1>8. \A l : Base(l)' = Base(l)
  BY <1>3 DEF Base
<1> QED BY <1>1, <1>2, <1>4, <1>5, <1>6, <1>7, <1>8

LEMMA SamePoints ==
  ASSUME input' = input, NEW l
  PROVE  PointsOf(l, Base(l), CountsOf(l))' = PointsOf(l, Base(l), CountsOf(l))
<1>1. Lists' = Lists /\ NumBlocks(l)' = NumBlocks(l)
      /\ Base(l)' = Base(l) /\ CountsOf(l)' = CountsOf(l)
  BY SameInput DEF Lists
<1> QED BY <1>1 DEF PointsOf, Lambdas, Appended, Kept

LEMMA SameTypes ==
  ASSUME input' = input, choice' = choice
  PROVE  \A l : TypesOf(l, Base(l))' = TypesOf(l, Base(l))
<1>1. \A l : Base(l)' = Base(l) /\ NumBlocks(l)' = NumBlocks(l)
  BY SameInput
<1> QED BY <1>1 DEF TypesOf

LEMMA AppendAt ==
  ASSUME NEW n \in Nat, NEW s, s = [i \in 1 .. n |-> s[i]], NEW e
  PROVE  /\ Len(s) = n /\ Len(Append(s, e)) = n + 1
         /\ Append(s, e) = [i \in 1 .. n + 1 |-> Append(s, e)[i]]
         /\ \A i \in 1 .. n : Append(s, e)[i] = s[i]
         /\ Append(s, e)[n + 1] = e
<1> DEFINE V == {s[i] : i \in 1 .. n} \cup {e}
<1>1. s \in [1 .. n -> V] /\ e \in V
  OBVIOUS
<1> HIDE DEF V
<1>2. s \in Seq(V) /\ Len(s) = n
  BY <1>1
<1>3. /\ Append(s, e) \in Seq(V) /\ Len(Append(s, e)) = n + 1
      /\ \A i \in 1 .. n : Append(s, e)[i] = s[i]
      /\ Append(s, e)[n + 1] = e
  BY <1>1, <1>2, AppendProperties
<1>4. PICK t \in Seq(V) : t = Append(s, e)
  BY <1>3
<1>5. t = [i \in 1 .. n + 1 |-> t[i]]
  BY <1>3, <1>4
<1> QED BY <1>2, <1>3, <1>4, <1>5

LEMMA NoCodingType == NoCoding \in Coding
<1>1. "pfor" \in Types
  BY HybridAssumption
<1>2. 0 \in Nat
  OBVIOUS
<1> QED BY <1>1, <1>2 DEF NoCoding, Coding

LEMMA NewStatsType ==
  ASSUME input \in Inputs, NEW s \in NewStats
  PROVE  s.line = 0 /\ s.consumed = TRUE /\ s \in StatsType
<1>1. NumLists \in Nat /\ Len(input.stats) \in Nat
  BY InputFacts, StatsFacts
<1>2. PICK x \in 0 .. NumLists :
        s = [line |-> 0, list |-> x, counts |-> <<>>, consumed |-> TRUE]
  <2>1. s \in [line : {0}, list : 0 .. NumLists, counts : {<<>>}, consumed : {TRUE}]
    <3>1. CASE input.stats = <<>>
      BY <3>1 DEF NewStats
    <3>2. CASE input.stats # <<>>
      <4>1. {0} \subseteq 0 .. NumLists
        BY <1>1
      <4>2. s \in [line : {0}, list : {0}, counts : {<<>>}, consumed : {TRUE}]
        BY <3>2 DEF NewStats
      <4> QED BY <4>1, <4>2
    <3> QED BY <3>1, <3>2
  <2> QED BY <2>1
<1> QED BY <1>1, <1>2 DEF StatsType

LEMMA InitInv == Init => IndInv
<1> SUFFICES ASSUME Init PROVE IndInv
  OBVIOUS
<1> USE DEF Init, Jobs!Init
<1>1. NumLists \in Nat /\ NumSides \in Nat
  BY InputFacts, CodingsAt
<1>2. QueueInv
  <2>1. jobs = [j \in 1 .. added |-> jobs[j]]
    <3>1. 1 .. added = {} /\ jobs = <<>>
      OBVIOUS
    <3> QED BY <3>1
  <2> QED BY <1>1, <2>1 DEF QueueInv
<1>3. PhaseInv
  BY DEF PhaseInv
<1>4. StatsInv
  <2>1. stats.line = 0 /\ stats.consumed = TRUE /\ stats \in StatsType
    BY NewStatsType
  <2>2. ReadUpTo(0)
    <3>1. \A k \in DOMAIN input.stats : ~(k <= 0) /\ ~(input.stats[k].list <= 0)
      BY StatsFacts
    <3> QED BY <3>1 DEF ReadUpTo
  <2> QED BY <2>1, <2>2 DEF StatsInv
<1>5. LambdasInv
  BY DEF LambdasInv
<1>6. FileInv
  <2>1. file = [exists |-> FALSE, sorted |-> FALSE, points |-> <<>>]
    OBVIOUS
  <2>2. file.points = <<>> /\ ~file.sorted /\ ~file.exists
        /\ file.sorted \in BOOLEAN /\ file.exists \in BOOLEAN
    BY <2>1
  <2>3. Rooted(<<>>)
    BY DEF Rooted, Range
  <2> QED BY <2>2, <2>3 DEF FileInv
<1>7. ChoiceInv
  <2>1. NoCoding \in Coding
    BY NoCodingType
  <2>2. choice \in [1 .. NumSides -> Coding] /\ unread \in Seq(Points)
    BY <2>1
  <2> QED BY <2>2 DEF ChoiceInv
<1>8. TransformInv
  <2>1. index = [l \in 1 .. Len(index) |-> TypesOf(l, Base(l))] /\ Len(index) = 0
    <3>1. index = <<>> /\ 1 .. Len(index) = {}
      OBVIOUS
    <3> QED BY <3>1
  <2> QED BY <2>1 DEF TransformInv
<1>9. EndInv
  BY DEF EndInv
<1> QED BY <1>2, <1>3, <1>4, <1>5, <1>6, <1>7, <1>8, <1>9 DEF IndInv

(***************************************************************************)
(* What a step leaves alone keeps the parts of the invariant about it.     *)
(***************************************************************************)
LEMMA QueueStays ==
  ASSUME QueueInv, UNCHANGED <<input, queue>>
  PROVE  QueueInv'
<1>1. NumLists' = NumLists
  BY SameInput
<1> QED BY <1>1 DEF QueueInv, queue

LEMMA StatsStays ==
  ASSUME StatsInv, UNCHANGED <<input, stats, added>>,
         pc' \in {"start", "lambdas"} => pc \in {"start", "lambdas"}
  PROVE  StatsInv'
<1>1. StatsType' = StatsType
  BY SameInput DEF StatsType
<1> QED BY <1>1 DEF StatsInv, ReadUpTo

LEMMA LambdasStays ==
  ASSUME LambdasInv, UNCHANGED <<input, queue>>, pc' = "lambdas" => pc = "lambdas"
  PROVE  LambdasInv'
<1>1. UNCHANGED <<jobs, added, prepared, committed>>
  BY DEF queue
<1>2. \A j : Base(j)' = Base(j) /\ CountsOf(j)' = CountsOf(j)
  BY SameInput
<1>3. ASSUME NEW j
      PROVE  PointsOf(j, Base(j), CountsOf(j))' = PointsOf(j, Base(j), CountsOf(j))
  BY SamePoints
<1> QED BY <1>1, <1>2, <1>3 DEF LambdasInv

LEMMA FileStays ==
  ASSUME FileInv, UNCHANGED <<input, file>>, pc' = "lambdas" => pc = "lambdas"
  PROVE  FileInv'
<1>1. Points' = Points
  BY SameInput
<1>2. Rooted(file.points)' = Rooted(file.points)
  BY DEF Rooted
<1> QED BY <1>1, <1>2 DEF FileInv

LEMMA ChoiceStays ==
  ASSUME ChoiceInv, UNCHANGED <<input, file, choice, unread>>,
         pc' = "greedy" => pc = "greedy", pc' = "transform" => pc = "transform",
         ended' \in {"built", "throws"} => pc = "transform" \/ ended' = ended
  PROVE  ChoiceInv'
<1>1. Points' = Points /\ Codings' = Codings /\ NumSides' = NumSides
  BY SameInput
<1> QED BY <1>1 DEF ChoiceInv

LEMMA TransformStays ==
  ASSUME TransformInv, UNCHANGED <<input, queue, choice, index>>,
         pc' = "transform" => pc = "transform"
  PROVE  TransformInv'
<1>1. UNCHANGED <<jobs, added, prepared, committed>>
  BY DEF queue
<1>2. \A l : Base(l)' = Base(l) /\ TypesOf(l, Base(l))' = TypesOf(l, Base(l))
  BY SameInput, SameTypes
<1> QED BY <1>1, <1>2 DEF TransformInv

LEMMA EndStays ==
  ASSUME EndInv, UNCHANGED <<input, ended, index>>, ended = "throws" => UNCHANGED file
  PROVE  EndInv'
<1>1. NumLists' = NumLists /\ NumSides' = NumSides
  BY SameInput
<1>2. ended = "throws" => Whole' = Whole
  BY <1>1 DEF Whole
<1> QED BY <1>1, <1>2 DEF EndInv

LEMMA OverInv == ASSUME IndInv, UNCHANGED vars PROVE IndInv'
<1>1. UNCHANGED <<input, pc, ended, file, stats, queue, unread, choice, index, added>>
  BY DEF vars, greedy, queue
<1>2. PhaseInv'
  BY <1>1 DEF IndInv, PhaseInv, queue
<1> QED BY <1>1, <1>2, QueueStays, StatsStays, LambdasStays, FileStays, ChoiceStays,
           TransformStays, EndStays DEF IndInv

(***************************************************************************)
(* The steps that read or write the file.                                  *)
(***************************************************************************)
LEMMA ResetQueue ==
  ASSUME input \in Inputs, input' = input, Reset
  PROVE  QueueInv' /\ added' = 0 /\ prepared' = {} /\ committed' = <<>>
<1>1. NumLists' = NumLists /\ NumLists \in Nat
  BY SameInput, InputFacts
<1>2. jobs' = <<>> /\ added' = 0 /\ prepared' = {} /\ committed' = <<>>
  BY DEF Reset
<1>3. jobs' = [j \in 1 .. added' |-> jobs'[j]]
  <2>1. 1 .. added' = {}
    BY <1>2
  <2> QED BY <1>2, <2>1
<1> QED BY <1>1, <1>2, <1>3 DEF QueueInv

(* When the points of a whole file are all unread, so is each smallest one.*)
LEMMA AllUnread ==
  ASSUME FileInv, file.sorted, unread' = file.points
  PROVE  \A k \in DOMAIN file.points : \E i \in DOMAIN unread' :
            /\ unread'[i].block_id = file.points[k].block_id
            /\ unread'[i].lambda = Zero
<1>1. Rooted(file.points)
  BY DEF FileInv
<1>2. ASSUME NEW k \in DOMAIN file.points
      PROVE  \E i \in DOMAIN file.points :
                /\ file.points[i].block_id = file.points[k].block_id
                /\ file.points[i].lambda = Zero
  BY <1>1 DEF Rooted, Range
<1> QED BY <1>2

LEMMA StartInv == ASSUME IndInv, Start PROVE IndInv'
<1> USE DEF Start
<1>1. /\ pc = "start" /\ UNCHANGED <<input, ended, stats, queue, choice, index>>
      /\ added = 0 /\ prepared = {} /\ committed = <<>> /\ index = <<>> /\ ended = "not"
  BY DEF IndInv, PhaseInv
<1>2. UNCHANGED <<jobs, added, prepared, committed>>
  BY <1>1 DEF queue
<1>3. CASE file.exists
  <2>1. pc' = "greedy" /\ unread' = file.points /\ file' = file
    BY <1>3
  <2>2. PhaseInv'
    BY <1>1, <1>2, <1>3, <2>1 DEF IndInv, PhaseInv
  <2>3. ChoiceInv'
    <3>1. Points' = Points /\ Codings' = Codings /\ NumSides' = NumSides
      BY <1>1, SameInput
    <3>2. choice' \in [1 .. NumSides' -> Coding] /\ unread' \in Seq(Points')
      BY <1>1, <2>1, <3>1 DEF IndInv, ChoiceInv, FileInv
    <3>3. file.sorted => \A k \in DOMAIN file.points : \E i \in DOMAIN unread' :
            /\ unread'[i].block_id = file.points[k].block_id
            /\ unread'[i].lambda = Zero
      BY <2>1, AllUnread DEF IndInv
    <3> QED BY <1>1, <2>1, <3>2, <3>3 DEF ChoiceInv
  <2> QED BY <1>1, <1>2, <2>1, <2>2, <2>3, QueueStays, StatsStays, LambdasStays,
             FileStays, TransformStays, EndStays DEF IndInv
<1>4. CASE ~file.exists
  <2>1. pc' = "lambdas" /\ file' = [file EXCEPT !.exists = TRUE] /\ unread' = unread
    BY <1>4
  <2>2. file.points = <<>> /\ ~file.sorted
    BY <1>4 DEF IndInv, FileInv
  <2>3. file' = [exists |-> TRUE, sorted |-> file.sorted, points |-> file.points]
    <3>1. file \in [exists : BOOLEAN, sorted : BOOLEAN, points : Seq(Points)]
      BY DEF IndInv, FileInv
    <3> QED BY <2>1, <3>1
  <2>4. PhaseInv'
    BY <1>1, <1>2, <2>1, <2>3 DEF IndInv, PhaseInv
  <2>5. LambdasInv'
    BY <1>1, <1>2 DEF LambdasInv
  <2>6. FileInv'
    <3>1. Points' = Points
      BY <1>1, SameInput
    <3>2. Rooted(<<>>)
      BY DEF Rooted, Range
    <3>3. Rooted(file.points)'
      BY <2>2, <2>3, <3>2 DEF Rooted
    <3> QED BY <2>2, <2>3, <3>1, <3>3 DEF IndInv, FileInv
  <2>7. ChoiceInv'
    <3>1. Points' = Points /\ Codings' = Codings /\ NumSides' = NumSides
      BY <1>1, SameInput
    <3> QED BY <1>1, <2>1, <2>2, <2>3, <3>1 DEF IndInv, ChoiceInv
  <2> QED BY <1>1, <1>2, <2>1, <2>4, <2>5, <2>6, <2>7, QueueStays, StatsStays,
             TransformStays, EndStays DEF IndInv
<1> QED BY <1>3, <1>4

(***************************************************************************)
(* What is read of the statistics is the line of the list whose job is     *)
(* added, when it has one.                                                 *)
(***************************************************************************)
LEMMA ReadStatsIs ==
  ASSUME IndInv, pc = "lambdas"
  PROVE  /\ ReadStats \in StatsType
         /\ ReadStats.line > 0 => ReadStats.list = input.stats[ReadStats.line].list
         /\ \/ ReadStats.counts = <<>> /\ ReadStats.line = Len(input.stats)
               /\ ReadUpTo(ReadStats.line)
            \/ /\ ReadStats.line > 0
               /\ ReadStats.counts = input.stats[ReadStats.line].counts
               /\ ReadUpTo(ReadStats.line - 1)
<1>1. /\ stats \in StatsType
      /\ stats.line > 0 => stats.list = input.stats[stats.line].list
      /\ \/ stats.consumed = TRUE /\ ReadUpTo(stats.line)
         \/ /\ stats.consumed = FALSE /\ stats.counts = <<>>
            /\ stats.line = Len(input.stats) /\ ReadUpTo(stats.line)
         \/ /\ stats.consumed = FALSE /\ stats.line > 0
            /\ stats.counts = input.stats[stats.line].counts
            /\ ReadUpTo(stats.line - 1)
  BY DEF IndInv, StatsInv
<1>2. CASE stats.consumed = FALSE
  <2>1. ReadStats = stats
    BY <1>2 DEF ReadStats
  <2> QED BY <1>1, <1>2, <2>1
<1>3. CASE stats.consumed = TRUE
  <2>1. PICK line \in Nat, n \in Nat :
          line = stats.line /\ n = Len(input.stats) /\ line <= n
    BY <1>1, StatsFacts DEF StatsType, IndInv
  <2>2. CASE line = n
    <3>1. PICK x \in 0 .. NumLists :
            x = stats.list
            /\ ReadStats = [line |-> line, list |-> x, counts |-> <<>>, consumed |-> FALSE]
      <4>1. PICK x \in 0 .. NumLists, counts \in Seq(Nat), consumed \in BOOLEAN :
              stats = [line |-> line, list |-> x, counts |-> counts, consumed |-> consumed]
        BY <1>1, <2>1 DEF StatsType
      <4>2. ~(line + 1 <= n) /\ line + 1 > n
        BY <2>1, <2>2
      <4>3. ReadStats = [stats EXCEPT !.counts = <<>>, !.consumed = FALSE]
        BY <1>3, <2>1, <4>2 DEF ReadStats
      <4> QED BY <4>1, <4>3
    <3>2. ReadStats \in StatsType
      BY <2>1, <3>1 DEF StatsType
    <3> QED BY <1>1, <1>3, <2>1, <2>2, <3>1, <3>2
  <2>3. CASE line < n
    <3>1. ReadStats = [line |-> line + 1, list |-> input.stats[line + 1].list,
                       counts |-> input.stats[line + 1].counts, consumed |-> FALSE]
      BY <1>3, <2>1, <2>3 DEF ReadStats
    <3>2. /\ line + 1 \in DOMAIN input.stats
          /\ input.stats[line + 1].list \in 0 .. NumLists
          /\ input.stats[line + 1].counts \in Seq(Nat)
      <4>1. line + 1 \in DOMAIN input.stats
        BY <2>1, <2>3, StatsFacts DEF IndInv
      <4>2. input.stats[line + 1].list \in 1 .. NumLists
            /\ input.stats[line + 1].counts \in Seq(Nat)
        BY <4>1, StatsFacts DEF IndInv
      <4> QED BY <4>1, <4>2, InputFacts DEF IndInv
    <3>3. line + 1 \in 0 .. Len(input.stats) /\ line + 1 > 0 /\ line + 1 - 1 = line
      BY <2>1, <2>3
    <3>4. ReadStats \in StatsType
      BY <3>1, <3>2, <3>3 DEF StatsType
    <3> QED BY <1>1, <1>3, <2>1, <3>1, <3>3, <3>4
  <2> QED BY <2>1, <2>2, <2>3
<1> QED BY <1>1, <1>2, <1>3

LEMMA ConsumeInv ==
  ASSUME IndInv, pc = "lambdas", added + 1 <= NumLists, input' = input,
         Consume(added + 1), added' = added + 1
  PROVE  /\ StatsInv'
         /\ CountsOf(added + 1) =
              IF ReadStats.list = added + 1 THEN ReadStats.counts ELSE <<>>
<1> DEFINE l == added + 1
           list(k) == input.stats[k].list
<1>1. added \in Nat /\ l \in 1 .. NumLists /\ ~(l <= added)
  BY InputFacts DEF IndInv, QueueInv
<1>2. PICK n \in Nat : n = Len(input.stats) /\ DOMAIN input.stats = 1 .. n
  BY StatsFacts DEF IndInv
<1>3. \A k \in 1 .. n : list(k) \in Nat /\ \A m \in 1 .. n : m < k => list(m) < list(k)
  <2>1. input \in Inputs
    BY DEF IndInv
  <2>2. \A k \in 1 .. n : list(k) \in 1 .. NumLists /\ \A m \in 1 .. n : m < k => list(m) < list(k)
    BY <1>2, <2>1, StatsFacts
  <2>3. 1 .. NumLists \subseteq Nat
    BY <2>1, InputFacts
  <2> QED BY <2>2, <2>3
<1>4. PICK line \in 0 .. n, x \in 0 .. NumLists, counts \in Seq(Nat) :
        /\ line = ReadStats.line /\ x = ReadStats.list /\ counts = ReadStats.counts
        /\ stats' = [line |-> line, list |-> x, counts |-> counts, consumed |-> x = l]
        /\ stats' \in StatsType
  <2>1. ReadStats \in StatsType
    BY ReadStatsIs
  <2> QED BY <1>2, <2>1 DEF StatsType, Consume
<1>5. /\ line > 0 => x = list(line)
      /\ \/ counts = <<>> /\ line = n /\ ReadUpTo(line)
         \/ line > 0 /\ counts = input.stats[line].counts /\ ReadUpTo(line - 1)
  BY <1>2, <1>4, ReadStatsIs
<1>6. \A m : ReadUpTo(m) <=> \A k \in 1 .. n : k <= m <=> list(k) <= added
  BY <1>2 DEF ReadUpTo
<1>7. \A m : ReadUpTo(m)' <=> \A k \in 1 .. n : k <= m <=> list(k) <= l
  BY <1>2 DEF ReadUpTo
<1>8. CountsOf(l) = IF x = l THEN counts ELSE <<>>
  <2>1. CASE x = l /\ line > 0
    <3>1. line \in DOMAIN input.stats /\ list(line) = l
      BY <1>2, <1>5, <2>1
    <3>2. ~ReadUpTo(line)
      BY <1>1, <1>2, <1>6, <3>1
    <3> QED BY <1>5, <2>1, <3>1, <3>2, OneLine DEF IndInv
  <2>2. CASE ~(x = l /\ line > 0)
    <3>1. ASSUME NEW k \in 1 .. n PROVE list(k) # l
      <4>1. CASE counts = <<>> /\ line = n /\ ReadUpTo(line)
        BY <1>1, <1>6, <4>1
      <4>2. CASE line > 0 /\ ReadUpTo(line - 1)
        <5>1. x = list(line) /\ line \in 1 .. n /\ ~(line <= line - 1)
          BY <1>5, <4>2
        <5>2. x > added /\ x # l /\ x \in Nat
          <6>1. ~(list(line) <= added) /\ list(line) \in Nat
            BY <1>3, <1>6, <4>2, <5>1
          <6> QED BY <1>1, <2>2, <4>2, <5>1, <6>1
        <5>3. CASE k < line
          <6>1. list(k) <= added
            BY <1>6, <4>2, <5>1, <5>3
          <6> QED BY <1>1, <6>1
        <5>4. CASE line <= k
          <6>1. x > l
            BY <1>1, <5>2
          <6>2. CASE k = line
            BY <1>1, <5>1, <6>1, <6>2
          <6>3. CASE k # line
            <7>1. line < k /\ list(line) < list(k) /\ list(k) \in Nat
              BY <1>3, <5>1, <5>4, <6>3
            <7> QED BY <1>1, <5>1, <5>2, <6>1, <7>1
          <6> QED BY <6>2, <6>3
        <5> QED BY <5>1, <5>3, <5>4
      <4> QED BY <1>5, <4>1, <4>2
    <3>2. LinesOf(l) = {}
      BY <1>2, <3>1 DEF LinesOf
    <3>3. x = l => counts = <<>>
      BY <1>5, <2>2
    <3> QED BY <3>2, <3>3 DEF CountsOf
  <2> QED BY <2>1, <2>2
<1>9. /\ stats'.line = line /\ stats'.list = x /\ stats'.counts = counts
      /\ stats'.consumed = (x = l)
  BY <1>4
<1>10. \/ x = l /\ ReadUpTo(line)'
       \/ x # l /\ counts = <<>> /\ line = n /\ ReadUpTo(line)'
       \/ x # l /\ line > 0 /\ counts = input.stats[line].counts /\ ReadUpTo(line - 1)'
  <2>1. CASE counts = <<>> /\ line = n /\ ReadUpTo(line)
    <3>1. ASSUME NEW k \in 1 .. n PROVE k <= line <=> list(k) <= l
      BY <1>1, <1>3, <1>6, <2>1
    <3> QED BY <1>7, <2>1, <3>1
  <2>2. CASE line > 0 /\ counts = input.stats[line].counts /\ ReadUpTo(line - 1)
    <3>1. x = list(line) /\ line \in 1 .. n /\ ~(line <= line - 1)
      BY <1>5, <2>2
    <3>2. x > added /\ x \in Nat
      <4>1. ~(list(line) <= added) /\ list(line) \in Nat
        BY <1>3, <1>6, <2>2, <3>1
      <4> QED BY <1>1, <3>1, <4>1
    <3>3. CASE x = l
      <4>1. ASSUME NEW k \in 1 .. n PROVE k <= line <=> list(k) <= l
        <5>1. PICK e \in Nat, m \in Nat : e = list(k) /\ m = l /\ list(line) = m
          BY <1>1, <1>3, <3>1, <3>3
        <5>2. k < line => e < m
          BY <1>3, <3>1, <5>1
        <5>3. line < k => m < e
          BY <1>3, <3>1, <5>1
        <5>4. k = line => e = m
          BY <5>1
        <5>5. k <= line <=> e <= m
          <6> HIDE DEF l, list
          <6> QED BY <3>1, <5>2, <5>3, <5>4
        <5> QED BY <5>1, <5>5
      <4> QED BY <1>7, <3>3, <4>1
    <3>4. CASE x # l
      <4>1. ASSUME NEW k \in 1 .. n PROVE k <= line - 1 <=> list(k) <= l
        <5>1. CASE k < line
          <6>1. list(k) <= added /\ k <= line - 1
            BY <1>6, <2>2, <3>1, <5>1
          <6> QED BY <1>1, <1>3, <6>1
        <5>2. CASE line <= k
          <6>1. list(k) >= x
            BY <1>3, <3>1, <5>2
          <6> QED BY <1>1, <1>3, <3>1, <3>2, <3>4, <5>2, <6>1
        <5> QED BY <3>1, <5>1, <5>2
      <4> QED BY <1>7, <2>2, <3>4, <4>1
    <3> QED BY <3>3, <3>4
  <2> QED BY <1>5, <2>1, <2>2
<1>11. StatsInv'
  <2>1. StatsType' = StatsType
    BY SameInput DEF StatsType
  <2> QED BY <1>2, <1>4, <1>5, <1>9, <1>10, <2>1 DEF StatsInv
<1> QED BY <1>4, <1>8, <1>11

(***************************************************************************)
(* The steps of the jobs that compute the trade-offs.                      *)
(***************************************************************************)
LEMMA FileGrows ==
  ASSUME IndInv, pc = "lambdas", UNCHANGED <<input, pc>>, NEW l \in 1 .. NumLists,
         file' = [file EXCEPT !.points = @ \o PointsOf(l, Base(l), CountsOf(l))]
  PROVE  FileInv' /\ ~file.sorted /\ ~file'.sorted /\ file'.exists = file.exists
<1>1. file \in [exists : BOOLEAN, sorted : BOOLEAN, points : Seq(Points)]
      /\ ~file.sorted /\ Rooted(file.points) /\ file.exists
  BY DEF IndInv, FileInv, PhaseInv
<1>2. PICK points : points = PointsOf(l, Base(l), CountsOf(l))
  OBVIOUS
<1>3. points \in Seq(Points) /\ Rooted(points)
  BY <1>2, PointsOfType DEF IndInv
<1>4. PICK all \in Seq(Points) : all = file.points \o points /\ Rooted(all)
  BY <1>1, <1>3, RootedConcat
<1>5. file' = [file EXCEPT !.points = all]
  BY <1>2, <1>4
<1>6. Points' = Points
  BY SameInput
<1>7. /\ file'.points = all /\ ~file'.sorted /\ file'.exists
      /\ file' \in [exists : BOOLEAN, sorted : BOOLEAN, points : Seq(Points)]
  BY <1>1, <1>5
<1>8. Rooted(file'.points)
  BY <1>4, <1>7
<1> QED BY <1>1, <1>6, <1>7, <1>8 DEF FileInv, Rooted

LEMMA AddLambdasInv == ASSUME IndInv, AddLambdas PROVE IndInv'
<1> DEFINE l == added + 1
           job == [base |-> Base(l), counts |-> CountsOf(l), points |-> <<>>]
<1>1. /\ pc = "lambdas" /\ l <= NumLists /\ Consume(l)
      /\ UNCHANGED <<input, pc, ended, greedy, index>>
  BY DEF AddLambdas
<1>2. UNCHANGED <<unread, choice>>
  BY <1>1 DEF greedy
<1>3. added \in Nat /\ l \in 1 .. NumLists /\ Len(committed) \in Nat
      /\ committed \in Seq(Nat) /\ Len(committed) <= added /\ prepared \subseteq 1 .. added
      /\ jobs = [j \in 1 .. added |-> jobs[j]]
  BY <1>1, InputFacts, LenProperties DEF IndInv, QueueInv
<1>4. /\ added' = l
      /\ input.threads \/ Len(committed) = added
      /\ IF input.threads THEN prepared' = prepared /\ committed' = committed /\ file' = file
         ELSE /\ prepared' = prepared \cup {l} /\ committed' = Append(committed, l)
              /\ Len(committed) = added
  BY DEF AddLambdas, Jobs!Add, Jobs!AddAndRun
<1>5. StatsInv' /\ CountsOf(l) = IF ReadStats.list = l THEN ReadStats.counts ELSE <<>>
  BY <1>1, <1>4, ConsumeInv
<1>6. /\ jobs' = Append(jobs, job)
      /\ ~input.threads =>
           file' = [file EXCEPT !.points = @ \o PointsOf(l, Base(l), CountsOf(l))]
  BY <1>5 DEF AddLambdas
<1>7. /\ jobs' = [j \in 1 .. l |-> jobs'[j]]
      /\ \A j \in 1 .. added : jobs'[j] = jobs[j]
      /\ jobs'[l] = job
  <2> HIDE DEF job
  <2>1. /\ Append(jobs, job) = [i \in 1 .. added + 1 |-> Append(jobs, job)[i]]
        /\ \A i \in 1 .. added : Append(jobs, job)[i] = jobs[i]
        /\ Append(jobs, job)[added + 1] = job
    BY <1>3, AppendAt
  <2> QED BY <1>6, <2>1
<1>8. /\ prepared' \subseteq 1 .. l /\ committed' \in Seq(Nat) /\ Len(committed') <= l
      /\ \A j \in prepared' : j > Len(committed') => j \in prepared /\ j > Len(committed)
  <2>1. CASE input.threads
    BY <1>3, <1>4, <2>1
  <2>2. CASE ~input.threads
    <3>1. Append(committed, l) \in Seq(Nat) /\ Len(Append(committed, l)) = l
      BY <1>3, <1>4, <2>2, AppendProperties
    <3>2. prepared' = prepared \cup {l} /\ committed' = Append(committed, l)
      BY <1>4, <2>2
    <3>3. prepared' \subseteq 1 .. l
      <4>1. 1 .. added \subseteq 1 .. l /\ l \in 1 .. l
        BY <1>3
      <4> QED BY <1>3, <3>2, <4>1
    <3>4. \A j \in prepared' : ~(j > Len(committed'))
      BY <3>1, <3>2, <3>3
    <3>5. Len(committed') <= l
      BY <1>3, <3>1, <3>2
    <3> QED BY <3>1, <3>2, <3>3, <3>4, <3>5
  <2> QED BY <2>1, <2>2
<1>9. QueueInv'
  <2>1. NumLists' = NumLists
    BY <1>1, SameInput
  <2> QED BY <1>3, <1>4, <1>7, <1>8, <2>1 DEF QueueInv
<1>10. FileInv' /\ ~file.sorted /\ ~file'.sorted /\ file'.exists = file.exists
  <2>1. CASE input.threads
    <3>1. file' = file
      BY <1>4, <2>1
    <3> QED BY <1>1, <3>1, FileStays DEF IndInv, FileInv
  <2>2. CASE ~input.threads
    BY <1>1, <1>3, <1>6, <2>2, FileGrows
  <2> QED BY <2>1, <2>2
<1>11. PhaseInv'
  BY <1>1, <1>10 DEF IndInv, PhaseInv
<1>12. LambdasInv'
  <2>1. \A j : Base(j)' = Base(j) /\ CountsOf(j)' = CountsOf(j)
    BY <1>1, SameInput
  <2>2. ASSUME NEW j PROVE PointsOf(j, Base(j), CountsOf(j))' = PointsOf(j, Base(j), CountsOf(j))
    BY <1>1, SamePoints
  <2>3. ASSUME NEW j \in 1 .. added'
        PROVE  jobs'[j] =
                 [base |-> Base(j), counts |-> CountsOf(j), points |-> jobs'[j].points]
    <3>1. CASE j \in 1 .. added
      BY <1>1, <1>7, <3>1 DEF IndInv, LambdasInv
    <3>2. CASE j = l
      BY <1>7, <3>2
    <3> QED BY <1>3, <1>4, <3>1, <3>2
  <2>4. ASSUME NEW j \in prepared', j > Len(committed')
        PROVE  jobs'[j].points = PointsOf(j, Base(j), CountsOf(j))
    <3>1. j \in prepared /\ j > Len(committed) /\ j \in 1 .. added
      BY <1>3, <1>8, <2>4
    <3> QED BY <1>1, <1>7, <3>1 DEF IndInv, LambdasInv
  <2> HIDE DEF l, job
  <2> QED BY <2>1, <2>2, <2>3, <2>4 DEF LambdasInv
<1>13. ChoiceInv'
  <2>1. Points' = Points /\ Codings' = Codings /\ NumSides' = NumSides
    BY <1>1, SameInput
  <2> QED BY <1>1, <1>2, <1>10, <2>1 DEF IndInv, ChoiceInv
<1>14. TransformInv'
  <2>1. \A j : Base(j)' = Base(j) /\ TypesOf(j, Base(j))' = TypesOf(j, Base(j))
    BY <1>1, <1>2, SameInput, SameTypes
  <2> QED BY <1>1, <1>2, <2>1 DEF IndInv, TransformInv
<1>15. EndInv'
  BY <1>1, EndStays DEF IndInv, PhaseInv
<1>16. input' \in Inputs
  BY <1>1 DEF IndInv
<1> QED BY <1>5, <1>9, <1>10, <1>11, <1>12, <1>13, <1>14, <1>15, <1>16 DEF IndInv

LEMMA PrepareLambdasInv ==
  ASSUME IndInv, NEW j \in 1 .. added, PrepareLambdas(j) PROVE IndInv'
<1>1. /\ pc = "lambdas" /\ UNCHANGED <<input, pc, ended, file, stats, greedy, index>>
      /\ prepared' = prepared \cup {j} /\ UNCHANGED <<added, committed>>
      /\ jobs' = [jobs EXCEPT ![j].points = PointsOf(j, jobs[j].base, jobs[j].counts)]
  BY DEF PrepareLambdas, Jobs!Prepare
<1>2. UNCHANGED <<unread, choice>>
  BY <1>1 DEF greedy
<1>3. /\ jobs[j].base = Base(j) /\ jobs[j].counts = CountsOf(j)
      /\ jobs[j] = [base |-> Base(j), counts |-> CountsOf(j), points |-> jobs[j].points]
      /\ jobs = [i \in 1 .. added |-> jobs[i]]
  BY <1>1 DEF IndInv, LambdasInv, QueueInv
<1>4. /\ jobs' = [i \in 1 .. added |-> jobs'[i]]
      /\ \A i \in 1 .. added : i # j => jobs'[i] = jobs[i]
      /\ jobs'[j] = [jobs[j] EXCEPT !.points = PointsOf(j, Base(j), CountsOf(j))]
  BY <1>1, <1>3
<1>5. QueueInv'
  <2>1. NumLists' = NumLists
    BY <1>1, SameInput
  <2> QED BY <1>1, <1>4, <2>1 DEF IndInv, QueueInv
<1>6. PhaseInv'
  BY <1>1 DEF IndInv, PhaseInv
<1>7. LambdasInv'
  <2>1. \A i : Base(i)' = Base(i) /\ CountsOf(i)' = CountsOf(i)
    BY <1>1, SameInput
  <2>2. ASSUME NEW i PROVE PointsOf(i, Base(i), CountsOf(i))' = PointsOf(i, Base(i), CountsOf(i))
    BY <1>1, SamePoints
  <2> DEFINE points == PointsOf(j, Base(j), CountsOf(j))
  <2>3. jobs'[j] = [base |-> Base(j), counts |-> CountsOf(j), points |-> points]
    <3>1. PICK p : p = points /\ jobs'[j] = [jobs[j] EXCEPT !.points = p]
      BY <1>4
    <3>2. PICK old : jobs[j] = [base |-> Base(j), counts |-> CountsOf(j), points |-> old]
      BY <1>3
    <3> HIDE DEF points
    <3> QED BY <3>1, <3>2
  <2>4. ASSUME NEW i \in 1 .. added
        PROVE  jobs'[i] =
                 [base |-> Base(i), counts |-> CountsOf(i), points |-> jobs'[i].points]
    <3>1. CASE i = j
      <4> HIDE DEF points
      <4> QED BY <2>3, <3>1
    <3>2. CASE i # j
      BY <1>1, <1>4, <3>2 DEF IndInv, LambdasInv
    <3> QED BY <3>1, <3>2
  <2>5. ASSUME NEW i \in prepared', i > Len(committed')
        PROVE  jobs'[i].points = PointsOf(i, Base(i), CountsOf(i))
    <3>1. CASE i = j
      <4>1. jobs'[j].points = points
        <5> HIDE DEF points
        <5> QED BY <2>3
      <4> QED BY <3>1, <4>1
    <3>2. CASE i # j
      BY <1>1, <1>4, <2>5, <3>2 DEF IndInv, LambdasInv, QueueInv
    <3> QED BY <3>1, <3>2
  <2> QED BY <1>1, <2>1, <2>2, <2>4, <2>5 DEF LambdasInv
<1>8. TransformInv'
  <2>1. \A i : Base(i)' = Base(i) /\ TypesOf(i, Base(i))' = TypesOf(i, Base(i))
    BY <1>1, <1>2, SameInput, SameTypes
  <2> QED BY <1>1, <1>2, <2>1 DEF IndInv, TransformInv
<1> QED BY <1>1, <1>2, <1>5, <1>6, <1>7, <1>8, StatsStays, FileStays, ChoiceStays,
           EndStays DEF IndInv

LEMMA CommitLambdasInv == ASSUME IndInv, CommitLambdas PROVE IndInv'
<1> DEFINE j == Len(committed) + 1
<1>1. /\ pc = "lambdas" /\ UNCHANGED <<input, pc, ended, stats, jobs, greedy, index>>
      /\ j \in prepared /\ committed' = Append(committed, j) /\ UNCHANGED <<added, prepared>>
      /\ file' = [file EXCEPT !.points = @ \o jobs[j].points]
  BY DEF CommitLambdas, Jobs!Commit
<1>2. UNCHANGED <<unread, choice>>
  BY <1>1 DEF greedy
<1>3. /\ committed \in Seq(Nat) /\ Len(committed) \in Nat /\ prepared \subseteq 1 .. added
      /\ added \in 0 .. NumLists
  BY LenProperties DEF IndInv, QueueInv
<1>4. committed' \in Seq(Nat) /\ Len(committed') = j
  BY <1>1, <1>3, AppendProperties
<1>5. j \in 1 .. NumLists /\ jobs[j].points = PointsOf(j, Base(j), CountsOf(j))
  <2>1. j \in 1 .. added /\ j > Len(committed)
    BY <1>1, <1>3
  <2>2. j \in 1 .. NumLists
    BY <1>3, <2>1, InputFacts DEF IndInv
  <2> QED BY <1>1, <2>1, <2>2 DEF IndInv, LambdasInv
<1>6. FileInv' /\ ~file.sorted /\ ~file'.sorted /\ file'.exists = file.exists
  <2> HIDE DEF j
  <2> QED BY <1>1, <1>5, FileGrows
<1>7. QueueInv'
  <2>1. NumLists' = NumLists
    BY <1>1, SameInput
  <2> QED BY <1>1, <1>3, <1>4, <2>1 DEF IndInv, QueueInv
<1>8. PhaseInv'
  BY <1>1, <1>6 DEF IndInv, PhaseInv
<1>9. LambdasInv'
  <2>1. \A i : Base(i)' = Base(i) /\ CountsOf(i)' = CountsOf(i)
    BY <1>1, SameInput
  <2>2. ASSUME NEW i PROVE PointsOf(i, Base(i), CountsOf(i))' = PointsOf(i, Base(i), CountsOf(i))
    BY <1>1, SamePoints
  <2>3. \A i \in prepared : i > Len(committed') => i > Len(committed)
    BY <1>3, <1>4
  <2> QED BY <1>1, <2>1, <2>2, <2>3 DEF IndInv, LambdasInv
<1>10. ChoiceInv'
  <2>1. Points' = Points /\ Codings' = Codings /\ NumSides' = NumSides
    BY <1>1, SameInput
  <2> QED BY <1>1, <1>2, <1>6, <2>1 DEF IndInv, ChoiceInv
<1>11. TransformInv'
  <2>1. \A i : Base(i)' = Base(i) /\ TypesOf(i, Base(i))' = TypesOf(i, Base(i))
    BY <1>1, <1>2, SameInput, SameTypes
  <2> QED BY <1>1, <1>2, <2>1 DEF IndInv, TransformInv
<1>12. EndInv'
  BY <1>1, EndStays DEF IndInv, PhaseInv
<1> QED BY <1>1, <1>6, <1>7, <1>8, <1>9, <1>10, <1>11, <1>12, StatsStays DEF IndInv

LEMMA SortLambdasInv == ASSUME IndInv, SortLambdas PROVE IndInv'
<1>1. /\ pc = "lambdas" /\ UNCHANGED <<input, stats, choice, index>>
      /\ file' = [file EXCEPT !.sorted = TRUE] /\ ended = "not" /\ index = <<>>
      /\ file.exists
  BY DEF SortLambdas, IndInv, PhaseInv
<1>2. /\ file \in [exists : BOOLEAN, sorted : BOOLEAN, points : Seq(Points)]
      /\ Rooted(file.points)
  BY <1>1 DEF IndInv, FileInv
<1>3. /\ file'.points = file.points /\ file'.sorted = TRUE /\ file'.exists = file.exists
      /\ file' \in [exists : BOOLEAN, sorted : BOOLEAN, points : Seq(Points)]
  <2>1. PICK e \in BOOLEAN, s \in BOOLEAN, p \in Seq(Points) :
          file = [exists |-> e, sorted |-> s, points |-> p]
    BY <1>2
  <2>2. file' = [exists |-> e, sorted |-> TRUE, points |-> p]
    BY <1>1, <2>1
  <2> QED BY <2>1, <2>2
<1>4. FileInv' /\ file'.sorted
  <2>1. Points' = Points
    BY <1>1, SameInput
  <2>2. Rooted(file'.points)
    BY <1>2, <1>3
  <2>3. pc' # "lambdas"
    BY DEF SortLambdas, End
  <2>4. file'.exists
    BY <1>1, <1>3
  <2> QED BY <1>3, <2>1, <2>2, <2>3, <2>4 DEF FileInv, Rooted
<1>5. CASE Len(committed) < added
  <2>1. pc' = "over" /\ ended' = "terminates" /\ UNCHANGED <<unread, queue>>
        /\ (Len(committed) = added \/ input.handed_over)
    BY <1>5 DEF SortLambdas, End, Completes
  <2>2. input.handed_over
    <3>1. Len(committed) \in Nat
      BY LenProperties DEF IndInv, QueueInv
    <3> QED BY <1>5, <2>1, <3>1
  <2>3. PhaseInv'
    BY <1>1, <1>3, <2>1 DEF PhaseInv
  <2>4. ChoiceInv'
    <3>1. Points' = Points /\ Codings' = Codings /\ NumSides' = NumSides
      BY <1>1, SameInput
    <3> QED BY <1>1, <1>3, <2>1, <3>1 DEF IndInv, ChoiceInv
  <2>5. StatsInv' /\ LambdasInv'
    BY <2>1 DEF StatsInv, LambdasInv
  <2>6. EndInv'
    BY <1>1, <2>1, <2>2 DEF EndInv
  <2> QED BY <1>1, <1>4, <2>1, <2>3, <2>4, <2>5, <2>6, QueueStays, TransformStays
             DEF IndInv
<1>6. CASE ~(Len(committed) < added)
  <2>1. pc' = "greedy" /\ ended' = ended /\ unread' = file.points /\ Reset
    BY <1>6 DEF SortLambdas
  <2>2. QueueInv' /\ added' = 0 /\ prepared' = {} /\ committed' = <<>>
    BY <1>1, <2>1, ResetQueue DEF IndInv
  <2>3. PhaseInv'
    BY <1>1, <1>3, <2>1, <2>2 DEF PhaseInv
  <2>4. ChoiceInv'
    <3>1. Points' = Points /\ Codings' = Codings /\ NumSides' = NumSides
      BY <1>1, SameInput
    <3>2. choice' \in [1 .. NumSides -> Coding] /\ unread' \in Seq(Points)
      BY <1>1, <1>2, <2>1 DEF IndInv, ChoiceInv
    <3>3. ASSUME NEW k \in DOMAIN file'.points
          PROVE  \E i \in DOMAIN unread' :
                    unread'[i].block_id = file'.points[k].block_id /\ unread'[i].lambda = Zero
      BY <1>2, <1>3, <2>1 DEF Rooted, Range
    <3> QED BY <1>1, <2>1, <3>1, <3>2, <3>3 DEF ChoiceInv
  <2>5. StatsInv' /\ LambdasInv'
    BY <2>1 DEF StatsInv, LambdasInv
  <2>6. EndInv'
    BY <1>1, <2>1 DEF EndInv
  <2>7. TransformInv'
    <3>1. \A i : Base(i)' = Base(i) /\ TypesOf(i, Base(i))' = TypesOf(i, Base(i))
      BY <1>1, SameInput, SameTypes
    <3> QED BY <1>1, <2>1, <3>1 DEF IndInv, TransformInv
  <2> QED BY <1>1, <1>4, <2>2, <2>3, <2>4, <2>5, <2>6, <2>7 DEF IndInv
<1> QED BY <1>5, <1>6

LEMMA KillInv == ASSUME IndInv, Kill PROVE IndInv'
<1>1. /\ pc = "lambdas" /\ pc' = "over" /\ ended' = "killed"
      /\ UNCHANGED <<input, stats, queue, greedy, index>>
      /\ file.exists /\ index = <<>>
  BY DEF Kill, End, IndInv, PhaseInv
<1>2. UNCHANGED <<jobs, added, prepared, committed, unread, choice>>
  BY <1>1 DEF queue, greedy
<1>3. PICK n \in 0 .. Len(file.points) :
        file' = [file EXCEPT !.points = SubSeq(@, 1, n)]
  BY DEF Kill
<1>4. file \in [exists : BOOLEAN, sorted : BOOLEAN, points : Seq(Points)] /\ ~file.sorted
  BY <1>1 DEF IndInv, FileInv
<1>5. SubSeq(file.points, 1, n) \in Seq(Points)
  <2>1. PICK p \in Seq(Points) : p = file.points
    BY <1>4
  <2>2. \A i \in 1 .. n : i \in 1 .. Len(p)
    BY <1>3, <2>1, LenProperties
  <2>3. n \in Nat
    BY <1>3, <2>1, LenProperties
  <2> QED BY <2>1, <2>2, <2>3, SubSeqProperties
<1>6. /\ ~file'.sorted /\ file'.exists = file.exists
      /\ file' \in [exists : BOOLEAN, sorted : BOOLEAN, points : Seq(Points)]
  <2>1. PICK p \in Seq(Points) : p = SubSeq(file.points, 1, n)
    BY <1>5
  <2>2. file' = [file EXCEPT !.points = p]
    BY <1>3, <2>1
  <2> QED BY <1>4, <2>2
<1>7. Points' = Points /\ Codings' = Codings /\ NumSides' = NumSides
  BY <1>1, SameInput
<1>8. FileInv'
  BY <1>1, <1>6, <1>7 DEF FileInv
<1>9. PhaseInv'
  BY <1>1, <1>2, <1>6 DEF PhaseInv
<1>10. StatsInv' /\ LambdasInv' /\ EndInv'
  BY <1>1 DEF StatsInv, LambdasInv, EndInv
<1>11. ChoiceInv'
  BY <1>1, <1>2, <1>6, <1>7 DEF IndInv, ChoiceInv
<1> QED BY <1>1, <1>2, <1>8, <1>9, <1>10, <1>11, QueueStays, TransformStays DEF IndInv

LEMMA RestartInv == ASSUME IndInv, Restart PROVE IndInv'
<1>1. /\ pc = "over" /\ ended \in {"killed", "terminates"} /\ pc' = "start" /\ ended' = "not"
      /\ Reset /\ stats' \in NewStats' /\ unread' = <<>> /\ index' = <<>>
      /\ choice' = [b \in 1 .. NumSides |-> NoCoding]
      /\ UNCHANGED <<input, file>>
  BY SameInput DEF Restart, NewStats
<1>2. input \in Inputs /\ file.exists
  BY <1>1 DEF IndInv, PhaseInv
<1>3. QueueInv' /\ added' = 0 /\ prepared' = {} /\ committed' = <<>>
  BY <1>1, <1>2, ResetQueue
<1>4. PhaseInv'
  BY <1>1, <1>2, <1>3 DEF PhaseInv
<1>5. StatsInv'
  <2>1. NewStats' = NewStats /\ StatsType' = StatsType
    BY <1>1, SameInput DEF NewStats, StatsType
  <2>2. stats'.line = 0 /\ stats'.consumed = TRUE /\ stats' \in StatsType
    BY <1>1, <1>2, <2>1, NewStatsType
  <2>3. \A k \in DOMAIN input.stats : ~(k <= 0) /\ ~(input.stats[k].list <= 0)
    BY <1>2, StatsFacts
  <2>4. ReadUpTo(0)'
    BY <1>1, <1>3, <2>3 DEF ReadUpTo
  <2> QED BY <1>1, <2>1, <2>2, <2>4 DEF StatsInv
<1>6. LambdasInv' /\ EndInv'
  BY <1>1 DEF LambdasInv, EndInv
<1>7. ChoiceInv'
  <2>1. Points' = Points /\ Codings' = Codings /\ NumSides' = NumSides
    BY <1>1, SameInput
  <2>2. choice' \in [1 .. NumSides -> Coding] /\ unread' \in Seq(Points)
    BY <1>1, NoCodingType
  <2> QED BY <1>1, <2>1, <2>2 DEF ChoiceInv
<1>8. TransformInv'
  <2>1. index' = [l \in 1 .. Len(index') |-> TypesOf(l, Base(l))'] /\ Len(index') = 0
    <3>1. index' = <<>> /\ 1 .. Len(index') = {}
      BY <1>1
    <3> QED BY <3>1
  <2> QED BY <1>1, <2>1 DEF TransformInv
<1> QED BY <1>1, <1>2, <1>3, <1>4, <1>5, <1>6, <1>7, <1>8, FileStays DEF IndInv
-----------------------------------------------------------------------------
(***************************************************************************)
(* The greedy loop.                                                        *)
(***************************************************************************)
LEMMA RemoveAtIs ==
  ASSUME NEW S, NEW s \in Seq(S), NEW i \in 1 .. Len(s)
  PROVE  /\ RemoveAt(s, i) \in Seq(S) /\ Len(RemoveAt(s, i)) = Len(s) - 1
         /\ \A m \in 1 .. Len(s) - 1 :
              RemoveAt(s, i)[m] = IF m < i THEN s[m] ELSE s[m + 1]
         /\ \A k \in 1 .. Len(s) : k # i =>
              \E m \in 1 .. Len(RemoveAt(s, i)) : RemoveAt(s, i)[m] = s[k]
<1>1. PICK n \in Nat : n = Len(s) /\ i \in 1 .. n
  BY LenProperties
<1>2. PICK a, b : a = SubSeq(s, 1, i - 1) /\ b = SubSeq(s, i + 1, n)
  OBVIOUS
<1>3. a \in Seq(S) /\ Len(a) = i - 1 /\ \A k \in 1 .. i - 1 : a[k] = s[k]
  <2>1. \A k \in 1 .. i - 1 : k \in 1 .. Len(s)
    BY <1>1
  <2>2. 1 \in Int /\ i - 1 \in Int /\ i - 1 - 1 + 1 \in Nat
    BY <1>1
  <2>3. /\ SubSeq(s, 1, i - 1) \in Seq(S)
        /\ Len(SubSeq(s, 1, i - 1)) = IF 1 <= i - 1 THEN i - 1 - 1 + 1 ELSE 0
        /\ \A k \in 1 .. i - 1 - 1 + 1 : SubSeq(s, 1, i - 1)[k] = s[1 + k - 1]
    BY <2>1, <2>2, SubSeqProperties
  <2> QED BY <1>1, <1>2, <2>3
<1>4. b \in Seq(S) /\ Len(b) = n - i /\ \A k \in 1 .. n - i : b[k] = s[i + k]
  <2>1. \A k \in i + 1 .. n : k \in 1 .. Len(s)
    BY <1>1
  <2>2. i + 1 \in Int /\ n \in Int
    BY <1>1
  <2>3. /\ SubSeq(s, i + 1, n) \in Seq(S)
        /\ Len(SubSeq(s, i + 1, n)) = IF i + 1 <= n THEN n - (i + 1) + 1 ELSE 0
        /\ \A k \in 1 .. n - (i + 1) + 1 : SubSeq(s, i + 1, n)[k] = s[i + 1 + k - 1]
    BY <2>1, <2>2, SubSeqProperties
  <2> QED BY <1>1, <1>2, <2>3
<1>5. RemoveAt(s, i) = a \o b
  BY <1>1, <1>2 DEF RemoveAt
<1>6. PICK r \in Seq(S) :
        /\ r = a \o b /\ Len(r) = n - 1
        /\ \A k \in 1 .. n - 1 : r[k] = IF k <= i - 1 THEN a[k] ELSE b[k - (i - 1)]
  <2>1. PICK x \in Seq(S), y \in Seq(S) :
          x = a /\ y = b /\ Len(x) = i - 1 /\ Len(y) = n - i
    BY <1>3, <1>4
  <2>2. /\ x \o y \in Seq(S) /\ Len(x \o y) = Len(x) + Len(y)
        /\ \A k \in 1 .. Len(x) + Len(y) :
             (x \o y)[k] = IF k <= Len(x) THEN x[k] ELSE y[k - Len(x)]
    BY ConcatProperties
  <2>3. Len(x) + Len(y) = n - 1
    BY <1>1, <2>1
  <2>4. PICK r \in Seq(S) : r = x \o y
    BY <2>2
  <2>5. Len(r) = n - 1 /\ \A k \in 1 .. n - 1 : r[k] = IF k <= i - 1 THEN x[k] ELSE y[k - (i - 1)]
    BY <2>1, <2>2, <2>3, <2>4
  <2> QED BY <2>1, <2>4, <2>5
<1>7. ASSUME NEW k \in 1 .. n, k # i PROVE \E m \in 1 .. n - 1 : r[m] = s[k]
  <2>1. CASE k < i
    <3>1. k \in 1 .. n - 1 /\ k <= i - 1 /\ k \in 1 .. i - 1
      BY <1>1, <2>1
    <3> QED BY <1>3, <1>6, <3>1
  <2>2. CASE k > i
    <3>1. PICK m \in 1 .. n - 1 : m = k - 1 /\ ~(m <= i - 1) /\ m - (i - 1) \in 1 .. n - i
                                  /\ i + (m - (i - 1)) = k
      BY <1>1, <2>2
    <3>2. r[m] = b[m - (i - 1)] /\ b[m - (i - 1)] = s[i + (m - (i - 1))]
      BY <1>4, <1>6, <3>1
    <3> QED BY <3>1, <3>2
  <2> QED BY <1>1, <1>7, <2>1, <2>2
<1>8. ASSUME NEW m \in 1 .. n - 1 PROVE r[m] = IF m < i THEN s[m] ELSE s[m + 1]
  <2>1. CASE m < i
    <3>1. m <= i - 1 /\ m \in 1 .. i - 1
      BY <1>1, <2>1
    <3> QED BY <1>3, <1>6, <2>1, <3>1
  <2>2. CASE ~(m < i)
    <3>1. ~(m <= i - 1) /\ m - (i - 1) \in 1 .. n - i /\ i + (m - (i - 1)) = m + 1
      BY <1>1, <2>2
    <3>2. r[m] = b[m - (i - 1)] /\ b[m - (i - 1)] = s[i + (m - (i - 1))]
      BY <1>4, <1>6, <3>1
    <3> QED BY <2>2, <3>1, <3>2
  <2> QED BY <2>1, <2>2
<1>9. RemoveAt(s, i) = r
  BY <1>5, <1>6
<1>10. Len(r) = Len(s) - 1 /\ \A m \in 1 .. Len(s) - 1 : r[m] = IF m < i THEN s[m] ELSE s[m + 1]
  BY <1>1, <1>6, <1>8
<1>11. \A k \in 1 .. Len(s) : k # i => \E m \in 1 .. Len(r) : r[m] = s[k]
  BY <1>1, <1>6, <1>7
<1> QED BY <1>9, <1>10, <1>11

(* What is left of a sequence that has nothing twice.                      *)
LEMMA RemoveAtOnce ==
  ASSUME NEW S, NEW s \in Seq(S), NEW i \in 1 .. Len(s),
         \A j, k \in DOMAIN s : j # k => s[j] # s[k]
  PROVE  /\ \A j, k \in DOMAIN RemoveAt(s, i) :
              j # k => RemoveAt(s, i)[j] # RemoveAt(s, i)[k]
         /\ Range(RemoveAt(s, i)) = Range(s) \ {s[i]}
<1>1. PICK n \in Nat : n = Len(s) /\ i \in 1 .. n /\ DOMAIN s = 1 .. n
  BY LenProperties
<1>2. PICK r \in Seq(S) : r = RemoveAt(s, i)
  BY RemoveAtIs
<1>3. /\ Len(r) = n - 1 /\ DOMAIN r = 1 .. n - 1
      /\ \A m \in 1 .. n - 1 : r[m] = IF m < i THEN s[m] ELSE s[m + 1]
      /\ \A k \in 1 .. n : k # i => \E m \in 1 .. n - 1 : r[m] = s[k]
  <2>1. /\ Len(RemoveAt(s, i)) = Len(s) - 1
        /\ \A m \in 1 .. Len(s) - 1 :
             RemoveAt(s, i)[m] = IF m < i THEN s[m] ELSE s[m + 1]
        /\ \A k \in 1 .. Len(s) : k # i =>
             \E m \in 1 .. Len(RemoveAt(s, i)) : RemoveAt(s, i)[m] = s[k]
    BY RemoveAtIs
  <2>2. Len(r) = n - 1
    BY <1>1, <1>2, <2>1
  <2>3. DOMAIN r = 1 .. n - 1
    BY <2>2, LenProperties
  <2>4. \A m \in 1 .. n - 1 : r[m] = IF m < i THEN s[m] ELSE s[m + 1]
    BY <1>1, <1>2, <2>1
  <2>5. \A k \in 1 .. n : k # i => \E m \in 1 .. n - 1 : r[m] = s[k]
    BY <1>1, <1>2, <2>1, <2>2
  <2> QED BY <2>2, <2>3, <2>4, <2>5
<1> DEFINE at(m) == IF m < i THEN m ELSE m + 1
<1>4. \A m \in 1 .. n - 1 : r[m] = s[at(m)] /\ at(m) \in 1 .. n /\ at(m) # i
  BY <1>1, <1>3
<1>5. \A j, k \in 1 .. n - 1 : j # k => at(j) # at(k)
  BY <1>1
<1> HIDE DEF at
<1>6. \A j, k \in DOMAIN r : j # k => r[j] # r[k]
  <2>1. SUFFICES ASSUME NEW j \in 1 .. n - 1, NEW k \in 1 .. n - 1, j # k
                 PROVE  r[j] # r[k]
    BY <1>3
  <2>2. /\ r[j] = s[at(j)] /\ r[k] = s[at(k)] /\ at(j) # at(k)
        /\ at(j) \in DOMAIN s /\ at(k) \in DOMAIN s
    BY <1>1, <1>4, <1>5, <2>1
  <2> QED BY <2>2
<1>7. Range(r) = Range(s) \ {s[i]}
  <2>1. ASSUME NEW m \in 1 .. n - 1 PROVE r[m] \in Range(s) /\ r[m] # s[i]
    <3>1. r[m] = s[at(m)] /\ at(m) \in DOMAIN s /\ at(m) # i /\ i \in DOMAIN s
      BY <1>1, <1>4
    <3> QED BY <3>1 DEF Range
  <2>2. ASSUME NEW k \in 1 .. n, s[k] # s[i] PROVE s[k] \in Range(r)
    <3>1. PICK m \in 1 .. n - 1 : r[m] = s[k]
      BY <1>3, <2>2
    <3>2. m \in DOMAIN r
      BY <1>3
    <3> QED BY <3>1, <3>2 DEF Range
  <2>3. /\ Range(r) = {r[m] : m \in 1 .. n - 1}
        /\ Range(s) = {s[k] : k \in 1 .. n}
    BY <1>1, <1>3 DEF Range
  <2> QED BY <2>1, <2>2, <2>3
<1> QED BY <1>2, <1>6, <1>7

(* A point that costs something is only read from a sorted file when all   *)
(* the smallest codings have been.                                         *)
LEMMA RootsFirst ==
  ASSUME unread \in Seq(Points), file.sorted, NEW i \in DOMAIN unread,
         i \in NextPoints, unread[i].lambda.num # 0
  PROVE  \A k \in DOMAIN unread : unread[k].lambda # Zero
<1>1. SUFFICES ASSUME NEW k \in DOMAIN unread, unread[k].lambda = Zero PROVE FALSE
  OBVIOUS
<1>2. ~Below(unread[k].lambda, unread[i].lambda)
  BY <1>1 DEF NextPoints
<1>3. unread[i].lambda \in [num : Nat, den : Int]
  <2>1. unread[i] \in Points
    BY ElementOfSeq, LenProperties
  <2> QED BY <2>1 DEF Points
<1>4. PICK n \in Nat, d \in Int : unread[i].lambda = [num |-> n, den |-> d] /\ n # 0
  BY <1>3
<1>5. Below(Zero, [num |-> n, den |-> d])
  <2>1. 0 * d = 0 /\ n * 1 = n /\ 0 < n
    BY <1>4
  <2> QED BY <2>1 DEF Below, Zero
<1> QED BY <1>1, <1>2, <1>4, <1>5

LEMMA ReadPointInv ==
  ASSUME IndInv, NEW i \in DOMAIN unread, ReadPoint(i) PROVE IndInv'
<1> DEFINE point == unread[i]
<1>1. /\ pc = "greedy" /\ i \in NextPoints
      /\ unread' = RemoveAt(unread, i)
      /\ choice' = [choice EXCEPT ![point.block_id] = point.st]
      /\ UNCHANGED <<input, restarted, file, stats, queue, index>>
      /\ index = <<>> /\ ended = "not" /\ file.exists
      /\ added = 0 /\ prepared = {} /\ committed = <<>>
  BY DEF ReadPoint, IndInv, PhaseInv
<1>2. UNCHANGED <<jobs, added, prepared, committed>>
  BY <1>1 DEF queue
<1>3. /\ choice \in [1 .. NumSides -> Coding] /\ unread \in Seq(Points)
      /\ file.sorted =>
           \A k \in DOMAIN file.points : LET b == file.points[k].block_id IN
             \/ choice[b] \in Codings[b]
             \/ \E m \in DOMAIN unread :
                  unread[m].block_id = b /\ unread[m].lambda = Zero
  BY <1>1 DEF IndInv, ChoiceInv
<1>4. \/ pc' = "greedy" /\ ended' = "not"
      \/ pc' = "transform" /\ ended' = "not" /\ point.lambda.num # 0
      \/ /\ pc' = "over" /\ ended' = "undefined"
         /\ input.budget = 0 /\ NumSides \div Samples = 0
  BY <1>1 DEF ReadPoint, End
<1>5. point \in Points /\ i \in 1 .. Len(unread)
  BY <1>3, ElementOfSeq, LenProperties
<1>6. PICK b \in 1 .. NumSides, st \in Coding :
        b = point.block_id /\ st = point.st /\ st \in Codings[b]
  BY <1>5 DEF Points
<1>7. /\ choice' \in [1 .. NumSides -> Coding]
      /\ choice'[b] \in Codings[b]
      /\ \A c \in 1 .. NumSides : c # b => choice'[c] = choice[c]
  BY <1>1, <1>3, <1>6
<1>8. /\ unread' \in Seq(Points)
      /\ \A k \in DOMAIN unread : k # i => \E m \in DOMAIN unread' : unread'[m] = unread[k]
  <2>1. /\ RemoveAt(unread, i) \in Seq(Points)
        /\ \A k \in 1 .. Len(unread) : k # i =>
             \E m \in 1 .. Len(RemoveAt(unread, i)) : RemoveAt(unread, i)[m] = unread[k]
    BY <1>3, <1>5, RemoveAtIs
  <2>2. PICK u \in Seq(Points) : u = unread'
    BY <1>1, <2>1
  <2>3. \A k \in 1 .. Len(unread) : k # i => \E m \in 1 .. Len(u) : u[m] = unread[k]
    BY <1>1, <2>1, <2>2
  <2>4. DOMAIN u = 1 .. Len(u) /\ DOMAIN unread = 1 .. Len(unread)
    BY <1>3, LenProperties
  <2> QED BY <2>2, <2>3, <2>4
<1>9. Points' = Points /\ Codings' = Codings /\ NumSides' = NumSides
      /\ \A l : Base(l)' = Base(l)
  BY <1>1, SameInput
<1>10. \A k \in DOMAIN file.points : file.points[k].block_id \in 1 .. NumSides
  <2>1. file.points \in Seq(Points)
    BY DEF IndInv, FileInv
  <2>2. ASSUME NEW k \in DOMAIN file.points PROVE file.points[k] \in Points
    BY <2>1, ElementOfSeq, LenProperties
  <2> QED BY <2>2 DEF Points
<1>11. ChoiceInv'
  <2>1. ASSUME file.sorted, NEW k \in DOMAIN file.points, pc' = "greedy",
               NEW c, c = file.points[k].block_id
        PROVE  \/ choice'[c] \in Codings[c]
               \/ \E m \in DOMAIN unread' :
                    unread'[m].block_id = c /\ unread'[m].lambda = Zero
    <3>1. CASE c = b
      BY <1>7, <3>1
    <3>2. CASE c # b
      <4>1. choice'[c] = choice[c]
        BY <1>7, <1>10, <2>1, <3>2
      <4>2. CASE choice[c] \in Codings[c]
        BY <4>1, <4>2
      <4>3. CASE choice[c] \notin Codings[c]
        <5>1. PICK m \in DOMAIN unread : unread[m].block_id = c /\ unread[m].lambda = Zero
          BY <1>3, <2>1, <4>3
        <5>2. m # i
          BY <1>6, <3>2, <5>1
        <5> QED BY <1>8, <5>1, <5>2
      <4> QED BY <4>2, <4>3
    <3> QED BY <3>1, <3>2
  <2>2. ASSUME file.sorted, NEW k \in DOMAIN file.points, pc' = "transform",
               NEW c, c = file.points[k].block_id
        PROVE  choice'[c] \in Codings[c]
    <3>1. \A m \in DOMAIN unread : unread[m].lambda # Zero
      BY <1>1, <1>3, <1>4, <2>2, RootsFirst
    <3>2. choice[c] \in Codings[c]
      BY <1>3, <2>2, <3>1
    <3> QED BY <1>7, <1>10, <2>2, <3>2
  <2>3. ended' \notin {"built", "throws"}
    BY <1>4
  <2> HIDE DEF point
  <2> QED BY <1>1, <1>7, <1>8, <1>9, <2>1, <2>2, <2>3 DEF ChoiceInv
<1>12. PhaseInv'
  BY <1>1, <1>2, <1>4 DEF PhaseInv
<1>13. StatsInv' /\ LambdasInv'
  BY <1>4 DEF StatsInv, LambdasInv
<1>14. FileInv'
  BY <1>1, <1>4, FileStays DEF IndInv
<1>15. TransformInv'
  <2>1. index' = <<>> /\ committed' = <<>> /\ added' = 0 /\ prepared' = {}
    BY <1>1, <1>2
  <2>2. Len(index') = 0 /\ Len(committed') = 0 /\ 1 .. 0 = {}
    BY <2>1
  <2>3. index' = [l \in 1 .. Len(index') |-> TypesOf(l, Base(l))']
    BY <2>1, <2>2
  <2> QED BY <2>1, <2>2, <2>3 DEF TransformInv
<1>16. EndInv'
  <2>1. CASE ended' = "undefined"
    <3>1. PICK n \in Nat : n = NumSides /\ n \div Samples = 0
      BY <1>4, <2>1, CodingsAt DEF IndInv
    <3>2. n < Samples
      BY <3>1, HybridAssumption
    <3> QED BY <1>1, <1>4, <1>9, <2>1, <3>1, <3>2 DEF EndInv
  <2>2. CASE ended' = "not"
    BY <2>2 DEF EndInv
  <2> QED BY <1>4, <2>1, <2>2
<1> QED BY <1>1, <1>2, <1>11, <1>12, <1>13, <1>14, <1>15, <1>16, QueueStays DEF IndInv

LEMMA AllReadInv == ASSUME IndInv, AllRead PROVE IndInv'
<1>1. /\ pc = "greedy" /\ unread = <<>>
      /\ UNCHANGED <<input, file, stats, queue, greedy, index>>
      /\ index = <<>> /\ ended = "not" /\ file.exists
      /\ added = 0 /\ prepared = {} /\ committed = <<>>
  BY DEF AllRead, IndInv, PhaseInv
<1>2. UNCHANGED <<jobs, added, prepared, committed, unread, choice>>
  BY <1>1 DEF queue, greedy
<1>3. \/ pc' = "over" /\ ended' = "reported"
      \/ pc' = "transform" /\ ended' = "not"
  BY <1>1 DEF AllRead, End
<1>4. PhaseInv'
  BY <1>1, <1>2, <1>3 DEF PhaseInv
<1>5. StatsInv' /\ LambdasInv' /\ EndInv'
  BY <1>3 DEF StatsInv, LambdasInv, EndInv
<1>6. ChoiceInv'
  <2>1. Points' = Points /\ Codings' = Codings /\ NumSides' = NumSides
    BY <1>1, SameInput
  <2>2. DOMAIN unread = {}
    BY <1>1
  <2> QED BY <1>1, <1>2, <1>3, <2>1, <2>2 DEF IndInv, ChoiceInv
<1>7. TransformInv'
  <2>1. index' = <<>> /\ committed' = <<>> /\ added' = 0 /\ prepared' = {}
    BY <1>1, <1>2
  <2>2. Len(index') = 0 /\ Len(committed') = 0 /\ 1 .. 0 = {}
    BY <2>1
  <2>3. index' = [l \in 1 .. Len(index') |-> TypesOf(l, Base(l))']
    BY <2>1, <2>2
  <2> QED BY <2>1, <2>2, <2>3 DEF TransformInv
<1> QED BY <1>1, <1>3, <1>4, <1>5, <1>6, <1>7, QueueStays, FileStays DEF IndInv

-----------------------------------------------------------------------------
(***************************************************************************)
(* The jobs that transform the lists.  One that throws has a side that is  *)
(* in no coding of its own, and no such side is in a whole file.           *)
(***************************************************************************)
LEMMA ThrowsUnlessWhole ==
  ASSUME IndInv, pc = "transform", NEW l \in 1 .. NumLists,
         ~Encodable(l, TypesOf(l, Base(l)))
  PROVE  ~Whole
<1>1. input \in Inputs
  BY DEF IndInv
<1>2. PICK n \in Nat : n = 2 * NumBlocks(l)
  BY <1>1, InputFacts
<1>3. PICK s \in 1 .. n : /\ ~FullSide(Lists[l].size, s)
                          /\ choice[Base(l) + s].type # "interpolative"
  BY <1>2 DEF Encodable, TypesOf
<1>4. PICK b \in 1 .. NumSides : b = Base(l) + s /\
          Codings[b] = Timed(Lists[l].codings[s], Accesses(l, s))
  BY <1>1, <1>2, CodingsAt
<1>5. \A c \in Codings[b] : c.type = "interpolative"
  <2>1. /\ Lists[l].codings[s] \in SUBSET Coding /\ IsFiniteSet(Lists[l].codings[s])
        /\ \A c \in Lists[l].codings[s] : c.type = "interpolative"
    BY <1>1, <1>2, <1>3, InputFacts
  <2>2. Accesses(l, s) \in Nat
    BY <1>1, <1>2, AccessesAre
  <2> QED BY <1>4, <2>1, <2>2, TimedType
<1>6. ASSUME Whole PROVE FALSE
  <2>1. file.sorted /\ \E k \in DOMAIN file.points : file.points[k].block_id = b
    BY <1>6 DEF Whole
  <2>2. choice[b] \in Codings[b]
    BY <2>1 DEF IndInv, ChoiceInv
  <2> QED BY <1>3, <1>4, <1>5, <2>2
<1> QED BY <1>6

LEMMA IndexGrows ==
  ASSUME IndInv, pc = "transform", UNCHANGED <<input, choice>>, NEW l,
         l = Len(index) + 1, index' = Append(index, TypesOf(l, Base(l)))
  PROVE  /\ index' = [i \in 1 .. Len(index') |-> TypesOf(i, Base(i))']
         /\ Len(index') = Len(index) + 1 /\ Len(index) \in Nat
<1>1. PICK n \in Nat : n = Len(index)
  BY DEF IndInv, TransformInv
<1>2. index = [i \in 1 .. n |-> index[i]] /\ \A i \in 1 .. n : index[i] = TypesOf(i, Base(i))
  <2>1. index = [i \in 1 .. n |-> TypesOf(i, Base(i))]
    BY <1>1 DEF IndInv, TransformInv
  <2> QED BY <2>1
<1>3. \A i : TypesOf(i, Base(i))' = TypesOf(i, Base(i))
  BY SameTypes
<1>4. PICK types : types = TypesOf(l, Base(l))
  OBVIOUS
<1>5. /\ Len(Append(index, types)) = n + 1
      /\ Append(index, types) = [i \in 1 .. n + 1 |-> Append(index, types)[i]]
      /\ \A i \in 1 .. n : Append(index, types)[i] = index[i]
      /\ Append(index, types)[n + 1] = types
  BY <1>2, AppendAt
<1>6. PICK after : after = index' /\ after = Append(index, types)
  BY <1>4
<1>7. /\ after = [i \in 1 .. n + 1 |-> after[i]] /\ Len(after) = n + 1
      /\ \A i \in 1 .. n : after[i] = index[i]
      /\ after[n + 1] = types
  BY <1>5, <1>6
<1>8. ASSUME NEW i \in 1 .. n + 1 PROVE after[i] = TypesOf(i, Base(i))'
  <2>1. CASE i \in 1 .. n
    BY <1>2, <1>3, <1>7, <2>1
  <2>2. CASE i = n + 1
    <3>1. i = l
      BY <1>1, <2>2
    <3>2. TypesOf(i, Base(i))' = types
      BY <1>3, <1>4, <3>1
    <3>3. after[i] = types
      BY <1>7, <2>2
    <3> QED BY <3>2, <3>3, Zenon
  <2> QED BY <2>1, <2>2
<1>9. after = [i \in 1 .. n + 1 |-> TypesOf(i, Base(i))']
  BY <1>7, <1>8
<1> QED BY <1>1, <1>6, <1>7, <1>9

LEMMA AddTransformerInv == ASSUME IndInv, AddTransformer PROVE IndInv'
<1> DEFINE l == added + 1
           job == [base |-> Base(l), types |-> <<>>]
<1>1. /\ pc = "transform" /\ l <= NumLists /\ ended = "not"
      /\ jobs' = Append(jobs, job) /\ file.exists
      /\ UNCHANGED <<input, restarted, file, stats, greedy>>
  BY DEF AddTransformer, IndInv, PhaseInv
<1>2. UNCHANGED <<unread, choice>>
  BY <1>1 DEF greedy
<1>3. added \in Nat /\ l \in 1 .. NumLists /\ Len(committed) \in Nat
      /\ committed \in Seq(Nat) /\ Len(committed) <= added /\ prepared \subseteq 1 .. added
      /\ jobs = [j \in 1 .. added |-> jobs[j]]
  BY <1>1, InputFacts, LenProperties DEF IndInv, QueueInv
<1>4. /\ added' = l
      /\ \/ prepared' = prepared /\ committed' = committed /\ UNCHANGED <<pc, ended, index>>
         \/ /\ prepared' = prepared \cup {l} /\ committed' = Append(committed, l)
            /\ Len(committed) = added
            /\ IF Encodable(l, TypesOf(l, Base(l)))
               THEN index' = Append(index, TypesOf(l, Base(l))) /\ UNCHANGED <<pc, ended>>
               ELSE pc' = "over" /\ ended' = "throws" /\ UNCHANGED index
  BY <1>1 DEF AddTransformer, Jobs!Add, Jobs!AddAndRun, End
<1>5. /\ jobs' = [j \in 1 .. l |-> jobs'[j]]
      /\ \A j \in 1 .. added : jobs'[j] = jobs[j]
      /\ jobs'[l] = job
  <2> HIDE DEF job
  <2>1. /\ Append(jobs, job) = [i \in 1 .. added + 1 |-> Append(jobs, job)[i]]
        /\ \A i \in 1 .. added : Append(jobs, job)[i] = jobs[i]
        /\ Append(jobs, job)[added + 1] = job
    BY <1>3, AppendAt
  <2> QED BY <1>1, <2>1
<1>6. Append(committed, l) \in Seq(Nat) /\ Len(Append(committed, l)) = Len(committed) + 1
  BY <1>3, AppendProperties
<1>7. /\ prepared' \subseteq 1 .. l /\ committed' \in Seq(Nat) /\ Len(committed') <= l
      /\ \A j \in prepared' : j > Len(committed') => j \in prepared /\ j > Len(committed)
  <2>1. CASE prepared' = prepared /\ committed' = committed
    BY <1>3, <2>1
  <2>2. CASE prepared' = prepared \cup {l} /\ committed' = Append(committed, l)
             /\ Len(committed) = added
    <3>1. \A j \in prepared' : ~(j > l)
      BY <1>3, <2>2
    <3> QED BY <1>3, <1>6, <2>2, <3>1
  <2> QED BY <1>4, <2>1, <2>2
<1>8. QueueInv'
  <2>1. NumLists' = NumLists
    BY <1>1, SameInput
  <2> QED BY <1>3, <1>4, <1>5, <1>7, <2>1 DEF QueueInv
<1>9. \/ pc' = "transform" /\ ended' = "not"
      \/ pc' = "over" /\ ended' = "throws" /\ UNCHANGED index
         /\ ~Encodable(l, TypesOf(l, Base(l)))
  BY <1>1, <1>4
<1>10. PhaseInv' /\ StatsInv' /\ LambdasInv'
  BY <1>1, <1>9 DEF PhaseInv, StatsInv, LambdasInv
<1>11. FileInv'
  BY <1>1, <1>9, FileStays DEF IndInv
<1>12. ChoiceInv'
  BY <1>1, <1>2, <1>9, ChoiceStays DEF IndInv
<1>13. index' = [i \in 1 .. Len(index') |-> TypesOf(i, Base(i))'] /\ Len(index') \in Nat
       /\ (pc' = "transform" => Len(index') = Len(committed'))
  <2>1. Len(index) = Len(committed) /\ Len(index) \in Nat
        /\ index = [i \in 1 .. Len(index) |-> TypesOf(i, Base(i))]
    BY <1>1 DEF IndInv, TransformInv
  <2>2. \A i : TypesOf(i, Base(i))' = TypesOf(i, Base(i))
    BY <1>1, <1>2, SameTypes
  <2>3. CASE UNCHANGED <<committed, index>>
    BY <2>1, <2>2, <2>3
  <2>4. CASE pc' = "over" /\ UNCHANGED index
    BY <2>1, <2>2, <2>4
  <2>5. CASE /\ index' = Append(index, TypesOf(l, Base(l)))
             /\ committed' = Append(committed, l) /\ Len(committed) = added
    <3>1. l = Len(index) + 1
      BY <2>1, <2>5
    <3>2. /\ index' = [i \in 1 .. Len(index') |-> TypesOf(i, Base(i))']
          /\ Len(index') = Len(index) + 1
      <4> HIDE DEF l
      <4> QED BY <1>1, <1>2, <2>5, <3>1, IndexGrows
    <3>3. Len(committed') = Len(committed) + 1
      BY <1>6, <2>5
    <3>4. Len(index') \in Nat /\ Len(index') = Len(committed')
      <4> HIDE DEF l
      <4> QED BY <2>1, <3>2, <3>3
    <3> QED BY <3>2, <3>4, Zenon
  <2> QED BY <1>4, <2>3, <2>4, <2>5
<1>14. TransformInv'
  <2>1. \A j : Base(j)' = Base(j) /\ TypesOf(j, Base(j))' = TypesOf(j, Base(j))
    BY <1>1, <1>2, SameInput, SameTypes
  <2>2. ASSUME NEW j \in 1 .. added'
        PROVE  jobs'[j] = [base |-> Base(j), types |-> jobs'[j].types]
    <3>1. CASE j \in 1 .. added
      BY <1>1, <1>5, <3>1 DEF IndInv, TransformInv
    <3>2. CASE j = l
      BY <1>5, <3>2
    <3> QED BY <1>3, <1>4, <3>1, <3>2
  <2>3. ASSUME NEW j \in prepared', j > Len(committed')
        PROVE  jobs'[j].types = TypesOf(j, Base(j))
    <3>1. j \in prepared /\ j > Len(committed) /\ j \in 1 .. added
      BY <1>3, <1>7, <2>3
    <3> QED BY <1>1, <1>5, <3>1 DEF IndInv, TransformInv
  <2> HIDE DEF l, job
  <2> QED BY <1>13, <2>1, <2>2, <2>3 DEF TransformInv
<1>15. EndInv'
  <2>1. CASE ended' = "not"
    BY <2>1 DEF EndInv
  <2>2. CASE ended' = "throws"
    <3>1. ~Whole
      BY <1>1, <1>3, <1>9, <2>2, ThrowsUnlessWhole
    <3>2. NumSides' = NumSides
      BY <1>1, SameInput
    <3>3. ~Whole'
      BY <1>1, <3>1, <3>2 DEF Whole
    <3> QED BY <2>2, <3>3 DEF EndInv
  <2> QED BY <1>9, <2>1, <2>2
<1> QED BY <1>1, <1>8, <1>10, <1>11, <1>12, <1>14, <1>15 DEF IndInv

LEMMA PrepareTransformerInv ==
  ASSUME IndInv, NEW j \in 1 .. added, PrepareTransformer(j) PROVE IndInv'
<1>1. /\ pc = "transform" /\ UNCHANGED <<input, file, stats, greedy, index>>
      /\ prepared' = prepared \cup {j} /\ UNCHANGED <<added, committed>>
      /\ jobs' = [jobs EXCEPT ![j].types = TypesOf(j, jobs[j].base)]
      /\ ended = "not" /\ file.exists
  BY DEF PrepareTransformer, Jobs!Prepare, IndInv, PhaseInv
<1>2. UNCHANGED <<unread, choice>>
  BY <1>1 DEF greedy
<1>3. /\ jobs[j] = [base |-> Base(j), types |-> jobs[j].types]
      /\ jobs = [i \in 1 .. added |-> jobs[i]]
  BY <1>1 DEF IndInv, TransformInv, QueueInv
<1>4. PICK types : types = TypesOf(j, Base(j)) /\ jobs[j].base = Base(j)
  BY <1>3
<1>5. /\ jobs' = [i \in 1 .. added |-> jobs'[i]]
      /\ \A i \in 1 .. added : i # j => jobs'[i] = jobs[i]
      /\ jobs'[j] = [base |-> Base(j), types |-> types]
  <2>1. jobs' = [jobs EXCEPT ![j].types = types]
    BY <1>1, <1>4
  <2>2. /\ jobs' = [i \in 1 .. added |-> jobs'[i]]
        /\ \A i \in 1 .. added : i # j => jobs'[i] = jobs[i]
        /\ jobs'[j] = [jobs[j] EXCEPT !.types = types]
    BY <1>3, <2>1
  <2>3. PICK base, old : base = Base(j) /\ jobs[j] = [base |-> base, types |-> old]
    BY <1>3
  <2>4. jobs'[j] = [base |-> base, types |-> types]
    BY <2>2, <2>3
  <2> QED BY <2>2, <2>3, <2>4
<1>6. \/ pc' = "transform" /\ ended' = "not"
      \/ pc' = "over" /\ ended' = "throws" /\ ~Encodable(j, types)
  BY <1>1, <1>4 DEF PrepareTransformer, End
<1>7. added \in 0 .. NumLists /\ prepared \subseteq 1 .. added /\ j \in 1 .. NumLists
  BY InputFacts DEF IndInv, QueueInv
<1>8. QueueInv'
  <2>1. NumLists' = NumLists
    BY <1>1, SameInput
  <2> QED BY <1>1, <1>5, <2>1 DEF IndInv, QueueInv
<1>9. PhaseInv' /\ StatsInv' /\ LambdasInv'
  BY <1>1, <1>6 DEF PhaseInv, StatsInv, LambdasInv
<1>10. FileInv' /\ ChoiceInv'
  BY <1>1, <1>2, <1>6, FileStays, ChoiceStays DEF IndInv
<1>11. TransformInv'
  <2>1. \A i : Base(i)' = Base(i) /\ TypesOf(i, Base(i))' = TypesOf(i, Base(i))
    BY <1>1, <1>2, SameInput, SameTypes
  <2>2. ASSUME NEW i \in 1 .. added
        PROVE  jobs'[i] = [base |-> Base(i), types |-> jobs'[i].types]
    <3>1. CASE i = j
      BY <1>5, <3>1
    <3>2. CASE i # j
      BY <1>1, <1>5, <3>2 DEF IndInv, TransformInv
    <3> QED BY <3>1, <3>2
  <2>3. ASSUME NEW i \in prepared', i > Len(committed')
        PROVE  jobs'[i].types = TypesOf(i, Base(i))
    <3>1. CASE i = j
      BY <1>4, <1>5, <3>1
    <3>2. CASE i # j
      BY <1>1, <1>5, <1>7, <2>3, <3>2 DEF IndInv, TransformInv
    <3> QED BY <3>1, <3>2
  <2> QED BY <1>1, <2>1, <2>2, <2>3 DEF IndInv, TransformInv
<1>12. EndInv'
  <2>1. CASE ended' = "not"
    BY <2>1 DEF EndInv
  <2>2. CASE ended' = "throws"
    <3>1. ~Whole
      BY <1>1, <1>4, <1>6, <1>7, <2>2, ThrowsUnlessWhole
    <3>2. NumSides' = NumSides
      BY <1>1, SameInput
    <3>3. ~Whole'
      BY <1>1, <3>1, <3>2 DEF Whole
    <3> QED BY <2>2, <3>3 DEF EndInv
  <2> QED BY <1>6, <2>1, <2>2
<1> QED BY <1>1, <1>8, <1>9, <1>10, <1>11, <1>12 DEF IndInv

LEMMA CommitTransformerInv == ASSUME IndInv, CommitTransformer PROVE IndInv'
<1> DEFINE j == Len(committed) + 1
<1>1. /\ pc = "transform" /\ UNCHANGED <<input, pc, ended, file, stats, jobs, greedy>>
      /\ j \in prepared /\ committed' = Append(committed, j) /\ UNCHANGED <<added, prepared>>
      /\ index' = Append(index, jobs[j].types) /\ ended = "not"
  BY DEF CommitTransformer, Jobs!Commit, IndInv, PhaseInv
<1>2. UNCHANGED <<unread, choice>>
  BY <1>1 DEF greedy
<1>3. /\ committed \in Seq(Nat) /\ Len(committed) \in Nat /\ prepared \subseteq 1 .. added
      /\ added \in 0 .. NumLists
  BY LenProperties DEF IndInv, QueueInv
<1>4. committed' \in Seq(Nat) /\ Len(committed') = j
  BY <1>1, <1>3, AppendProperties
<1>5. jobs[j].types = TypesOf(j, Base(j)) /\ j = Len(index) + 1
  <2>1. j > Len(committed)
    BY <1>3
  <2> QED BY <1>1, <2>1 DEF IndInv, TransformInv
<1>6. /\ index' = [i \in 1 .. Len(index') |-> TypesOf(i, Base(i))']
      /\ Len(index') = Len(index) + 1 /\ Len(index) \in Nat
  <2>1. index' = Append(index, TypesOf(j, Base(j)))
    BY <1>1, <1>5, Zenon
  <2> HIDE DEF j
  <2> QED BY <1>1, <1>2, <1>5, <2>1, IndexGrows
<1>7. QueueInv'
  <2>1. NumLists' = NumLists
    BY <1>1, SameInput
  <2> QED BY <1>1, <1>3, <1>4, <2>1 DEF IndInv, QueueInv
<1>8. PhaseInv' /\ StatsInv' /\ LambdasInv' /\ EndInv'
  BY <1>1 DEF IndInv, PhaseInv, StatsInv, LambdasInv, EndInv
<1>9. FileInv' /\ ChoiceInv'
  BY <1>1, <1>2, FileStays, ChoiceStays DEF IndInv
<1>10. TransformInv'
  <2>1. \A i : Base(i)' = Base(i) /\ TypesOf(i, Base(i))' = TypesOf(i, Base(i))
    BY <1>1, <1>2, SameInput, SameTypes
  <2>2. \A i \in prepared : i > Len(committed') => i > Len(committed)
    BY <1>3, <1>4
  <2>3. Len(index') = Len(committed') /\ Len(index') \in Nat
    BY <1>3, <1>4, <1>5, <1>6
  <2>4. ASSUME NEW i \in 1 .. added'
        PROVE  jobs'[i] = [base |-> Base(i), types |-> jobs'[i].types]
    BY <1>1 DEF IndInv, TransformInv
  <2>5. ASSUME NEW i \in prepared', i > Len(committed')
        PROVE  jobs'[i].types = TypesOf(i, Base(i))
    BY <1>1, <2>2, <2>5 DEF IndInv, TransformInv
  <2> QED BY <1>6, <2>1, <2>3, <2>4, <2>5 DEF TransformInv
<1> QED BY <1>1, <1>7, <1>8, <1>9, <1>10 DEF IndInv

LEMMA BuildInv == ASSUME IndInv, Build PROVE IndInv'
<1>1. /\ pc = "transform" /\ ended = "not" /\ file.exists
      /\ UNCHANGED <<input, restarted, file, stats, queue, greedy, index>>
      /\ pc' = "over" /\ ended' = IF Len(committed) < added THEN "terminates" ELSE "built"
      /\ Completes
  BY DEF Build, End, IndInv, PhaseInv
<1>2. UNCHANGED <<unread, choice>>
  BY <1>1 DEF greedy
<1>3. /\ Len(committed) \in Nat /\ Len(committed) <= added /\ added \in 0 .. NumLists
      /\ Len(index) = Len(committed)
  BY <1>1, LenProperties DEF IndInv, QueueInv, TransformInv
<1>4. PhaseInv' /\ StatsInv' /\ LambdasInv'
  BY <1>1 DEF PhaseInv, StatsInv, LambdasInv
<1>5. EndInv'
  <2>1. CASE Len(committed) < added
    <3>1. input.handed_over
      BY <1>1, <1>3, <2>1 DEF Completes
    <3> QED BY <1>1, <2>1, <3>1 DEF EndInv
  <2>2. CASE ~(Len(committed) < added)
    <3>1. NumLists' = NumLists /\ NumLists \in Nat
      BY <1>1, SameInput, InputFacts DEF IndInv
    <3>2. Len(index) = NumLists
      BY <1>1, <1>3, <2>2, <3>1 DEF Completes
    <3> QED BY <1>1, <2>2, <3>1, <3>2 DEF EndInv
  <2> QED BY <2>1, <2>2
<1>6. ended' \in {"terminates", "built"}
  BY <1>1
<1> QED BY <1>1, <1>2, <1>4, <1>5, QueueStays, FileStays, ChoiceStays, TransformStays
           DEF IndInv

-----------------------------------------------------------------------------
LEMMA StepInv == IndInv /\ [Next]_vars => IndInv'
<1> SUFFICES ASSUME IndInv, [Next]_vars PROVE IndInv'
  OBVIOUS
<1>1. CASE Start \/ AddLambdas \/ CommitLambdas \/ SortLambdas \/ Kill \/ Restart
  BY <1>1, StartInv, AddLambdasInv, CommitLambdasInv, SortLambdasInv, KillInv, RestartInv
<1>2. ASSUME NEW j \in 1 .. added, PrepareLambdas(j) \/ PrepareTransformer(j) PROVE IndInv'
  BY <1>2, PrepareLambdasInv, PrepareTransformerInv
<1>3. ASSUME NEW i \in DOMAIN unread, ReadPoint(i) PROVE IndInv'
  BY <1>3, ReadPointInv
<1>4. CASE AllRead \/ AddTransformer \/ CommitTransformer \/ Build
  BY <1>4, AllReadInv, AddTransformerInv, CommitTransformerInv, BuildInv
<1>5. CASE Over \/ UNCHANGED vars
  BY <1>5, OverInv DEF Over
<1> QED BY <1>1, <1>2, <1>3, <1>4, <1>5 DEF Next

LEMMA Implied == IndInv => BuildsWhatWasChosen
<1> SUFFICES ASSUME IndInv PROVE BuildsWhatWasChosen
  OBVIOUS
<1>1. DOMAIN Codings = 1 .. NumSides /\ NumSides \in Nat
  BY CodingsAt DEF IndInv
<1>2. ASSUME NEW l \in DOMAIN index, NEW s \in 1 .. 2 * NumBlocks(l)
      PROVE  index[l][s] = choice[Base(l) + s].type
  <2>1. index = [i \in 1 .. Len(index) |-> TypesOf(i, Base(i))]
    BY DEF IndInv, TransformInv
  <2>2. index[l] = TypesOf(l, Base(l))
    BY <2>1
  <2> QED BY <2>2 DEF TypesOf
<1>3. ASSUME ended = "built", Whole, NEW b \in DOMAIN Codings PROVE choice[b] \in Codings[b]
  <2>1. file.sorted /\ \E k \in DOMAIN file.points : file.points[k].block_id = b
    BY <1>1, <1>3 DEF Whole
  <2> QED BY <1>3, <2>1 DEF IndInv, ChoiceInv
<1> QED BY <1>2, <1>3 DEF IndInv, EndInv, BuildsWhatWasChosen

(* Whatever an index is optimised, with whichever statistics, budget and   *)
(* settings, by whichever threads, killed and run again or not: the index  *)
(* that optimal_hybrid_index writes has each list in its place, each block *)
(* in the coding chosen for it; that is one of its own codings when the    *)
(* file of lambda points was whole; and a run that writes no index was     *)
(* asked for a report of a small one, found a file that was not whole, or  *)
(* was terminated by its queue.                                            *)
THEOREM WritesWhatWasChosen == Spec => []BuildsWhatWasChosen
<1>1. Spec => []IndInv
  BY InitInv, StepInv, PTL DEF Spec
<1> QED BY <1>1, Implied, PTL

-----------------------------------------------------------------------------
(***************************************************************************)
(* The sums of what is chosen: recursive functions from 0, which give the  *)
(* lengths in bytes and the totals of all ways to choose.                  *)
(***************************************************************************)
IsRecFromZero(g, n, first, step) ==
    g = [i \in 0 .. n |-> IF i = 0 THEN first ELSE step[<<i, g[i - 1]>>]]

LEMMA RecFromZero ==
  ASSUME NEW n \in Nat, NEW first, NEW step, NEW X, first \in X[0],
         \A i \in 1 .. n : \A x \in X[i - 1] : step[<<i, x>>] \in X[i]
  PROVE  \E g : IsRecFromZero(g, n, first, step) /\ \A i \in 0 .. n : g[i] \in X[i]
<1>1. PICK f : IsRec(f, n, step[<<1, first>>], step)
  BY RecExists
<1>2. PICK g : g = [i \in 0 .. n |-> IF i = 0 THEN first ELSE f[i]]
  OBVIOUS
<1>3. \A i \in 1 .. n : f[i] = IF i = 1 THEN step[<<1, first>>] ELSE step[<<i, f[i - 1]>>]
  BY <1>1 DEF IsRec
<1>4. ASSUME NEW i \in 0 .. n
      PROVE  g[i] = IF i = 0 THEN first ELSE step[<<i, g[i - 1]>>]
  <2>1. CASE i = 0
    BY <1>2, <2>1
  <2>2. CASE i = 1
    <3>1. i \in 1 .. n /\ 0 \in 0 .. n /\ i - 1 = 0 /\ i # 0
      BY <2>2
    <3>2. g[i] = f[i] /\ g[i - 1] = first /\ f[i] = step[<<i, first>>]
      BY <1>2, <1>3, <2>2, <3>1
    <3> QED BY <3>1, <3>2
  <2>3. CASE i # 0 /\ i # 1
    <3>1. i \in 1 .. n /\ i - 1 \in 0 .. n /\ i - 1 # 0
      BY <2>3
    <3> QED BY <1>2, <1>3, <2>3, <3>1
  <2> QED BY <2>1, <2>2, <2>3
<1>5. \A i \in 1 .. n : f[i] \in X[i]
  <2>1. n > 0 => step[<<1, first>>] \in X[1]
    <3> SUFFICES ASSUME n > 0 PROVE step[<<1, first>>] \in X[1]
      OBVIOUS
    <3>1. 1 \in 1 .. n /\ 1 - 1 = 0
      OBVIOUS
    <3> QED BY <3>1
  <2>2. \A i \in 2 .. n : i \in 1 .. n
    OBVIOUS
  <2> QED BY <1>1, <2>1, <2>2, RecType
<1>6. \A i \in 0 .. n : i = 0 \/ i \in 1 .. n
  OBVIOUS
<1>7. g = [i \in 0 .. n |-> IF i = 0 THEN first ELSE step[<<i, g[i - 1]>>]]
  BY <1>2, <1>4
<1> QED BY <1>2, <1>5, <1>6, <1>7 DEF IsRecFromZero

(***************************************************************************)
(* The space that no choice changes: it is a number.                       *)
(***************************************************************************)
IsPower(f, n) == f = [k \in 0 .. n |-> IF k = 0 THEN 1 ELSE 128 * f[k - 1]]

LEMMA PowerExists == ASSUME NEW n \in Nat PROVE \E f : IsPower(f, n)
<1> DEFINE step == [p \in (1 .. n) \X Nat |-> 128 * p[2]]
           X == [i \in 0 .. n |-> Nat]
<1>1. ASSUME NEW i \in 1 .. n, NEW x \in Nat PROVE step[<<i, x>>] = 128 * x
  <2>1. <<i, x>> \in (1 .. n) \X Nat
    OBVIOUS
  <2>2. \A p \in (1 .. n) \X Nat : step[p] = 128 * p[2]
    OBVIOUS
  <2> HIDE DEF step
  <2> QED BY <2>1, <2>2
<1>2. \A i \in 0 .. n : X[i] = Nat
  OBVIOUS
<1> HIDE DEF step, X
<1>3. 1 \in X[0] /\ \A i \in 1 .. n : \A x \in X[i - 1] : step[<<i, x>>] \in X[i]
  <2>1. \A i \in 1 .. n : i - 1 \in 0 .. n /\ i \in 0 .. n
    OBVIOUS
  <2> QED BY <1>1, <1>2, <2>1
<1>4. PICK g : IsRecFromZero(g, n, 1, step) /\ \A i \in 0 .. n : g[i] \in X[i]
  BY <1>3, RecFromZero
<1>5. ASSUME NEW i \in 0 .. n, i # 0 PROVE step[<<i, g[i - 1]>>] = 128 * g[i - 1]
  <2>1. i \in 1 .. n /\ i - 1 \in 0 .. n
    BY <1>5
  <2>2. g[i - 1] \in Nat
    BY <1>2, <1>4, <2>1
  <2> QED BY <1>1, <2>1, <2>2
<1>6. g = [i \in 0 .. n |-> IF i = 0 THEN 1 ELSE step[<<i, g[i - 1]>>]]
  BY <1>4 DEF IsRecFromZero
<1>7. g = [i \in 0 .. n |-> IF i = 0 THEN 1 ELSE 128 * g[i - 1]]
  BY <1>5, <1>6
<1> QED BY <1>7 DEF IsPower

LEMMA SpaceOfLengthType ==
  ASSUME NEW n \in Nat \ {0} PROVE SpaceOfLength(n) \in Nat
<1> DEFINE h == CHOOSE f : IsPower(f, n)
<1>1. SpaceOfLength(n) = CHOOSE k \in 1 .. n : h[k - 1] <= n /\ n < h[k]
  BY DEF SpaceOfLength, IsPower
<1>2. IsPower(h, n)
  BY PowerExists
<1> HIDE DEF h
<1>3. h[0] = 1 /\ \A k \in 1 .. n : h[k] = 128 * h[k - 1]
  BY <1>2 DEF IsPower
<1>4. \A k \in 1 .. n : h[k] \in Nat /\ h[k] > k
  <2> DEFINE T == {k \in 1 .. n : h[k] \in Nat /\ h[k] > k}
  <2>1. ASSUME NEW m \in 1 .. n, \A k \in 1 .. m - 1 : k \in T PROVE m \in T
    <3>1. CASE m = 1
      <4>1. h[1] = 128
        BY <1>3, <3>1
      <4> QED BY <3>1, <4>1
    <3>2. CASE m # 1
      <4>1. m - 1 \in 1 .. m - 1
        BY <3>2
      <4>2. h[m - 1] \in Nat /\ h[m - 1] > m - 1 /\ h[m] = 128 * h[m - 1]
        BY <1>3, <2>1, <4>1
      <4> QED BY <4>2
    <3> QED BY <3>1, <3>2
  <2>2. T \in SUBSET (1 .. n)
    OBVIOUS
  <2> HIDE DEF T
  <2>3. T = 1 .. n
    BY <2>1, <2>2, InductionUpTo
  <2> QED BY <2>3 DEF T
<1> DEFINE K == {k \in 1 .. n : n < h[k]}
<1>5. PICK k \in K : \A j \in K : k <= j
  <2>1. K \in SUBSET Nat /\ n \in K
    BY <1>4
  <2> HIDE DEF K
  <2> QED BY <2>1, LeastOf
<1>6. h[k - 1] <= n
  <2>1. CASE k = 1
    BY <1>3, <2>1
  <2>2. CASE k # 1
    <3>1. k - 1 \in 1 .. n /\ k - 1 < k
      BY <2>2
    <3>2. h[k - 1] \in Nat /\ k - 1 \notin K
      BY <1>4, <1>5, <3>1
    <3> QED BY <3>1, <3>2
  <2> QED BY <2>1, <2>2
<1> QED BY <1>1, <1>5, <1>6

IsSpace(g) ==
    g = [l \in 1 .. NumLists + 1 |->
            IF l = 1 THEN 8
            ELSE g[l - 1] + SpaceOfLength(Lists[l - 1].size)
                   + NumBlocks(l - 1) * 4 + (NumBlocks(l - 1) - 1) * 4]

LEMMA SpaceExists ==
  ASSUME input \in Inputs
  PROVE  \E g : IsSpace(g) /\ \A l \in 1 .. NumLists + 1 : g[l] \in Int
<1>1. PICK n \in Nat : n = NumLists + 1
  BY InputFacts
<1> DEFINE own(l) == SpaceOfLength(Lists[l].size) + NumBlocks(l) * 4 + (NumBlocks(l) - 1) * 4
           step == [p \in (1 .. n) \X Int |-> p[2] + own(p[1] - 1)]
           X == [i \in 1 .. n |-> Int]
<1>2. ASSUME NEW i \in 2 .. n
      PROVE  /\ SpaceOfLength(Lists[i - 1].size) \in Int /\ NumBlocks(i - 1) \in Int
             /\ own(i - 1) \in Int
  <2>1. i - 1 \in 1 .. NumLists
    BY <1>1, InputFacts
  <2>2. SpaceOfLength(Lists[i - 1].size) \in Nat /\ NumBlocks(i - 1) \in Nat
    BY <2>1, InputFacts, SpaceOfLengthType
  <2> QED BY <2>2
<1>3. ASSUME NEW i \in 1 .. n, NEW x \in Int PROVE step[<<i, x>>] = x + own(i - 1)
  <2>1. <<i, x>> \in (1 .. n) \X Int
    OBVIOUS
  <2>2. \A p \in (1 .. n) \X Int : step[p] = p[2] + own(p[1] - 1)
    OBVIOUS
  <2> HIDE DEF step, own
  <2> QED BY <2>1, <2>2
<1>4. \A i \in 1 .. n : X[i] = Int
  OBVIOUS
<1> HIDE DEF step, X, own
<1>5. PICK g : IsRec(g, n, 8, step)
  BY RecExists
<1>6. \A i \in 1 .. n : g[i] \in X[i]
  <2>1. n > 0 => 8 \in X[1]
    BY <1>4
  <2>2. ASSUME NEW i \in 2 .. n, NEW x \in X[i - 1] PROVE step[<<i, x>>] \in X[i]
    <3>1. i \in 1 .. n /\ i - 1 \in 1 .. n
      OBVIOUS
    <3>2. x \in Int /\ X[i] = Int
      BY <1>4, <3>1
    <3> QED BY <1>2, <1>3, <3>1, <3>2
  <2> QED BY <1>5, <2>1, <2>2, RecType
<1>7. ASSUME NEW i \in 1 .. n, i # 1
      PROVE  step[<<i, g[i - 1]>>] = g[i - 1] + SpaceOfLength(Lists[i - 1].size)
                + NumBlocks(i - 1) * 4 + (NumBlocks(i - 1) - 1) * 4
  <2>1. i \in 2 .. n /\ i - 1 \in 1 .. n
    BY <1>7
  <2>2. g[i - 1] \in Int /\ step[<<i, g[i - 1]>>] = g[i - 1] + own(i - 1)
    BY <1>3, <1>4, <1>6, <2>1
  <2>3. SpaceOfLength(Lists[i - 1].size) \in Int /\ NumBlocks(i - 1) \in Int
    BY <1>2, <2>1
  <2> QED BY <2>2, <2>3 DEF own
<1>8. g = [i \in 1 .. n |-> IF i = 1 THEN 8 ELSE step[<<i, g[i - 1]>>]]
  BY <1>5 DEF IsRec
<1>9. g = [i \in 1 .. n |->
             IF i = 1 THEN 8
             ELSE g[i - 1] + SpaceOfLength(Lists[i - 1].size)
                    + NumBlocks(i - 1) * 4 + (NumBlocks(i - 1) - 1) * 4]
  BY <1>7, <1>8
<1> QED BY <1>1, <1>4, <1>6, <1>9 DEF IsSpace

LEMMA SpaceBaseType == ASSUME input \in Inputs PROVE SpaceBase \in Int
<1>1. PICK n \in Nat : n = NumLists
  BY InputFacts
<1>2. SpaceBefore = CHOOSE f : IsSpace(f)
  BY DEF SpaceBefore, IsSpace
<1>3. IsSpace(SpaceBefore)
  BY <1>2, SpaceExists
<1> DEFINE T == {l \in 1 .. n + 1 : SpaceBefore[l] \in Int}
<1>4. ASSUME NEW l \in 1 .. n + 1, \A k \in 1 .. l - 1 : k \in T PROVE l \in T
  <2>1. CASE l = 1
    <3>1. SpaceBefore[1] = 8
      BY <1>1, <1>3, <2>1 DEF IsSpace
    <3> QED BY <2>1, <3>1
  <2>2. CASE l # 1
    <3>1. l - 1 \in 1 .. l - 1 /\ l - 1 \in 1 .. NumLists
      BY <1>1, <2>2
    <3>2. SpaceBefore[l] = SpaceBefore[l - 1] + SpaceOfLength(Lists[l - 1].size)
                             + NumBlocks(l - 1) * 4 + (NumBlocks(l - 1) - 1) * 4
      BY <1>1, <1>3, <2>2 DEF IsSpace
    <3>3. SpaceBefore[l - 1] \in Int
      BY <1>4, <3>1
    <3>4. SpaceOfLength(Lists[l - 1].size) \in Nat /\ NumBlocks(l - 1) \in Nat
      BY <3>1, InputFacts, SpaceOfLengthType
    <3> QED BY <3>2, <3>3, <3>4
  <2> QED BY <2>1, <2>2
<1>5. T = 1 .. n + 1
  <2>1. T \in SUBSET (1 .. n + 1) /\ n + 1 \in Nat
    OBVIOUS
  <2> HIDE DEF T
  <2> QED BY <1>4, <2>1, InductionUpTo
<1>6. n + 1 \in 1 .. n + 1
  OBVIOUS
<1> QED BY <1>1, <1>5, <1>6 DEF SpaceBase

(***************************************************************************)
(* All ways to choose: the totals of the sides up to b are those before,   *)
(* each with each coding of b.                                             *)
(***************************************************************************)
Total == [space : Int, time : Int]
Added(totals, b) == {Plus(t, c) : t \in totals, c \in Codings[b]}

IsTotals(g) ==
    g = [b \in 0 .. NumSides |->
           IF b = 0 THEN {[space |-> SpaceBase, time |-> 0]} ELSE Added(g[b - 1], b)]

LEMMA AddedType ==
  ASSUME input \in Inputs, NEW b \in 1 .. NumSides, NEW totals \in SUBSET Total
  PROVE  Added(totals, b) \in SUBSET Total
<1>1. SUFFICES ASSUME NEW t \in totals, NEW c \in Codings[b] PROVE Plus(t, c) \in Total
  BY DEF Added
<1>2. c \in Coding
  BY CodingsAt
<1>3. /\ t.space \in Int /\ t.time \in Int /\ c.space \in Int /\ c.time \in Int
  BY <1>2 DEF Total, Coding
<1> QED BY <1>3 DEF Plus, Total

LEMMA TotalsExist == ASSUME input \in Inputs PROVE \E g : IsTotals(g)
<1>1. PICK n \in Nat : n = NumSides
  BY CodingsAt
<1> DEFINE first == {[space |-> SpaceBase, time |-> 0]}
           step == [p \in (1 .. n) \X SUBSET Total |-> Added(p[2], p[1])]
           X == [i \in 0 .. n |-> SUBSET Total]
<1>2. ASSUME NEW i \in 1 .. n, NEW x \in SUBSET Total PROVE step[<<i, x>>] = Added(x, i)
  <2>1. <<i, x>> \in (1 .. n) \X SUBSET Total
    OBVIOUS
  <2>2. \A p \in (1 .. n) \X SUBSET Total : step[p] = Added(p[2], p[1])
    OBVIOUS
  <2> HIDE DEF step
  <2> QED BY <2>1, <2>2
<1>3. \A i \in 0 .. n : X[i] = SUBSET Total
  OBVIOUS
<1>4. first \in SUBSET Total
  BY SpaceBaseType DEF Total
<1> HIDE DEF first, step, X
<1>5. first \in X[0] /\ \A i \in 1 .. n : \A x \in X[i - 1] : step[<<i, x>>] \in X[i]
  <2>1. \A i \in 1 .. n : i - 1 \in 0 .. n /\ i \in 0 .. n
    OBVIOUS
  <2> QED BY <1>1, <1>2, <1>3, <1>4, <2>1, AddedType
<1>6. PICK g : IsRecFromZero(g, n, first, step) /\ \A i \in 0 .. n : g[i] \in X[i]
  BY <1>5, RecFromZero
<1>7. ASSUME NEW i \in 0 .. n, i # 0 PROVE step[<<i, g[i - 1]>>] = Added(g[i - 1], i)
  <2>1. i \in 1 .. n /\ i - 1 \in 0 .. n
    BY <1>7
  <2>2. g[i - 1] \in SUBSET Total
    BY <1>3, <1>6, <2>1
  <2> QED BY <1>2, <2>1, <2>2
<1>8. g = [i \in 0 .. n |-> IF i = 0 THEN first ELSE step[<<i, g[i - 1]>>]]
  BY <1>6 DEF IsRecFromZero
<1>9. g = [i \in 0 .. n |-> IF i = 0 THEN first ELSE Added(g[i - 1], i)]
  BY <1>7, <1>8
<1> QED BY <1>1, <1>9 DEF IsTotals, first

(* What is chosen sums up to the totals of the greedy loop.                *)
SumsTo(total, first, part) ==
    \E f \in [0 .. NumSides -> Int] :
        /\ f[0] = first /\ total = f[NumSides]
        /\ \A b \in 1 .. NumSides : f[b] = f[b - 1] + part[b]

Spaces == [b \in 1 .. NumSides |-> choice[b].space]
Times == [b \in 1 .. NumSides |-> choice[b].time]

SumsInv == SumsTo(cur_space, SpaceBase, Spaces) /\ SumsTo(cur_time, 0, Times)

LEMMA SumChanges ==
  ASSUME NumSides \in Nat, NEW total, NEW first, NEW part \in [1 .. NumSides -> Int],
         SumsTo(total, first, part), NEW b \in 1 .. NumSides, NEW x \in Int
  PROVE  total \in Int /\ SumsTo(total - part[b] + x, first, [part EXCEPT ![b] = x])
<1>1. PICK n \in Nat : n = NumSides
  OBVIOUS
<1>2. PICK f \in [0 .. n -> Int] :
        /\ f[0] = first /\ total = f[n]
        /\ \A k \in 1 .. n : f[k] = f[k - 1] + part[k]
  BY <1>1 DEF SumsTo
<1>3. PICK d \in Int : d = x - part[b]
  OBVIOUS
<1> DEFINE g == [k \in 0 .. n |-> IF k < b THEN f[k] ELSE f[k] + d]
           new == [part EXCEPT ![b] = x]
<1>4. g \in [0 .. n -> Int] /\ g[0] = first /\ g[n] = total - part[b] + x
  <2>1. 0 \in 0 .. n /\ n \in 0 .. n /\ 0 < b /\ ~(n < b) /\ f[n] \in Int /\ part[b] \in Int
    BY <1>1
  <2>2. \A k \in 0 .. n : f[k] \in Int /\ f[k] + d \in Int
    BY <1>2, <1>3
  <2>3. g[0] = first
    BY <1>2, <2>1
  <2>4. g[n] = f[n] + d
    BY <2>1
  <2>5. f[n] + d = total - part[b] + x
    BY <1>2, <1>3, <2>1
  <2> QED BY <2>2, <2>3, <2>4, <2>5
<1>5. ASSUME NEW k \in 1 .. n PROVE g[k] = g[k - 1] + new[k]
  <2>1. k \in 0 .. n /\ k - 1 \in 0 .. n /\ f[k - 1] \in Int /\ part[k] \in Int
        /\ f[k] = f[k - 1] + part[k]
    BY <1>1, <1>2
  <2>2. /\ g[k] = IF k < b THEN f[k] ELSE f[k] + d
        /\ g[k - 1] = IF k - 1 < b THEN f[k - 1] ELSE f[k - 1] + d
        /\ new[k] = IF k = b THEN x ELSE part[k]
    BY <1>1, <2>1
  <2> HIDE DEF g, new
  <2>3. CASE k < b
    BY <2>1, <2>2, <2>3
  <2>4. CASE k = b
    BY <1>3, <2>1, <2>2, <2>4
  <2>5. CASE k > b
    <3>1. ~(k < b) /\ ~(k - 1 < b) /\ k # b
      BY <1>1, <2>5
    <3>2. g[k] = f[k] + d /\ g[k - 1] = f[k - 1] + d /\ new[k] = part[k]
      BY <2>2, <3>1
    <3> QED BY <2>1, <3>2
  <2> QED BY <1>1, <2>3, <2>4, <2>5
<1>6. total \in Int
  <2>1. n \in 0 .. n
    OBVIOUS
  <2> QED BY <1>2, <2>1
<1> HIDE DEF g, new
<1>7. SumsTo(total - part[b] + x, first, new)
  BY <1>1, <1>4, <1>5 DEF SumsTo
<1> QED BY <1>6, <1>7 DEF new

(* If no side has a coding of less weight, no way to choose has one.       *)
LEMMA TotalsWeigh ==
  ASSUME input \in Inputs, choice \in [1 .. NumSides -> Coding], SumsInv,
         NEW d \in Nat, NEW n \in Nat,
         \A b \in 1 .. NumSides : \A c \in Codings[b] :
            d * choice[b].space + n * choice[b].time <= d * c.space + n * c.time,
         NEW t \in Totals
  PROVE  /\ t.space \in Int /\ t.time \in Int /\ cur_space \in Int /\ cur_time \in Int
         /\ d * cur_space + n * cur_time <= d * t.space + n * t.time
<1>1. PICK N \in Nat : N = NumSides
  BY CodingsAt
<1>2. PICK f \in [0 .. N -> Int] :
        /\ f[0] = SpaceBase /\ cur_space = f[N]
        /\ \A b \in 1 .. N : f[b] = f[b - 1] + choice[b].space
  BY <1>1 DEF SumsInv, SumsTo, Spaces
<1>3. PICK g \in [0 .. N -> Int] :
        /\ g[0] = 0 /\ cur_time = g[N]
        /\ \A b \in 1 .. N : g[b] = g[b - 1] + choice[b].time
  BY <1>1 DEF SumsInv, SumsTo, Times
<1> DEFINE h == CHOOSE x : IsTotals(x)
<1>4. Totals = h[N]
  BY <1>1 DEF Totals, IsTotals, Added
<1>5. IsTotals(h)
  BY TotalsExist
<1> HIDE DEF h
<1>6. /\ h[0] = {[space |-> SpaceBase, time |-> 0]}
      /\ \A b \in 1 .. N : h[b] = Added(h[b - 1], b)
  <2>1. h = [b \in 0 .. N |->
               IF b = 0 THEN {[space |-> SpaceBase, time |-> 0]} ELSE Added(h[b - 1], b)]
    BY <1>1, <1>5 DEF IsTotals
  <2>2. 0 \in 0 .. N /\ \A b \in 1 .. N : b \in 0 .. N /\ b # 0
    OBVIOUS
  <2> QED BY <2>1, <2>2
<1> DEFINE Least(b) == \A u \in h[b] : /\ u.space \in Int /\ u.time \in Int
                                       /\ d * f[b] + n * g[b] <= d * u.space + n * u.time
           T == {b \in 1 .. N : Least(b)}
<1>7. Least(0)
  <2>1. SpaceBase \in Int
    BY SpaceBaseType
  <2>2. d * SpaceBase + n * 0 \in Int
    BY <2>1
  <2> QED BY <1>2, <1>3, <1>6, <2>1, <2>2
<1>8. ASSUME NEW b \in 1 .. N, Least(b - 1) PROVE Least(b)
  <2>1. SUFFICES ASSUME NEW u \in h[b]
                 PROVE  /\ u.space \in Int /\ u.time \in Int
                        /\ d * f[b] + n * g[b] <= d * u.space + n * u.time
    OBVIOUS
  <2>2. PICK v \in h[b - 1], c \in Codings[b] : u = Plus(v, c)
    <3>1. h[b] = Added(h[b - 1], b)
      BY <1>6
    <3>2. u \in Added(h[b - 1], b)
      BY <2>1, <3>1
    <3> QED BY <3>2 DEF Added
  <2>3. /\ v.space \in Int /\ v.time \in Int
        /\ d * f[b - 1] + n * g[b - 1] <= d * v.space + n * v.time
    BY <1>8
  <2>4. c \in Coding /\ choice[b] \in Coding
    BY <1>1, CodingsAt
  <2>5. PICK f0 \in Int, g0 \in Int, s0 \in Int, t0 \in Int, s1 \in Int, t1 \in Int,
             s2 \in Int, t2 \in Int :
          /\ f0 = f[b - 1] /\ g0 = g[b - 1] /\ s0 = choice[b].space /\ t0 = choice[b].time
          /\ s1 = v.space /\ t1 = v.time /\ s2 = c.space /\ t2 = c.time
    <3>1. b - 1 \in 0 .. N
      OBVIOUS
    <3>2. f[b - 1] \in Int /\ g[b - 1] \in Int
      BY <3>1
    <3>3. /\ choice[b].space \in Int /\ choice[b].time \in Int
          /\ c.space \in Int /\ c.time \in Int
      <4>1. \A st \in Coding : st.space \in Int /\ st.time \in Int
        BY DEF Coding
      <4> QED BY <2>4, <4>1
    <3> QED BY <2>3, <3>2, <3>3
  <2>6. /\ f[b] = f0 + s0 /\ g[b] = g0 + t0
        /\ u.space = s1 + s2 /\ u.time = t1 + t2
    BY <1>2, <1>3, <2>2, <2>5 DEF Plus
  <2>7. d * f0 + n * g0 <= d * s1 + n * t1 /\ d * s0 + n * t0 <= d * s2 + n * t2
    BY <1>1, <2>3, <2>5
  <2>8. /\ d * (f0 + s0) + n * (g0 + t0) = (d * f0 + n * g0) + (d * s0 + n * t0)
        /\ d * (s1 + s2) + n * (t1 + t2) = (d * s1 + n * t1) + (d * s2 + n * t2)
    OBVIOUS
  <2>9. /\ d * f0 + n * g0 \in Int /\ d * s0 + n * t0 \in Int
        /\ d * s1 + n * t1 \in Int /\ d * s2 + n * t2 \in Int
    OBVIOUS
  <2>10. d * (f0 + s0) + n * (g0 + t0) <= d * (s1 + s2) + n * (t1 + t2)
    BY <2>7, <2>8, <2>9
  <2>11. u.space \in Int /\ u.time \in Int
    <3>1. s1 + s2 \in Int /\ t1 + t2 \in Int
      OBVIOUS
    <3> QED BY <2>6, <3>1
  <2>12. d * f[b] + n * g[b] <= d * u.space + n * u.time
    BY <2>6, <2>10
  <2> QED BY <2>11, <2>12
<1> HIDE DEF Least
<1>9. \A b \in 1 .. N : Least(b)
  <2>1. ASSUME NEW m \in 1 .. N, \A k \in 1 .. m - 1 : k \in T PROVE m \in T
    <3>1. CASE m = 1
      <4>1. m - 1 = 0
        BY <3>1
      <4> QED BY <1>7, <1>8, <4>1
    <3>2. CASE m # 1
      <4>1. m - 1 \in 1 .. m - 1
        BY <3>2
      <4> QED BY <1>8, <2>1, <4>1
    <3> QED BY <3>1, <3>2
  <2>2. T \in SUBSET (1 .. N)
    OBVIOUS
  <2> HIDE DEF T
  <2>3. T = 1 .. N
    BY <2>1, <2>2, InductionUpTo
  <2> QED BY <2>3 DEF T
<1>10. Least(N)
  BY <1>7, <1>9
<1>11. N \in 0 .. N
  OBVIOUS
<1> QED BY <1>2, <1>3, <1>4, <1>10, <1>11 DEF Least

-----------------------------------------------------------------------------
(***************************************************************************)
(* The second invariant: what the greedy loop chose, from a file that is   *)
(* whole.                                                                  *)
(***************************************************************************)
(* The file, and what was chosen before anything was read from it.         *)
PointsInv ==
    /\ pc = "lambdas" \/ file.sorted => Sided(file.points)
    /\ pc = "lambdas" =>
         \A p \in Range(file.points) : p.block_id <= Base(Len(committed) + 1)
    /\ pc \in {"start", "lambdas"} => choice = [b \in 1 .. NumSides |-> NoCoding]

(* Some slope separates the points that were applied from those that were  *)
(* not, and each side has the dearest of its own that were.                *)
Applied == Range(file.points) \ Range(unread)

Separates(l) ==
    /\ \A p \in Applied : ~Below(l, p.lambda)
    /\ \A q \in Range(unread) : ~Below(q.lambda, l)

ChosenFor(b) ==
    \/ choice[b] = NoCoding /\ \A p \in Applied : p.block_id # b
    \/ \E p \in Applied :
         /\ p.block_id = b /\ choice[b] = p.st
         /\ \A r \in Applied : r.block_id = b => ~Below(p.lambda, r.lambda)

InOrder ==
    /\ \A i, j \in DOMAIN unread : i # j => unread[i] # unread[j]
    /\ \E l \in Slope : Separates(l)
    /\ \A b \in 1 .. NumSides : ChosenFor(b)

(* The budget is not exceeded before every side has its smallest coding,   *)
(* and then by one step at most.                                           *)
ByOneStep ==
    \/ cur_space <= input.budget
    \/ \E b \in 1 .. NumSides : \E c \in Codings[b] :
         cur_space - choice[b].space + c.space <= input.budget
    \/ \A a, b \in 1 .. NumSides : a # b => Smallest(a) \/ Smallest(b)

BudgetKept ==
    IF pc = "greedy"
    THEN \/ \A b \in 1 .. NumSides : Smallest(b)
         \/ /\ cur_space <= input.budget
            /\ \A i \in DOMAIN unread : unread[i].lambda.num # 0
    ELSE ByOneStep /\ (cur_space <= input.budget => unread = <<>>)

GreedyInv ==
    pc \in {"greedy", "transform", "over"} /\ Whole =>
        /\ Range(unread) \subseteq Range(file.points)
        /\ input.budget # 0 => BudgetKept
        /\ OneByOne => InOrder

OptInv == PointsInv /\ SumsInv /\ GreedyInv
-----------------------------------------------------------------------------
(***************************************************************************)
(* What it says of the choice.                                             *)
(***************************************************************************)
(* Of two points of a side one costs less.                                 *)
LEMMA OneCostsLess ==
  ASSUME OneByOne, NEW p \in Range(file.points), NEW q \in Range(file.points),
         p # q, p.block_id = q.block_id
  PROVE  Below(p.lambda, q.lambda) \/ Below(q.lambda, p.lambda)
<1>1. PICK k \in DOMAIN file.points, m \in DOMAIN file.points :
        p = file.points[k] /\ q = file.points[m]
  BY DEF Range
<1>2. k # m
  BY <1>1
<1> QED BY <1>1, <1>2 DEF OneByOne

LEMMA PointsBounded ==
  ASSUME NEW points \in Seq(Points), \A p \in Range(points) : p.lambda \in Slope
  PROVE  \E D \in Nat \ {0} : \A p \in Range(points) : p.lambda.den <= D
<1>1. PICK n \in Nat : n = Len(points) /\ DOMAIN points = 1 .. n
  BY LenProperties
<1>2. \A k \in 1 .. n : points[k].lambda.den \in Nat
  BY <1>1 DEF Range, Slope
<1> DEFINE Bound(m) == \E D \in Nat \ {0} : \A k \in 1 .. m : points[k].lambda.den <= D
           T == {m \in 1 .. n : Bound(m)}
<1>3. ASSUME NEW m \in 1 .. n, m = 1 \/ Bound(m - 1) PROVE Bound(m)
  <2>1. PICK D \in Nat \ {0} : \A k \in 1 .. m - 1 : points[k].lambda.den <= D
    <3>1. CASE m = 1
      <4>1. 1 .. m - 1 = {} /\ 1 \in Nat \ {0}
        BY <3>1
      <4> QED BY <4>1
    <3> QED BY <1>3, <3>1
  <2>2. PICK E \in Nat \ {0} : E = D + points[m].lambda.den
    BY <1>2
  <2>3. ASSUME NEW k \in 1 .. m PROVE points[k].lambda.den <= E
    <3>1. CASE k = m
      BY <1>2, <2>2, <3>1
    <3>2. CASE k # m
      <4>1. k \in 1 .. m - 1 /\ k \in 1 .. n
        BY <3>2
      <4>2. points[k].lambda.den <= D
        BY <2>1, <4>1
      <4>3. PICK x \in Nat, y \in Nat :
              x = points[k].lambda.den /\ y = points[m].lambda.den
        BY <1>2, <4>1
      <4>4. x <= D /\ E = D + y
        BY <2>2, <4>2, <4>3
      <4>5. x <= E
        BY <4>4
      <4> QED BY <4>3, <4>5
    <3> QED BY <3>1, <3>2
  <2> QED BY <2>3
<1> HIDE DEF Bound
<1>4. T = 1 .. n
  <2>1. ASSUME NEW m \in 1 .. n, \A k \in 1 .. m - 1 : k \in T PROVE m \in T
    <3>1. CASE m = 1
      BY <1>3, <3>1
    <3>2. CASE m # 1
      <4>1. m - 1 \in 1 .. m - 1
        BY <3>2
      <4> QED BY <1>3, <2>1, <4>1
    <3> QED BY <3>1, <3>2
  <2>2. T \in SUBSET (1 .. n)
    OBVIOUS
  <2> HIDE DEF T
  <2> QED BY <2>1, <2>2, InductionUpTo
<1>5. Bound(n)
  <2>1. CASE n = 0
    <3>1. 1 .. n = {} /\ 1 \in Nat \ {0}
      BY <2>1
    <3> QED BY <3>1 DEF Bound
  <2>2. CASE n # 0
    <3>1. n \in 1 .. n
      BY <2>2
    <3> QED BY <1>4, <3>1
  <2> QED BY <2>1, <2>2
<1> QED BY <1>1, <1>5 DEF Bound, Range

(* A slope that is not flat separates them too, when no side is left out.  *)
LEMMA SteepSlope ==
  ASSUME file.points \in Seq(Points), Sided(file.points), OneByOne, InOrder,
         Range(unread) \subseteq Range(file.points),
         \A p \in Range(file.points) : choice[p.block_id] # NoCoding,
         \A p \in Range(file.points) : p.block_id \in 1 .. NumSides
  PROVE  \E l \in Slope : l.num > 0 /\ Separates(l)
<1>1. PICK l \in Slope : Separates(l)
  BY DEF InOrder
<1>2. \A p \in Range(file.points) : p.lambda \in Slope
  BY DEF Sided
<1>3. CASE l.num > 0
  BY <1>1, <1>3
<1>4. CASE ~(l.num > 0)
  <2>1. PICK d \in Nat \ {0} : l = [num |-> 0, den |-> d]
    BY <1>4 DEF Slope
  <2>2. ASSUME NEW p \in Applied PROVE p.lambda = Zero
    <3>1. p \in Range(file.points) /\ ~Below(l, p.lambda)
      BY <1>1 DEF Applied, Separates
    <3>2. PICK n \in Nat, e \in Nat : n = p.lambda.num /\ e = p.lambda.den
      BY <1>2, <3>1 DEF Slope
    <3>3. ~(0 * e < n * d)
      BY <2>1, <3>1, <3>2 DEF Below
    <3>4. n = 0
      BY <3>3
    <3> QED BY <3>1, <3>2, <3>4 DEF Sided
  <2>3. ASSUME NEW q \in Range(unread) PROVE q.lambda.num \in Nat \ {0}
    <3>1. q \in Range(file.points) /\ q.lambda \in Slope
      BY <1>2
    <3>2. SUFFICES ASSUME q.lambda.num = 0 PROVE FALSE
      BY <3>1 DEF Slope
    <3>3. q.lambda = Zero
      BY <3>1, <3>2 DEF Sided
    <3>4. PICK p \in Applied : p.block_id = q.block_id
      BY <3>1 DEF InOrder, ChosenFor
    <3>5. p \in Range(file.points) /\ p # q /\ p.lambda = Zero
      BY <2>2 DEF Applied
    <3>6. Below(Zero, Zero)
      BY <3>1, <3>3, <3>4, <3>5, OneCostsLess
    <3> QED BY <3>6 DEF Below, Zero
  <2>4. PICK D \in Nat \ {0} : \A p \in Range(file.points) : p.lambda.den <= D
    BY <1>2, PointsBounded
  <2>5. PICK s \in Slope : s = [num |-> 1, den |-> D]
    BY DEF Slope
  <2>6. ASSUME NEW p \in Applied PROVE ~Below(s, p.lambda)
    <3>1. p.lambda = [num |-> 0, den |-> 1]
      BY <2>2 DEF Zero
    <3> QED BY <2>5, <3>1 DEF Below
  <2>7. ASSUME NEW q \in Range(unread) PROVE ~Below(q.lambda, s)
    <3>1. PICK n \in Nat \ {0}, e \in Nat : n = q.lambda.num /\ e = q.lambda.den
      BY <1>2, <2>3 DEF Slope
    <3>2. e <= D
      BY <2>4, <3>1
    <3>3. 1 * D <= n * D
      BY Grows
    <3>4. ~(n * D < 1 * e)
      <4>1. n * D \in Nat
        OBVIOUS
      <4> QED BY <3>2, <3>3, <4>1
    <3> QED BY <2>5, <3>1, <3>4 DEF Below
  <2> QED BY <2>5, <2>6, <2>7 DEF Separates
<1> QED BY <1>3, <1>4

(* Each side has a coding that the slope supports.                         *)
LEMMA ChoiceSupported ==
  ASSUME input \in Inputs, Sided(file.points), OneByOne, InOrder,
         Range(unread) \subseteq Range(file.points), file.points \in Seq(Points),
         NEW b \in 1 .. NumSides, choice[b] # NoCoding,
         NEW l \in Slope, Separates(l)
  PROVE  Supports(l, choice[b], Codings[b])
<1>1. PICK p \in Applied :
        /\ p.block_id = b /\ choice[b] = p.st
        /\ \A r \in Applied : r.block_id = b => ~Below(p.lambda, r.lambda)
  BY DEF InOrder, ChosenFor
<1>2. p \in Range(file.points) /\ ~Below(l, p.lambda)
  BY <1>1 DEF Applied, Separates
<1>3. p.st \in Coding
  <2>1. p \in Points
    BY <1>2, RangeOfSeq
  <2> QED BY <2>1 DEF Points
<1>4. ~input.heuristic_greedy
  BY DEF OneByOne
<1>5. /\ p.lambda \in Slope /\ Supports(p.lambda, p.st, Codings[b])
      /\ \/ \A c \in Codings[b] : p.st.time <= c.time
         \/ \E q \in Range(file.points) :
              /\ q.block_id = b /\ q # p
              /\ ~Below(q.lambda, p.lambda) /\ Supports(q.lambda, p.st, Codings[b])
  BY <1>1, <1>2, <1>4 DEF Sided
<1>6. Codings[b] \in SUBSET Coding
  BY CodingsAt
<1>7. ASSUME NEW c \in Codings[b] PROVE Cost(l, p.st) <= Cost(l, c)
  <2>1. c \in Coding /\ Cost(p.lambda, p.st) <= Cost(p.lambda, c)
    BY <1>5, <1>6 DEF Supports
  <2>2. CASE p.st.time <= c.time
    BY <1>2, <1>3, <1>5, <2>1, <2>2, SupportedBetween
  <2>3. CASE ~(p.st.time <= c.time)
    <3>1. PICK q \in Range(file.points) :
            /\ q.block_id = b /\ q # p
            /\ ~Below(q.lambda, p.lambda) /\ Supports(q.lambda, p.st, Codings[b])
      BY <1>5, <2>3
    <3>2. Below(p.lambda, q.lambda)
      BY <1>1, <1>2, <3>1, OneCostsLess
    <3>3. q \in Range(unread)
      BY <1>1, <3>1, <3>2 DEF Applied
    <3>4. ~Below(q.lambda, l) /\ q.lambda \in Slope
      BY <3>1, <3>3 DEF Separates, Sided
    <3>5. Cost(q.lambda, p.st) <= Cost(q.lambda, c)
      BY <3>1 DEF Supports
    <3> QED BY <1>2, <1>3, <1>5, <2>1, <3>4, <3>5, SupportedBetween
  <2> QED BY <2>2, <2>3
<1> QED BY <1>1, <1>7 DEF Supports

LEMMA NothingIsBetterImplied ==
  ASSUME IndInv, OptInv PROVE NothingIsBetter
<1>1. SUFFICES ASSUME Whole, PastFrontier, OneByOne, NEW t \in Totals
               PROVE  /\ t.space <= cur_space => t.time >= cur_time
                      /\ t.time <= cur_time => t.space >= cur_space
  BY DEF NothingIsBetter
<1>2. /\ input \in Inputs /\ choice \in [1 .. NumSides -> Coding]
      /\ file.points \in Seq(Points)
  BY DEF IndInv, ChoiceInv, FileInv
<1>3. /\ Sided(file.points) /\ InOrder /\ Range(unread) \subseteq Range(file.points)
      /\ SumsInv /\ \A b \in 1 .. NumSides : choice[b] # NoCoding
  BY <1>1 DEF OptInv, PointsInv, GreedyInv, Whole, PastFrontier
<1>4. \A p \in Range(file.points) : p.block_id \in 1 .. NumSides
  <2>1. Range(file.points) \subseteq Points
    BY <1>2, RangeOfSeq
  <2> QED BY <2>1 DEF Points
<1>5. PICK l \in Slope : l.num > 0 /\ Separates(l)
  BY <1>1, <1>2, <1>3, <1>4, SteepSlope
<1>6. \A b \in 1 .. NumSides : Supports(l, choice[b], Codings[b])
  BY <1>1, <1>2, <1>3, <1>5, ChoiceSupported
<1>7. PICK d \in Nat \ {0}, n \in Nat \ {0} : d = l.den /\ n = l.num
  BY <1>5 DEF Slope
<1>8. \A b \in 1 .. NumSides : \A c \in Codings[b] :
        d * choice[b].space + n * choice[b].time <= d * c.space + n * c.time
  BY <1>6, <1>7 DEF Supports, Cost
<1>9. /\ t.space \in Int /\ t.time \in Int /\ cur_space \in Int /\ cur_time \in Int
      /\ d * cur_space + n * cur_time <= d * t.space + n * t.time
  BY <1>2, <1>3, <1>8, TotalsWeigh
<1>10. PICK s1 \in Int, t1 \in Int, s2 \in Int, t2 \in Int :
         s1 = cur_space /\ t1 = cur_time /\ s2 = t.space /\ t2 = t.time
  BY <1>9
<1>11. d * s1 \in Int /\ n * t1 \in Int /\ d * s2 \in Int /\ n * t2 \in Int
  OBVIOUS
<1>12. d * s1 + n * t1 <= d * s2 + n * t2
  BY <1>9, <1>10
<1>13. ASSUME s2 <= s1 PROVE t2 >= t1
  <2>1. s2 * d <= s1 * d
    BY <1>13, Grows
  <2>2. t1 * n <= t2 * n
    BY <1>11, <1>12, <2>1
  <2> QED BY <2>2, Cancels
<1>14. ASSUME t2 <= t1 PROVE s2 >= s1
  <2>1. t2 * n <= t1 * n
    BY <1>14, Grows
  <2>2. s1 * d <= s2 * d
    BY <1>11, <1>12, <2>1
  <2> QED BY <2>2, Cancels
<1> QED BY <1>10, <1>13, <1>14

LEMMA OneStepImplied ==
  ASSUME IndInv, OptInv PROVE OneStepOverBudget
<1>1. SUFFICES ASSUME Whole, pc \in {"transform", "over"}, input.budget # 0
               PROVE  /\ \/ cur_space <= input.budget
                         \/ \E b \in DOMAIN Codings : \E c \in Codings[b] :
                              cur_space - choice[b].space + c.space <= input.budget
                         \/ \A a, b \in DOMAIN Codings :
                              a # b => Smallest(a) \/ Smallest(b)
                      /\ cur_space <= input.budget /\ OneByOne =>
                            \A t \in Totals : t.time >= cur_time
  BY DEF OneStepOverBudget
<1>2. /\ input \in Inputs /\ choice \in [1 .. NumSides -> Coding]
      /\ file.points \in Seq(Points)
  BY DEF IndInv, ChoiceInv, FileInv
<1>3. DOMAIN Codings = 1 .. NumSides /\ \A b \in 1 .. NumSides : Codings[b] \in SUBSET Coding
  BY <1>2, CodingsAt
<1>4. ByOneStep /\ (cur_space <= input.budget => unread = <<>>)
  BY <1>1 DEF OptInv, GreedyInv, BudgetKept
<1>5. ASSUME cur_space <= input.budget, OneByOne, NEW t \in Totals
      PROVE  t.time >= cur_time
  <2>1. /\ Sided(file.points) /\ InOrder /\ SumsInv
    BY <1>1, <1>5 DEF OptInv, PointsInv, GreedyInv, Whole
  <2>2. Applied = Range(file.points)
    <3>1. Range(unread) = {}
      BY <1>4, <1>5 DEF Range
    <3> QED BY <3>1 DEF Applied
  <2>3. ASSUME NEW b \in 1 .. NumSides, NEW c \in Codings[b]
        PROVE  choice[b].time <= c.time
    <3>1. \E r \in Applied : r.block_id = b
      BY <1>1, <2>2 DEF Whole, Range
    <3>2. PICK p \in Applied :
            /\ p.block_id = b /\ choice[b] = p.st
            /\ \A r \in Applied : r.block_id = b => ~Below(p.lambda, r.lambda)
      BY <2>1, <3>1 DEF InOrder, ChosenFor
    <3>3. ~input.heuristic_greedy
      BY <1>5 DEF OneByOne
    <3>4. \/ \A e \in Codings[b] : p.st.time <= e.time
          \/ \E q \in Range(file.points) :
               q.block_id = b /\ q # p /\ ~Below(q.lambda, p.lambda)
      BY <2>1, <2>2, <3>2, <3>3 DEF Sided
    <3>5. ASSUME NEW q \in Range(file.points), q.block_id = b, q # p
          PROVE  Below(q.lambda, p.lambda)
      BY <1>5, <2>2, <3>2, <3>5, OneCostsLess
    <3> QED BY <3>2, <3>4, <3>5
  <2>4. /\ t.time \in Int /\ cur_time \in Int /\ t.space \in Int /\ cur_space \in Int
        /\ 0 * cur_space + 1 * cur_time <= 0 * t.space + 1 * t.time
    <3>1. ASSUME NEW b \in 1 .. NumSides, NEW c \in Codings[b]
          PROVE  0 * choice[b].space + 1 * choice[b].time <= 0 * c.space + 1 * c.time
      <4>1. /\ choice[b].space \in Nat /\ choice[b].time \in Nat
            /\ c.space \in Nat /\ c.time \in Nat
        BY <1>2, <1>3 DEF Coding
      <4> QED BY <2>3, <4>1
    <3>2. 0 \in Nat /\ 1 \in Nat
      OBVIOUS
    <3> QED BY <1>2, <2>1, <3>1, <3>2, TotalsWeigh
  <2> QED BY <2>4
<1> QED BY <1>3, <1>4, <1>5 DEF ByOneStep

-----------------------------------------------------------------------------
(***************************************************************************)
(* Its beginning: no side has a coding, and no point was applied.          *)
(***************************************************************************)
Unchosen == input \in Inputs /\ choice = [b \in 1 .. NumSides |-> NoCoding]

LEMMA SumsOfNone == Unchosen /\ cur_space = SpaceBase /\ cur_time = 0 => SumsInv
<1> SUFFICES ASSUME Unchosen, cur_space = SpaceBase, cur_time = 0 PROVE SumsInv
  OBVIOUS
<1>1. PICK n \in Nat : n = NumSides
  BY CodingsAt DEF Unchosen
<1>2. SpaceBase \in Int
  BY SpaceBaseType DEF Unchosen
<1>3. \A b \in 1 .. n : choice[b].space = 0 /\ choice[b].time = 0
  BY <1>1 DEF Unchosen, NoCoding
<1>4. ASSUME NEW first \in Int, NEW part, \A b \in 1 .. n : part[b] = 0
      PROVE  SumsTo(first, first, part)
  <2> DEFINE f == [b \in 0 .. n |-> first]
  <2>1. f \in [0 .. n -> Int] /\ f[0] = first /\ f[n] = first
    OBVIOUS
  <2>2. ASSUME NEW b \in 1 .. n PROVE f[b] = f[b - 1] + part[b]
    <3>1. b \in 0 .. n /\ b - 1 \in 0 .. n /\ part[b] = 0
      BY <1>4
    <3>2. f[b] = first /\ f[b - 1] = first
      BY <3>1
    <3> QED BY <3>1, <3>2
  <2> HIDE DEF f
  <2> QED BY <1>1, <2>1, <2>2 DEF SumsTo
<1>5. \A b \in 1 .. n : Spaces[b] = 0 /\ Times[b] = 0
  BY <1>1, <1>3 DEF Spaces, Times
<1>6. SumsTo(SpaceBase, SpaceBase, Spaces)
  BY <1>2, <1>4, <1>5
<1>7. SumsTo(0, 0, Times)
  BY <1>4, <1>5
<1> QED BY <1>6, <1>7 DEF SumsInv

LEMMA GreedyBegins ==
  Unchosen /\ pc = "greedy" /\ unread = file.points /\ file.points \in Seq(Points)
    => GreedyInv
<1> SUFFICES ASSUME Unchosen, pc = "greedy", unread = file.points,
                    file.points \in Seq(Points)
             PROVE  GreedyInv
  OBVIOUS
<1>1. \A b \in 1 .. NumSides : Smallest(b)
  <2>1. SUFFICES ASSUME NEW b \in 1 .. NumSides, NEW c \in Codings[b]
                 PROVE  choice[b].space <= c.space
    BY DEF Smallest
  <2>2. c \in Coding
    BY CodingsAt DEF Unchosen
  <2>3. choice[b].space = 0 /\ c.space \in Nat
    BY <2>2 DEF Unchosen, NoCoding, Coding
  <2> QED BY <2>3
<1>2. Applied = {}
  BY DEF Applied
<1>3. \A k \in DOMAIN unread : unread[k].lambda \in [num : Nat, den : Int]
  <2>1. \A k \in DOMAIN unread : unread[k] \in Points
    BY ElementOfSeq, LenProperties
  <2> QED BY <2>1 DEF Points
<1>4. ASSUME OneByOne PROVE InOrder
  <2>1. ASSUME NEW i \in DOMAIN unread, NEW j \in DOMAIN unread, i # j,
               unread[i] = unread[j]
        PROVE  FALSE
    <3>1. Below(unread[i].lambda, unread[i].lambda)
      BY <1>4, <2>1 DEF OneByOne
    <3>2. PICK n \in Nat, d \in Int : unread[i].lambda = [num |-> n, den |-> d]
      BY <1>3
    <3>3. n * d \in Int
      OBVIOUS
    <3> QED BY <3>1, <3>2, <3>3 DEF Below
  <2>2. Zero \in Slope /\ Separates(Zero)
    <3>1. ASSUME NEW q \in Range(unread) PROVE ~Below(q.lambda, Zero)
      <4>1. PICK n \in Nat, d \in Int : q.lambda = [num |-> n, den |-> d]
        BY <1>3 DEF Range
      <4>2. n * 1 = n /\ 0 * d = 0
        OBVIOUS
      <4> QED BY <4>1, <4>2 DEF Below, Zero
    <3> QED BY <1>2, <3>1 DEF Separates, Slope, Zero
  <2>3. \A b \in 1 .. NumSides : ChosenFor(b)
    BY <1>2 DEF ChosenFor, Unchosen
  <2> QED BY <2>1, <2>2, <2>3 DEF InOrder
<1> QED BY <1>1, <1>4 DEF GreedyInv, BudgetKept

LEMMA InitOpt == Init => OptInv
<1> SUFFICES ASSUME Init PROVE OptInv
  OBVIOUS
<1>1. PointsInv /\ GreedyInv
  BY DEF Init, PointsInv, GreedyInv
<1>2. Unchosen /\ cur_space = SpaceBase /\ cur_time = 0
  BY DEF Init, Unchosen
<1> QED BY <1>1, <1>2, SumsOfNone DEF OptInv

(***************************************************************************)
(* What a step leaves.                                                     *)
(***************************************************************************)
LEMMA SameSides ==
  ASSUME input' = input
  PROVE  SpaceBase' = SpaceBase
BY DEF SpaceBase, SpaceBefore, SpaceOfLength, NumBlocks, NumLists, Lists

LEMMA SumsStay ==
  ASSUME SumsInv, UNCHANGED <<input, choice, cur_space, cur_time>> PROVE SumsInv'
<1>1. NumSides' = NumSides /\ SpaceBase' = SpaceBase
  BY SameInput, SameSides
<1>2. Spaces' = Spaces /\ Times' = Times
  BY <1>1 DEF Spaces, Times
<1> QED BY <1>1, <1>2 DEF SumsInv, SumsTo

LEMMA PointsStay ==
  ASSUME PointsInv, UNCHANGED <<input, file>>,
         pc' = "lambdas" => pc = "lambdas" /\ committed' = committed,
         pc' \in {"start", "lambdas"} => pc \in {"start", "lambdas"} /\ choice' = choice
  PROVE  PointsInv'
<1>1. /\ NumSides' = NumSides /\ Codings' = Codings /\ \A l : Base(l)' = Base(l)
  BY SameInput
<1>2. Sided(file.points)' <=> Sided(file.points)
  BY <1>1 DEF Sided, Supports
<1> QED BY <1>1, <1>2 DEF PointsInv

LEMMA GreedyStays ==
  ASSUME GreedyInv, UNCHANGED <<input, file, greedy>>,
         pc' = pc \/ {pc, pc'} \subseteq {"transform", "over"}
  PROVE  GreedyInv'
<1>1. UNCHANGED <<unread, choice, cur_space>>
  BY DEF greedy
<1>2. /\ NumSides' = NumSides /\ Codings' = Codings
  BY SameInput
<1>3. Whole' = Whole /\ OneByOne' = OneByOne /\ Applied' = Applied
  BY <1>1, <1>2 DEF Whole, OneByOne, Applied
<1>4. InOrder' <=> InOrder
  BY <1>1, <1>2, <1>3 DEF InOrder, Separates, ChosenFor
<1>5. /\ \A b : Smallest(b)' <=> Smallest(b)
      /\ ByOneStep' <=> ByOneStep
  BY <1>1, <1>2 DEF ByOneStep, Smallest
<1>6. pc \in {"greedy", "transform", "over"} => (BudgetKept' <=> BudgetKept)
  BY <1>1, <1>2, <1>5 DEF BudgetKept
<1> QED BY <1>1, <1>3, <1>4, <1>6 DEF GreedyInv

(***************************************************************************)
(* The steps to the greedy loop.                                           *)
(***************************************************************************)
LEMMA BaseGrows ==
  ASSUME input \in Inputs, NEW l \in 1 .. NumLists
  PROVE  Base(l) \in Nat /\ Base(l + 1) \in Nat /\ Base(l) <= Base(l + 1)
<1>1. PICK n \in Nat : n = NumLists
  BY InputFacts
<1>2. l \in 1 .. n + 1 /\ l + 1 \in 1 .. n + 1
  BY <1>1
<1>3. PICK a \in Nat, b \in Nat, m \in Nat :
        a = SidesBefore[l] /\ b = SidesBefore[l + 1] /\ m = NumBlocks(l)
  BY <1>1, <1>2, SidesType, InputFacts
<1>4. b = a + 2 * m
  BY <1>3, SidesType
<1>5. a <= b
  BY <1>4
<1> QED BY <1>3, <1>5 DEF Base

LEMMA PointsGrow ==
  ASSUME IndInv, PointsInv, pc = "lambdas", UNCHANGED <<input, pc, choice>>,
         NEW l \in 1 .. NumLists, l = Len(committed) + 1, committed' = Append(committed, l),
         file' = [file EXCEPT !.points = @ \o PointsOf(l, Base(l), CountsOf(l))]
  PROVE  PointsInv'
<1>1. /\ file \in [exists : BOOLEAN, sorted : BOOLEAN, points : Seq(Points)]
      /\ input \in Inputs /\ Sided(file.points) /\ committed \in Seq(Nat)
      /\ \A p \in Range(file.points) : p.block_id <= Base(l)
  BY DEF IndInv, FileInv, QueueInv, PointsInv
<1>2. PICK points \in Seq(Points) :
        /\ points = PointsOf(l, Base(l), CountsOf(l)) /\ Sided(points)
        /\ \A p \in Range(points) : p.block_id <= Base(l + 1)
  BY <1>1, PointsOfType
<1>3. PICK before \in Seq(Points), all \in Seq(Points) :
        before = file.points /\ all = before \o points
  BY <1>1, ConcatProperties
<1>4. Range(all) = Range(before) \cup Range(points)
  BY <1>3, RangeConcatenation
<1>5. file'.points = all
  BY <1>1, <1>2, <1>3
<1>6. Sided(all)
  BY <1>1, <1>2, <1>3, <1>4, SidedUnion
<1>7. Len(committed') = l /\ Len(committed) \in Nat
  BY <1>1, AppendProperties, LenProperties
<1>8. ASSUME NEW p \in Range(all) PROVE p.block_id <= Base(l + 1)
  <2>1. Base(l) \in Nat /\ Base(l + 1) \in Nat /\ Base(l) <= Base(l + 1)
    BY <1>1, BaseGrows
  <2>2. Range(all) \subseteq Points
    BY <1>3, RangeOfSeq
  <2>3. NumSides \in Nat /\ p.block_id \in 1 .. NumSides
    BY <1>1, <2>2, CodingsAt DEF Points
  <2> QED BY <1>1, <1>2, <1>3, <1>4, <2>1, <2>3
<1>9. NumSides' = NumSides /\ Codings' = Codings /\ \A k : Base(k)' = Base(k)
  BY SameInput
<1>10. Sided(file.points)'
  <2>1. Sided(file'.points)
    BY <1>5, <1>6
  <2> QED BY <2>1, <1>9 DEF Sided, Supports
<1> QED BY <1>5, <1>7, <1>8, <1>9, <1>10 DEF PointsInv

LEMMA StartOpt == ASSUME IndInv, IndInv', OptInv, Start PROVE OptInv'
<1>1. /\ pc = "start" /\ UNCHANGED <<input, choice, cur_space, cur_time>>
      /\ choice = [b \in 1 .. NumSides |-> NoCoding]
  BY DEF Start, OptInv, PointsInv
<1>2. SumsInv'
  BY <1>1, SumsStay DEF OptInv
<1>3. NumSides' = NumSides
  BY <1>1, SameInput
<1>4. CASE file.exists
  <2>1. pc' = "greedy" /\ unread' = file.points /\ file' = file
    BY <1>4 DEF Start
  <2>2. PointsInv'
    BY <1>1, <2>1, PointsStay DEF OptInv
  <2>3. (Unchosen /\ pc = "greedy" /\ unread = file.points /\ file.points \in Seq(Points))'
    BY <1>1, <1>3, <2>1 DEF IndInv, FileInv, Unchosen
  <2>4. GreedyInv'
    BY <2>3, GreedyBegins, PTL
  <2> QED BY <1>2, <2>2, <2>4 DEF OptInv
<1>5. CASE ~file.exists
  <2>1. pc' = "lambdas" /\ file' = [file EXCEPT !.exists = TRUE] /\ file.points = <<>>
    BY <1>5 DEF Start, IndInv, FileInv
  <2>2. file'.points = <<>>
    BY <2>1 DEF IndInv, FileInv
  <2>3. Range(file'.points) = {}
    BY <2>2 DEF Range
  <2>4. PointsInv'
    BY <1>1, <1>3, <2>3 DEF PointsInv, Sided
  <2>5. GreedyInv'
    BY <2>1 DEF GreedyInv
  <2> QED BY <1>2, <2>4, <2>5 DEF OptInv
<1> QED BY <1>4, <1>5

LEMMA AddLambdasOpt == ASSUME IndInv, OptInv, AddLambdas PROVE OptInv'
<1> DEFINE l == added + 1
<1>1. /\ pc = "lambdas" /\ pc' = pc /\ l <= NumLists /\ Consume(l)
      /\ UNCHANGED <<input, choice, cur_space, cur_time>> /\ added' = l
  BY DEF AddLambdas, greedy, Jobs!Add, Jobs!AddAndRun
<1>2. GreedyInv' /\ SumsInv'
  BY <1>1, SumsStay DEF GreedyInv, OptInv
<1>3. CASE input.threads
  <2>1. file' = file /\ committed' = committed
    BY <1>3 DEF AddLambdas, Jobs!Add
  <2>2. PointsInv'
    BY <1>1, <2>1, PointsStay DEF OptInv
  <2> QED BY <1>2, <2>2 DEF OptInv
<1>4. CASE ~input.threads
  <2>1. added \in Nat /\ l \in 1 .. NumLists
    BY <1>1, InputFacts DEF IndInv, QueueInv
  <2>2. CountsOf(l) = IF ReadStats.list = l THEN ReadStats.counts ELSE <<>>
    BY <1>1, ConsumeInv
  <2>3. /\ l = Len(committed) + 1 /\ committed' = Append(committed, l)
        /\ file' = [file EXCEPT !.points = @ \o PointsOf(l, Base(l), CountsOf(l))]
    BY <1>4, <2>2 DEF AddLambdas, Jobs!AddAndRun
  <2>4. PointsInv'
    <3> HIDE DEF l
    <3> QED BY <1>1, <2>1, <2>3, PointsGrow DEF OptInv
  <2> QED BY <1>2, <2>4 DEF OptInv
<1> QED BY <1>3, <1>4

LEMMA PrepareLambdasOpt ==
  ASSUME OptInv, NEW j \in 1 .. added, PrepareLambdas(j) PROVE OptInv'
<1>1. /\ pc = "lambdas" /\ UNCHANGED <<input, pc, file, choice, cur_space, cur_time>>
      /\ committed' = committed
  BY DEF PrepareLambdas, greedy, Jobs!Prepare
<1> QED BY <1>1, PointsStay, SumsStay DEF OptInv, GreedyInv

LEMMA CommitLambdasOpt == ASSUME IndInv, OptInv, CommitLambdas PROVE OptInv'
<1> DEFINE j == Len(committed) + 1
<1>1. /\ pc = "lambdas" /\ UNCHANGED <<input, pc, choice, cur_space, cur_time>>
      /\ j \in prepared /\ committed' = Append(committed, j)
      /\ file' = [file EXCEPT !.points = @ \o jobs[j].points]
  BY DEF CommitLambdas, greedy, Jobs!Commit
<1>2. /\ committed \in Seq(Nat) /\ Len(committed) \in Nat /\ prepared \subseteq 1 .. added
      /\ added \in 0 .. NumLists
  BY LenProperties DEF IndInv, QueueInv
<1>3. j \in 1 .. NumLists /\ jobs[j].points = PointsOf(j, Base(j), CountsOf(j))
  <2>1. j \in 1 .. added /\ j > Len(committed)
    BY <1>1, <1>2
  <2>2. j \in 1 .. NumLists
    BY <1>2, <2>1, InputFacts DEF IndInv
  <2> QED BY <1>1, <2>1, <2>2 DEF IndInv, LambdasInv
<1>4. file' = [file EXCEPT !.points = @ \o PointsOf(j, Base(j), CountsOf(j))]
  BY <1>1, <1>3
<1>5. PointsInv'
  <2>1. j = Len(committed) + 1
    OBVIOUS
  <2> HIDE DEF j
  <2> QED BY <1>1, <1>3, <1>4, <2>1, PointsGrow DEF OptInv
<1> QED BY <1>1, <1>5, SumsStay DEF OptInv, GreedyInv

(* A file whose last lists were not committed lacks a side.                *)
LEMMA LastSideMissing ==
  ASSUME IndInv, PointsInv, pc = "lambdas", Len(committed) < NumLists
  PROVE  \E b \in 1 .. NumSides : \A p \in Range(file.points) : p.block_id # b
<1>1. PICK j \in 1 .. NumLists : j = Len(committed) + 1
  <2>1. Len(committed) \in Nat /\ NumLists \in Nat
    BY InputFacts, LenProperties DEF IndInv, QueueInv
  <2> QED BY <2>1
<1>2. NumBlocks(j) \in Nat \ {0}
  BY InputFacts DEF IndInv
<1>3. 1 \in 1 .. 2 * NumBlocks(j)
  BY <1>2
<1>4. Base(j) + 1 \in 1 .. NumSides
  BY <1>3, CodingsAt DEF IndInv
<1>5. Base(j) \in Nat
  <2>1. NumLists \in Nat
    BY InputFacts DEF IndInv
  <2>2. j \in 1 .. NumLists + 1
    BY <2>1
  <2> QED BY <2>2, SidesType DEF Base, IndInv
<1>6. ASSUME NEW p \in Range(file.points) PROVE p.block_id # Base(j) + 1
  <2>1. p.block_id <= Base(j)
    BY <1>1 DEF PointsInv
  <2> QED BY <1>5, <2>1
<1> QED BY <1>4, <1>6

LEMMA SortLambdasOpt == ASSUME IndInv, IndInv', OptInv, SortLambdas PROVE OptInv'
<1>1. /\ pc = "lambdas" /\ UNCHANGED <<input, choice, cur_space, cur_time>>
      /\ file' = [file EXCEPT !.sorted = TRUE] /\ added = NumLists
      /\ choice = [b \in 1 .. NumSides |-> NoCoding]
      /\ file \in [exists : BOOLEAN, sorted : BOOLEAN, points : Seq(Points)]
  BY DEF SortLambdas, Completes, OptInv, PointsInv, IndInv, FileInv
<1>2. SumsInv'
  BY <1>1, SumsStay DEF OptInv
<1>3. NumSides' = NumSides /\ Codings' = Codings
  BY <1>1, SameInput
<1>4. file'.points = file.points /\ pc' \in {"over", "greedy"}
  BY <1>1 DEF SortLambdas, End
<1>5. PointsInv'
  <2>1. Sided(file.points)'
    <3>1. Sided(file.points)
      BY <1>1 DEF OptInv, PointsInv
    <3>2. Sided(file'.points)
      BY <1>4, <3>1
    <3>3. input' = input
      BY <1>1
    <3> QED BY <1>3, <3>2, <3>3 DEF Sided, Supports
  <2> QED BY <1>4, <2>1 DEF PointsInv
<1>6. CASE Len(committed) < added
  <2>1. PICK b \in 1 .. NumSides : \A p \in Range(file.points) : p.block_id # b
    BY <1>1, <1>6, LastSideMissing DEF OptInv
  <2>2. ~Whole'
    BY <1>3, <1>4, <2>1 DEF Whole, Range
  <2> QED BY <1>2, <1>5, <2>2 DEF OptInv, GreedyInv
<1>7. CASE ~(Len(committed) < added)
  <2>1. (Unchosen /\ pc = "greedy" /\ unread = file.points /\ file.points \in Seq(Points))'
    BY <1>1, <1>3, <1>4, <1>7 DEF IndInv, FileInv, Unchosen, SortLambdas
  <2>2. GreedyInv'
    BY <2>1, GreedyBegins, PTL
  <2> QED BY <1>2, <1>5, <2>2 DEF OptInv
<1> QED BY <1>6, <1>7

LEMMA KillOpt == ASSUME IndInv, OptInv, Kill PROVE OptInv'
<1>1. /\ pc = "lambdas" /\ pc' = "over" /\ UNCHANGED <<input, choice, cur_space, cur_time>>
  BY DEF Kill, End, greedy
<1>2. ~file'.sorted
  <2>1. /\ file \in [exists : BOOLEAN, sorted : BOOLEAN, points : Seq(Points)]
        /\ ~file.sorted
    BY <1>1 DEF IndInv, FileInv
  <2> QED BY <2>1 DEF Kill
<1> QED BY <1>1, <1>2, SumsStay DEF OptInv, PointsInv, GreedyInv, Whole

LEMMA RestartOpt == ASSUME IndInv, OptInv, Restart PROVE OptInv'
<1>1. /\ pc' = "start" /\ UNCHANGED <<input, file>> /\ input \in Inputs
      /\ choice' = [b \in 1 .. NumSides |-> NoCoding]
      /\ cur_space' = SpaceBase /\ cur_time' = 0
  BY DEF Restart, IndInv
<1>2. NumSides' = NumSides /\ SpaceBase' = SpaceBase /\ Codings' = Codings
  BY <1>1, SameInput, SameSides
<1>3. (Unchosen /\ cur_space = SpaceBase /\ cur_time = 0)'
  BY <1>1, <1>2 DEF Unchosen
<1>4. SumsInv'
  BY <1>3, SumsOfNone, PTL
<1>5. PointsInv'
  BY <1>1, <1>2 DEF OptInv, PointsInv, Sided, Supports
<1> QED BY <1>1, <1>4, <1>5 DEF OptInv, GreedyInv

(***************************************************************************)
(* A step of the greedy loop.                                              *)
(***************************************************************************)
LEMMA ReadIs ==
  ASSUME IndInv, NEW i \in DOMAIN unread, ReadPoint(i)
  PROVE  /\ pc = "greedy" /\ UNCHANGED <<input, file>> /\ NumSides \in Nat
         /\ unread \in Seq(Points) /\ i \in 1 .. Len(unread) /\ i \in NextPoints
         /\ unread[i] \in Points
         /\ unread[i].block_id \in 1 .. NumSides /\ unread[i].st \in Coding
         /\ choice \in [1 .. NumSides -> Coding]
         /\ choice' = [choice EXCEPT ![unread[i].block_id] = unread[i].st]
         /\ unread' = RemoveAt(unread, i) /\ Range(unread') \subseteq Range(unread)
<1>1. /\ pc = "greedy" /\ UNCHANGED <<input, file>> /\ i \in NextPoints
      /\ choice' = [choice EXCEPT ![unread[i].block_id] = unread[i].st]
      /\ unread' = RemoveAt(unread, i)
  BY DEF ReadPoint
<1>2. /\ unread \in Seq(Points) /\ choice \in [1 .. NumSides -> Coding]
      /\ input \in Inputs /\ NumSides \in Nat
  BY CodingsAt DEF IndInv, ChoiceInv
<1>3. PICK n \in Nat : n = Len(unread) /\ DOMAIN unread = 1 .. n
  BY <1>2, LenProperties
<1>4. unread[i] \in Points
  BY <1>2, <1>3, ElementOfSeq
<1>5. unread[i].block_id \in 1 .. NumSides /\ unread[i].st \in Coding
  BY <1>4 DEF Points
<1>6. PICK r \in Seq(Points) :
        /\ r = unread' /\ Len(r) = n - 1
        /\ \A m \in 1 .. n - 1 : r[m] = IF m < i THEN unread[m] ELSE unread[m + 1]
  <2>1. i \in 1 .. Len(unread)
    BY <1>3
  <2>2. /\ RemoveAt(unread, i) \in Seq(Points)
        /\ Len(RemoveAt(unread, i)) = Len(unread) - 1
        /\ \A m \in 1 .. Len(unread) - 1 :
             RemoveAt(unread, i)[m] = IF m < i THEN unread[m] ELSE unread[m + 1]
    BY <1>2, <2>1, RemoveAtIs
  <2> QED BY <1>1, <1>3, <2>2
<1>7. Range(r) \subseteq Range(unread)
  <2>1. DOMAIN r = 1 .. n - 1
    BY <1>6, LenProperties
  <2>2. ASSUME NEW m \in 1 .. n - 1 PROVE r[m] \in Range(unread)
    <3>1. m \in 1 .. n /\ m + 1 \in 1 .. n
      BY <1>3
    <3> QED BY <1>3, <1>6, <3>1 DEF Range
  <2> QED BY <2>1, <2>2 DEF Range
<1> QED BY <1>1, <1>2, <1>3, <1>4, <1>5, <1>6, <1>7

LEMMA SumsType == NumSides \in Nat /\ SumsInv => cur_space \in Int /\ cur_time \in Int
<1> SUFFICES ASSUME NumSides \in Nat, SumsInv PROVE cur_space \in Int /\ cur_time \in Int
  OBVIOUS
<1>1. NumSides \in 0 .. NumSides
  OBVIOUS
<1> QED BY <1>1 DEF SumsInv, SumsTo

LEMMA ReadSums ==
  ASSUME IndInv, SumsInv, NEW i \in DOMAIN unread, ReadPoint(i) PROVE SumsInv'
<1>1. PICK b \in 1 .. NumSides, st \in Coding : b = unread[i].block_id /\ st = unread[i].st
  BY ReadIs
<1>2. /\ NumSides' = NumSides /\ SpaceBase' = SpaceBase /\ NumSides \in Nat
      /\ choice \in [1 .. NumSides -> Coding] /\ choice' = [choice EXCEPT ![b] = st]
  BY <1>1, ReadIs, SameInput, SameSides
<1>3. Spaces \in [1 .. NumSides -> Int] /\ Times \in [1 .. NumSides -> Int]
  BY <1>2 DEF Spaces, Times, Coding
<1>4. st.space \in Int /\ st.time \in Int
  BY DEF Coding
<1>5. Spaces' = [Spaces EXCEPT ![b] = st.space] /\ Times' = [Times EXCEPT ![b] = st.time]
  BY <1>2 DEF Spaces, Times
<1>6. /\ cur_space' = cur_space - Spaces[b] + st.space
      /\ cur_time' = cur_time - Times[b] + st.time
  BY <1>1 DEF ReadPoint, Spaces, Times
<1>7. SumsTo(cur_space', SpaceBase, [Spaces EXCEPT ![b] = st.space])
  BY <1>2, <1>3, <1>4, <1>6, SumChanges DEF SumsInv
<1>8. SumsTo(cur_time', 0, [Times EXCEPT ![b] = st.time])
  BY <1>2, <1>3, <1>4, <1>6, SumChanges DEF SumsInv
<1>9. SumsTo(cur_space, SpaceBase, Spaces)'
  BY <1>2, <1>5, <1>7 DEF SumsTo
<1>10. SumsTo(cur_time, 0, Times)'
  BY <1>2, <1>5, <1>8 DEF SumsTo
<1> QED BY <1>9, <1>10 DEF SumsInv

(* The smallest codings are read first; a point that exceeds the budget is *)
(* a step from a coding of the same side that did not.                     *)
LEMMA ReadBudget ==
  ASSUME IndInv, OptInv, Whole, input.budget # 0, BudgetKept,
         Range(unread) \subseteq Range(file.points),
         NEW i \in DOMAIN unread, ReadPoint(i)
  PROVE  BudgetKept'
<1>1. PICK p \in Points, b \in 1 .. NumSides : p = unread[i] /\ b = p.block_id
  BY ReadIs
<1>2. /\ pc = "greedy" /\ choice \in [1 .. NumSides -> Coding] /\ p.st \in Coding
      /\ choice' = [choice EXCEPT ![b] = p.st] /\ i \in NextPoints
      /\ unread \in Seq(Points) /\ Range(unread') \subseteq Range(unread)
      /\ input' = input
  BY <1>1, ReadIs
<1>3. NumSides' = NumSides /\ Codings' = Codings
  BY <1>2, SameInput
<1>4. Sided(file.points) /\ p \in Range(file.points) /\ file.sorted
  BY <1>1 DEF OptInv, PointsInv, Whole, Range
<1>5. ASSUME NEW a \in 1 .. NumSides, a # b PROVE choice'[a] = choice[a]
  BY <1>2, <1>5
<1>6. choice'[b] = p.st
  BY <1>2
<1>7. ASSUME NEW a \in 1 .. NumSides, a # b, Smallest(a) PROVE Smallest(a)'
  BY <1>3, <1>5, <1>7 DEF Smallest
<1>8. CASE p.lambda.num = 0
  <2>1. pc' = "greedy"
    BY <1>1, <1>2, <1>8 DEF ReadPoint
  <2>2. \A a \in 1 .. NumSides : Smallest(a)
    BY <1>1, <1>2, <1>8 DEF BudgetKept
  <2>3. Smallest(b)'
    BY <1>1, <1>3, <1>4, <1>6, <1>8 DEF Sided, Smallest
  <2>4. \A a \in 1 .. NumSides : Smallest(a)'
    BY <1>7, <2>2, <2>3
  <2> QED BY <1>3, <2>1, <2>4 DEF BudgetKept
<1>9. CASE p.lambda.num # 0
  <2>1. pc' = IF cur_space' > input.budget THEN "transform" ELSE "greedy"
    BY <1>1, <1>2, <1>9 DEF ReadPoint
  <2>2. \A k \in DOMAIN unread : unread[k].lambda # Zero
    BY <1>1, <1>2, <1>4, <1>9, RootsFirst
  <2>3. \A q \in Range(unread) : q.lambda.num # 0
    BY <1>4, <2>2 DEF Sided, Range
  <2>4. PICK s \in Int, s1 \in Int, m \in Nat :
          s = cur_space /\ s1 = cur_space' /\ m = input.budget
    <3>1. NumSides \in Nat /\ SumsInv /\ SumsInv'
      BY ReadIs, ReadSums DEF OptInv
    <3>2. cur_space \in Int
      BY <3>1, SumsType
    <3>3. (NumSides \in Nat /\ SumsInv)'
      BY <1>3, <3>1
    <3>4. (cur_space \in Int /\ cur_time \in Int)'
      BY <3>3, SumsType, PTL
    <3>5. input.budget \in Nat
      BY InputsAssumption DEF IndInv
    <3> QED BY <3>2, <3>4, <3>5
  <2>5. CASE s1 <= m
    <3>1. pc' = "greedy"
      BY <2>1, <2>4, <2>5
    <3>2. \A q \in Range(unread') : q.lambda.num # 0
      BY <1>2, <2>3
    <3>3. \A k \in DOMAIN unread' : unread'[k].lambda.num # 0
      BY <3>2 DEF Range
    <3>4. cur_space' <= input'.budget
      BY <1>2, <2>4, <2>5
    <3> QED BY <3>1, <3>3, <3>4 DEF BudgetKept
  <2>6. CASE s1 > m
    <3>1. pc' = "transform" /\ ~(cur_space' <= input'.budget)
      BY <1>2, <2>1, <2>4, <2>6
    <3>2. CASE \A a \in 1 .. NumSides : Smallest(a)
      <4>1. \A a \in 1 .. NumSides : a # b => Smallest(a)'
        BY <1>7, <3>2
      <4>2. ByOneStep'
        BY <1>3, <4>1 DEF ByOneStep
      <4> QED BY <3>1, <4>2 DEF BudgetKept
    <3>3. CASE cur_space <= input.budget
      <4>1. choice[b] \in Codings[b]
        <5>1. PICK k \in DOMAIN file.points : file.points[k].block_id = b
          BY DEF Whole
        <5> QED BY <1>2, <1>4, <2>2, <5>1 DEF IndInv, ChoiceInv
      <4>2. s1 = s - choice[b].space + choice'[b].space
        BY <1>1, <1>6, <2>4 DEF ReadPoint
      <4>3. choice[b].space \in Int /\ choice'[b].space \in Int
        BY <1>2, <1>6 DEF Coding
      <4>4. s1 - choice'[b].space + choice[b].space = s
        BY <4>2, <4>3
      <4>5. cur_space' - choice'[b].space + choice[b].space <= input'.budget
        BY <1>2, <2>4, <3>3, <4>4
      <4>6. ByOneStep'
        BY <1>3, <4>1, <4>5 DEF ByOneStep
      <4> QED BY <3>1, <4>6 DEF BudgetKept
    <3> QED BY <1>2, <3>2, <3>3 DEF BudgetKept
  <2> QED BY <2>5, <2>6
<1> QED BY <1>8, <1>9

(* The slope of the point that is applied separates the others.            *)
LEMMA ReadOrder ==
  ASSUME IndInv, file.sorted, Sided(file.points), InOrder,
         Range(unread) \subseteq Range(file.points),
         NEW i \in DOMAIN unread, ReadPoint(i)
  PROVE  InOrder'
<1>1. PICK p \in Points, b \in 1 .. NumSides : p = unread[i] /\ b = p.block_id
  BY ReadIs
<1>2. /\ choice \in [1 .. NumSides -> Coding] /\ i \in 1 .. Len(unread)
      /\ choice' = [choice EXCEPT ![b] = p.st] /\ i \in NextPoints
      /\ unread \in Seq(Points) /\ unread' = RemoveAt(unread, i)
      /\ UNCHANGED <<input, file>>
  BY <1>1, ReadIs
<1>3. NumSides' = NumSides
  BY <1>2, SameInput
<1>4. /\ \A j, k \in DOMAIN unread' : j # k => unread'[j] # unread'[k]
      /\ Range(unread') = Range(unread) \ {p}
  <2>1. \A j, k \in DOMAIN unread : j # k => unread[j] # unread[k]
    BY DEF InOrder
  <2> QED BY <1>1, <1>2, <2>1, RemoveAtOnce
<1>5. p \in Range(unread) /\ p \in Range(file.points)
  BY <1>1 DEF Range
<1>6. Applied' = Applied \cup {p}
  BY <1>2, <1>4, <1>5 DEF Applied
<1>7. \A q \in Range(file.points) : q.lambda \in Slope
  BY DEF Sided
<1>8. PICK l \in Slope : Separates(l)
  BY DEF InOrder
<1>9. ASSUME NEW r \in Applied' PROVE ~Below(p.lambda, r.lambda)
  <2>1. CASE r = p
    <3>1. PICK n \in Nat, d \in Nat : n = p.lambda.num /\ d = p.lambda.den
      BY <1>5, <1>7 DEF Slope
    <3>2. n * d \in Nat
      OBVIOUS
    <3>3. ~(n * d < n * d)
      BY <3>2
    <3> QED BY <2>1, <3>1, <3>3 DEF Below
  <2>2. CASE r # p
    <3>1. r \in Applied /\ r \in Range(file.points)
      BY <1>6, <1>9, <2>2 DEF Applied
    <3>2. ~Below(l, r.lambda) /\ ~Below(p.lambda, l)
      BY <1>5, <1>8, <3>1 DEF Separates
    <3> QED BY <1>5, <1>7, <3>1, <3>2, SlopesOrdered
  <2> QED BY <2>1, <2>2
<1>10. \A q \in Range(unread') : ~Below(q.lambda, p.lambda)
  <2>1. \A k \in DOMAIN unread : ~Below(unread[k].lambda, p.lambda)
    BY <1>1, <1>2 DEF NextPoints
  <2> QED BY <1>4, <2>1 DEF Range
<1>11. \E s \in Slope : Separates(s)'
  <2>1. Separates(p.lambda)'
    <3>1. ASSUME NEW s, s = p.lambda PROVE Separates(s)'
      BY <1>9, <1>10, <3>1 DEF Separates
    <3> QED BY <1>9, <1>10 DEF Separates
  <2> QED BY <1>5, <1>7, <1>9, <1>10 DEF Separates
<1>12. ASSUME NEW a \in 1 .. NumSides PROVE ChosenFor(a)'
  <2>1. CASE a = b
    <3>1. choice'[a] = p.st
      BY <1>2, <2>1
    <3> QED BY <1>1, <1>6, <1>9, <2>1, <3>1 DEF ChosenFor
  <2>2. CASE a # b
    <3>1. choice'[a] = choice[a] /\ ChosenFor(a)
      BY <1>2, <2>2 DEF InOrder
    <3>2. p.block_id # a
      BY <1>1, <2>2
    <3>3. CASE choice[a] = NoCoding /\ \A r \in Applied : r.block_id # a
      BY <1>6, <3>1, <3>2, <3>3 DEF ChosenFor
    <3>4. ASSUME NEW q \in Applied, q.block_id = a, choice[a] = q.st,
                 \A r \in Applied : r.block_id = a => ~Below(q.lambda, r.lambda)
          PROVE  ChosenFor(a)'
      <4>1. \A r \in Applied' : r.block_id = a => ~Below(q.lambda, r.lambda)
        BY <1>6, <3>2, <3>4
      <4>2. q \in Applied'
        BY <1>6
      <4> QED BY <3>1, <3>4, <4>1, <4>2 DEF ChosenFor
    <3> QED BY <3>1, <3>3, <3>4 DEF ChosenFor
  <2> QED BY <2>1, <2>2
<1> QED BY <1>3, <1>4, <1>11, <1>12 DEF InOrder

LEMMA ReadPointOpt ==
  ASSUME IndInv, OptInv, NEW i \in DOMAIN unread, ReadPoint(i) PROVE OptInv'
<1>1. /\ pc = "greedy" /\ UNCHANGED <<input, file>>
      /\ Range(unread') \subseteq Range(unread)
  BY ReadIs
<1>2. NumSides' = NumSides
  BY <1>1, SameInput
<1>3. pc' \in {"greedy", "transform", "over"}
  BY <1>1 DEF ReadPoint, End
<1>4. PointsInv'
  BY <1>1, <1>3, PointsStay DEF OptInv
<1>5. GreedyInv'
  <2>1. SUFFICES ASSUME Whole'
                 PROVE  /\ Range(unread') \subseteq Range(file'.points)
                        /\ input'.budget # 0 => BudgetKept'
                        /\ OneByOne' => InOrder'
    BY DEF GreedyInv
  <2>2. Whole /\ (OneByOne' => OneByOne)
    BY <1>1, <1>2, <2>1 DEF Whole, OneByOne
  <2>3. /\ Range(unread) \subseteq Range(file.points)
        /\ input.budget # 0 => BudgetKept
        /\ OneByOne => InOrder
    BY <1>1, <2>2 DEF OptInv, GreedyInv
  <2>4. Sided(file.points) /\ file.sorted
    BY <2>2 DEF OptInv, PointsInv, Whole
  <2>5. input.budget # 0 => BudgetKept'
    BY <2>2, <2>3, ReadBudget
  <2>6. OneByOne => InOrder'
    BY <2>3, <2>4, ReadOrder
  <2> QED BY <1>1, <2>2, <2>3, <2>5, <2>6
<1> QED BY <1>4, <1>5, ReadSums DEF OptInv

LEMMA AllReadOpt == ASSUME OptInv, AllRead PROVE OptInv'
<1>1. /\ pc = "greedy" /\ pc' \in {"transform", "over"} /\ unread = <<>>
      /\ UNCHANGED <<input, file, unread, choice, cur_space, cur_time>>
      /\ input.budget # 0 => pc' = "transform"
  BY DEF AllRead, End, greedy
<1>2. NumSides' = NumSides /\ Codings' = Codings
  BY <1>1, SameInput
<1>3. PointsInv' /\ SumsInv'
  BY <1>1, PointsStay, SumsStay DEF OptInv
<1>4. Whole' = Whole /\ OneByOne' = OneByOne /\ Applied' = Applied
  BY <1>1, <1>2 DEF Whole, OneByOne, Applied
<1>5. InOrder' <=> InOrder
  BY <1>1, <1>2, <1>4 DEF InOrder, Separates, ChosenFor
<1>6. ASSUME input.budget # 0, BudgetKept PROVE BudgetKept'
  <2>1. \/ cur_space <= input.budget
        \/ \A b \in 1 .. NumSides : Smallest(b)
    BY <1>1, <1>6 DEF BudgetKept
  <2>2. ByOneStep
    BY <2>1 DEF ByOneStep
  <2>3. ByOneStep'
    BY <1>1, <1>2, <2>2 DEF ByOneStep, Smallest
  <2> QED BY <1>1, <1>6, <2>3 DEF BudgetKept
<1>7. GreedyInv'
  BY <1>1, <1>4, <1>5, <1>6 DEF OptInv, GreedyInv
<1> QED BY <1>3, <1>7 DEF OptInv

(* The jobs that transform the lists leave the choice as it is.            *)
LEMMA TransformOpt ==
  ASSUME OptInv,
         \/ AddTransformer \/ CommitTransformer \/ Build \/ Over \/ UNCHANGED vars
         \/ \E j \in 1 .. added : PrepareTransformer(j)
  PROVE  OptInv'
<1>1. CASE UNCHANGED vars
  <2>1. UNCHANGED <<input, file, pc, committed, unread, choice, cur_space, cur_time, greedy>>
    BY <1>1 DEF vars, queue, greedy
  <2> QED BY <2>1, PointsStay, SumsStay, GreedyStays DEF OptInv
<1>2. CASE \/ AddTransformer \/ CommitTransformer \/ Build
           \/ \E j \in 1 .. added : PrepareTransformer(j)
  <2>1. /\ UNCHANGED <<input, file, greedy>>
        /\ {pc, pc'} \subseteq {"transform", "over"}
    BY <1>2 DEF AddTransformer, CommitTransformer, Build, PrepareTransformer, End
  <2>2. UNCHANGED <<choice, cur_space, cur_time>>
    BY <2>1 DEF greedy
  <2> QED BY <2>1, <2>2, PointsStay, SumsStay, GreedyStays DEF OptInv
<1> QED BY <1>1, <1>2 DEF Over

LEMMA StepOpt == IndInv /\ OptInv /\ [Next]_vars => OptInv'
<1> SUFFICES ASSUME IndInv, OptInv, [Next]_vars PROVE OptInv'
  OBVIOUS
<1>1. IndInv'
  BY StepInv
<1>2. CASE Start \/ AddLambdas \/ CommitLambdas \/ SortLambdas \/ Kill \/ Restart
  BY <1>1, <1>2, StartOpt, AddLambdasOpt, CommitLambdasOpt, SortLambdasOpt, KillOpt,
     RestartOpt
<1>3. ASSUME NEW j \in 1 .. added, PrepareLambdas(j) PROVE OptInv'
  BY <1>3, PrepareLambdasOpt
<1>4. ASSUME NEW i \in DOMAIN unread, ReadPoint(i) PROVE OptInv'
  BY <1>4, ReadPointOpt
<1>5. CASE AllRead
  BY <1>5, AllReadOpt
<1>6. CASE \/ AddTransformer \/ CommitTransformer \/ Build \/ Over \/ UNCHANGED vars
           \/ \E j \in 1 .. added : PrepareTransformer(j)
  BY <1>6, TransformOpt
<1> QED BY <1>2, <1>3, <1>4, <1>5, <1>6 DEF Next

(***************************************************************************)
(* Whatever the index, the statistics of its blocks, the budget and the    *)
(* settings, and whatever order the threads work in: from a file that has  *)
(* the points of all blocks the greedy loop chooses codings that no other  *)
(* choice beats in both space and time, leaves the budget by one step of   *)
(* one block at most, and does not stop while the budget lasts.            *)
(***************************************************************************)
THEOREM ChoosesTheBest == Spec => []ChoiceIsOptimal
<1>1. Init => IndInv /\ OptInv
  BY InitInv, InitOpt
<1>2. IndInv /\ OptInv /\ [Next]_vars => IndInv' /\ OptInv'
  BY StepInv, StepOpt
<1>3. IndInv /\ OptInv => ChoiceIsOptimal
  BY NothingIsBetterImplied, OneStepImplied DEF ChoiceIsOptimal
<1> QED BY <1>1, <1>2, <1>3, PTL DEF Spec

=============================================================================
