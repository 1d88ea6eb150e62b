--------------------------- MODULE IndexedSequence ---------------------------
(***************************************************************************)
(* src/indexed_sequence.hpp and src/strict_sequence.hpp: a sequence in the *)
(* encoding s.type that takes the least space, which stores s.bits, and    *)
(* the two encodings that are small enough to live here:                   *)
(* all_ones_sequence.hpp, which stores nothing, and strict_elias_fano.hpp, *)
(* which takes the position off each value.  Enumerators are as in         *)
(* CompactEliasFano.                                                       *)
(***************************************************************************)
EXTENDS Integers, Sequences

CONSTANTS EfLogSampling0, EfLogSampling1, RbLogRank1Sampling, RbLogSampling1,
          LinearScanThreshold

EF == INSTANCE CompactEliasFano
RB == INSTANCE CompactRankedBitvector

AllTypes == {"all_ones", "elias_fano", "strict_elias_fano", "ranked_bitvector"}

(* The encodings write() may choose for n values: all_ones costs nothing   *)
(* where it is possible, which of the others is shorter depends on the     *)
(* bits.  The sums of frequencies are strict sequences.                    *)
AllOnes(universe, n) == universe = n \/ n = 1

IndexedTypes(universe, n) ==
    IF AllOnes(universe, n) THEN {"all_ones"}
    ELSE {"elias_fano", "ranked_bitvector"}

StrictTypes(universe, n) ==
    IF AllOnes(universe, n) THEN {"all_ones"}
    ELSE {"strict_elias_fano", "ranked_bitvector"}

Types(universe, n, strict) ==
    IF strict THEN StrictTypes(universe, n) ELSE IndexedTypes(universe, n)

(* bitsize(): the smallest encoding, and the bit that tells which it is.   *)
(* Strict sequences are stored without pointers to zeros and counts.       *)
Bitsize(universe, n, strict) ==
    LET flat == IF strict THEN universe - n + 1 ELSE universe
        elias_fano == EF!Bitsize(flat, n, ~strict)
        ranked_bitvector == RB!Bitsize(universe, n, ~strict)
    IN  IF AllOnes(universe, n) THEN 0
        ELSE 1 + IF elias_fano < ranked_bitvector THEN elias_fano
                 ELSE ranked_bitvector

(* strict_elias_fano: the values less their positions.                     *)
Flat(universe, values) ==
    EF!Written(universe - Len(values) + 1,
               [i \in DOMAIN values |-> values[i] - (i - 1)])

Written(type, universe, values) ==
    [type |-> type, universe |-> universe, size |-> Len(values),
     bits |-> CASE type = "elias_fano" -> EF!Written(universe, values)
                [] type = "strict_elias_fano" -> Flat(universe, values)
                [] type = "ranked_bitvector" -> RB!Written(universe, values)
                [] type = "all_ones" -> <<>>]

(* What all_ones_sequence::write asserts of the values it is given.        *)
AllOnesAsserted(s, values) ==
    s.type = "all_ones" => values[s.size] = s.universe - 1

(* all_ones: n values in a universe of n, or the last of the universe.     *)
AllOnesAt(s, position) ==
    [position |-> position,
     value |-> IF s.size = 1 THEN s.universe - 1 ELSE position]

(* Between the values of strict_elias_fano and those that it stores.       *)
Raise(e) == [e EXCEPT !.value = e.value + e.position]
Lower(e) == [e EXCEPT !.value = e.value - e.position]

Start(s) ==
    CASE s.type = "elias_fano" -> EF!Start(s.bits)
      [] s.type = "strict_elias_fano" -> Raise(EF!Start(s.bits))
      [] s.type = "ranked_bitvector" -> RB!Start(s.bits)
      [] s.type = "all_ones" -> AllOnesAt(s, s.size)

move(s, e, to) ==
    CASE s.type = "elias_fano" -> EF!move(s.bits, e, to)
      [] s.type = "strict_elias_fano" -> Raise(EF!move(s.bits, Lower(e), to))
      [] s.type = "ranked_bitvector" -> RB!move(s.bits, e, to)
      [] s.type = "all_ones" -> AllOnesAt(s, to)

next(s, e) ==
    CASE s.type = "elias_fano" -> EF!next(s.bits, e)
      [] s.type = "strict_elias_fano" -> Raise(EF!next(s.bits, Lower(e)))
      [] s.type = "ranked_bitvector" -> RB!next(s.bits, e)
      [] s.type = "all_ones" -> AllOnesAt(s, e.position + 1)

(* Not offered by the strict encodings.                                    *)
next_geq(s, e, lower_bound) ==
    CASE s.type = "elias_fano" -> EF!next_geq(s.bits, e, lower_bound)
      [] s.type = "ranked_bitvector" -> RB!next_geq(s.bits, e, lower_bound)
      [] s.type = "all_ones" ->
            AllOnesAt(s, IF s.size = 1 THEN 0 ELSE lower_bound)

prev_value(s, e) ==
    CASE s.type = "elias_fano" -> EF!prev_value(s.bits, e)
      [] s.type = "strict_elias_fano" ->
            IF e.position = 0 THEN 0
            ELSE EF!prev_value(s.bits, Lower(e)) + e.position - 1
      [] s.type = "ranked_bitvector" -> RB!prev_value(s.bits, e)
      [] s.type = "all_ones" ->
            IF e.position = 0 THEN 0
            ELSE IF s.size = 1 THEN s.universe - 1 ELSE e.position - 1

(* The bits the enumerator reads from are those of its position.           *)
InStep(s, e) ==
    CASE s.type = "elias_fano" -> EF!InStep(s.bits, e)
      [] s.type = "strict_elias_fano" -> EF!InStep(s.bits, Lower(e))
      [] s.type = "ranked_bitvector" -> RB!InStep(s.bits, e)
      [] s.type = "all_ones" -> TRUE
=============================================================================
