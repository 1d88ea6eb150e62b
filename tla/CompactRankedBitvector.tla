----------------------- MODULE CompactRankedBitvector -----------------------
(***************************************************************************)
(* src/compact_ranked_bitvector.hpp: a strictly increasing sequence as a   *)
(* bit vector with a one for each of its values, pointers to some of the   *)
(* ones and the number of ones before some of the bits.  Enumerators are   *)
(* as in CompactEliasFano.                                                 *)
(***************************************************************************)
EXTENDS UnaryEnumerator, Sequences

CONSTANTS
    RbLogRank1Sampling,     \* rb_log_rank1_sampling
    RbLogSampling1,         \* rb_log_sampling1
    LinearScanThreshold

Shr(n, bits) == n \div 2^bits

(* bitsize(): a bit for each number below the universe, the pointers to    *)
(* ones, and the counts of ones, which some users do without.              *)
Bitsize(universe, n, index_ranks) ==
    LET samples == IF index_ranks THEN Shr(universe, RbLogRank1Sampling) ELSE 0
    IN  samples * CeilLog2(n + 1)
        + Shr(n, RbLogSampling1) * CeilLog2(universe) + universe

(* What write() stores of a sequence: a one for each value.                *)
Written(universe, values) ==
    [universe |-> universe, size |-> Len(values),
     ones |-> {values[i] : i \in DOMAIN values}]

(* The pointers to every 2^RbLogSampling1-th one, and the number of ones   *)
(* before every 2^RbLogRank1Sampling-th bit.                               *)
Pointer1(s, i) == IF i = 0 THEN 0 ELSE Kth(s.ones, i * 2^RbLogSampling1)
Popcount(s, from, to) == Cardinality({b \in s.ones : from <= b /\ b < to})
Rank1Sample(s, i) == IF i = 0 THEN 0 ELSE Popcount(s, 0, i * 2^RbLogRank1Sampling)

Start(s) == [position |-> s.size, value |-> s.universe, high |-> 0]

ReadAt(i, bit) == [position |-> i, value |-> bit, high |-> bit]

AtEnd(s, e) == [e EXCEPT !.position = s.size, !.value = s.universe]

(* move and slow_move.                                                     *)
move(s, e, to) ==
    LET skip == to - e.position
        ptr == Shr(to, RbLogSampling1)
    IN  IF skip = 0 THEN e
        ELSE IF to = s.size THEN AtEnd(s, e)
        ELSE IF skip > 0 /\ (skip <= LinearScanThreshold
                                \/ Shr(skip, RbLogSampling1) = 0)
        THEN ReadAt(to, OneAfter(s.ones, e.high, skip - 1))
        ELSE ReadAt(to, OneFrom(s.ones, Pointer1(s, ptr),
                                to - ptr * 2^RbLogSampling1))

next(s, e) ==
    IF e.position + 1 < s.size
    THEN ReadAt(e.position + 1, OneAfter(s.ones, e.high, 0))
    ELSE [AtEnd(s, e) EXCEPT !.position = e.position + 1]

(* The loop of next_geq for a bound near by.                               *)
Scan(s, e, lower_bound) ==
    LET one(p) == OneAfter(s.ones, e.high, p - e.position - 1)
        found == {p \in e.position + 1 .. s.size - 1 : one(p) >= lower_bound}
        stop == CHOOSE p \in found : \A q \in found : p <= q
    IN  IF found # {} THEN ReadAt(stop, one(stop))
        ELSE IF e.position + 1 < s.size
        THEN [AtEnd(s, e) EXCEPT !.high = one(s.size - 1)]
        ELSE [AtEnd(s, e) EXCEPT !.position = e.position + 1]

(* slow_next_geq counts the ones before the bound, from the value it is at *)
(* or from a sample, and reads the next one.                               *)
SlowNextGeq(s, e, lower_bound) ==
    LET sample == Shr(lower_bound, RbLogRank1Sampling)
        position ==
            IF lower_bound > e.value
               /\ Shr(lower_bound - e.value, RbLogRank1Sampling) = 0
            THEN e.position + Popcount(s, e.value, lower_bound)
            ELSE Rank1Sample(s, sample)
                    + Popcount(s, sample * 2^RbLogRank1Sampling, lower_bound)
    IN  IF position < s.size
        THEN ReadAt(position, OneFrom(s.ones, lower_bound, 0))
        ELSE [position |-> position, value |-> s.universe, high |-> lower_bound]

next_geq(s, e, lower_bound) ==
    IF lower_bound = e.value THEN e
    ELSE IF lower_bound > e.value
            /\ lower_bound - e.value <= LinearScanThreshold
    THEN Scan(s, e, lower_bound)
    ELSE IF lower_bound >= s.universe THEN move(s, e, s.size)
    ELSE SlowNextGeq(s, e, lower_bound)

(* The value before the one at the position, 0 at the first.               *)
prev_value(s, e) ==
    IF e.position = 0 THEN 0
    ELSE OneBefore(s.ones, IF e.position < s.size THEN e.high ELSE s.universe)

(* The unary enumerator is at the bit of the value the enumerator is at,   *)
(* which has not gone past the end.                                        *)
InStep(s, e) ==
    /\ e.position <= s.size
    /\ e.position < s.size => e.high = Kth(s.ones, e.position)
=============================================================================
