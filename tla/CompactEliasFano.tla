-------------------------- MODULE CompactEliasFano --------------------------
(***************************************************************************)
(* src/compact_elias_fano.hpp: a sorted sequence of values below a         *)
(* universe.  The high part of the i-th value is a one in a bit vector,    *)
(* with pointers to some of its ones and zeros, the low part is stored as  *)
(* it is.  An enumerator e has a position, the value there and the bit its *)
(* unary enumerator has consumed; the operators give the enumerator that a *)
(* call leaves.                                                            *)
(***************************************************************************)
EXTENDS UnaryEnumerator, Sequences

CONSTANTS
    EfLogSampling0,         \* ef_log_sampling0
    EfLogSampling1,         \* ef_log_sampling1
    LinearScanThreshold     \* the longest skip that is read step by step

Shr(n, bits) == n \div 2^bits

(* The width of the low parts: msb(universe / n).                          *)
LowerBits(universe, n) ==
    IF universe > n
    THEN CHOOSE l \in 0 .. universe :
            2^l <= universe \div n /\ universe \div n < 2^(l + 1)
    ELSE 0

(* bitsize(): the bits offsets lays out for n values: pointers, high and   *)
(* low parts.  Some users do without the pointers to zeros.                *)
Bitsize(universe, n, index_zeros) ==
    LET bits == LowerBits(universe, n)
        high == n + Shr(universe, bits) + 2
        pointers0 == IF index_zeros THEN Shr(high - n, EfLogSampling0) ELSE 0
    IN  (pointers0 + Shr(n, EfLogSampling1)) * CeilLog2(high)
        + high + n * bits

(* What write() stores of a sequence: the ones, the zeros between them and *)
(* two more as padding, the low parts.                                     *)
Written(universe, values) ==
    LET n == Len(values)
        bits == LowerBits(universe, n)
        high(i) == Shr(values[i + 1], bits) + i + 1
        ones == {high(i) : i \in 0 .. n - 1}
    IN  [universe |-> universe,
         size |-> n,
         lower_bits |-> bits,
         ones |-> ones,
         zeros |-> (0 .. n + Shr(universe, bits) + 1) \ ones,
         lows |-> [i \in 0 .. n - 1 |-> values[i + 1] % 2^bits]]

(* Mutant: the zero in front, which pads the bits, is not counted.         *)
Pointer0Unpadded(s, i) ==
    IF i = 0 THEN 0 ELSE Kth(s.zeros, i * 2^EfLogSampling0 + 1)

(* The pointers to every 2^EfLogSampling0-th zero and so many ones; the    *)
(* first is not stored, the enumerator starts at the first bit instead.    *)
Pointer0(s, i) == IF i = 0 THEN 0 ELSE Kth(s.zeros, i * 2^EfLogSampling0)
Pointer1(s, i) == IF i = 0 THEN 0 ELSE Kth(s.ones, i * 2^EfLogSampling1)

(* The value whose high part is the given bit, read at position i.         *)
Value(s, i, bit) == (bit - i - 1) * 2^s.lower_bits + s.lows[i]

Start(s) == [position |-> s.size, value |-> s.universe, high |-> 0]

ReadAt(s, i, bit) == [position |-> i, value |-> Value(s, i, bit), high |-> bit]

AtEnd(s, e) == [e EXCEPT !.position = s.size, !.value = s.universe]

(* move and slow_move.  A short way forward is read or skipped bit by bit, *)
(* any other starts from a pointer.                                        *)
move(s, e, to) ==
    LET skip == to - e.position
        ptr == Shr(to, EfLogSampling1)
    IN  IF skip = 0 THEN e
        ELSE IF to = s.size THEN AtEnd(s, e)
        ELSE IF skip > 0 /\ (skip <= LinearScanThreshold
                                \/ Shr(skip, EfLogSampling1) = 0)
        THEN ReadAt(s, to, OneAfter(s.ones, e.high, skip - 1))
        ELSE ReadAt(s, to, OneFrom(s.ones, Pointer1(s, ptr),
                                   to - ptr * 2^EfLogSampling1))

next(s, e) ==
    IF e.position + 1 < s.size
    THEN ReadAt(s, e.position + 1, OneAfter(s.ones, e.high, 0))
    ELSE [AtEnd(s, e) EXCEPT !.position = e.position + 1]

(* The reading loop of next_geq: from position i, with the unary           *)
(* enumerator at bit, up to a value of at least the bound or the end.      *)
ReadUpTo(s, i, bit, lower_bound) ==
    LET one(p) == OneAfter(s.ones, bit, p - i)
        found == {p \in i .. s.size - 1 : Value(s, p, one(p)) >= lower_bound}
        stop == CHOOSE p \in found : \A q \in found : p <= q
    IN  IF found # {} THEN ReadAt(s, stop, one(stop))
        ELSE [position |-> IF i < s.size THEN s.size ELSE i,
              value |-> s.universe,
              high |-> IF i < s.size THEN one(s.size - 1) ELSE bit]

(* next_geq and slow_next_geq.  A distant bound is found by its high part: *)
(* as many zeros precede the values that share it.                         *)
next_geq(s, e, lower_bound) ==
    LET high_lower_bound == Shr(lower_bound, s.lower_bits)
        high_diff == high_lower_bound - Shr(e.value, s.lower_bits)
        ptr == Shr(high_lower_bound, EfLogSampling0)
        zero == IF lower_bound > e.value /\ Shr(high_diff, EfLogSampling0) = 0
                THEN ZeroFrom(s.zeros, e.high, high_diff)
                ELSE ZeroFrom(s.zeros, Pointer0(s, ptr),
                              high_lower_bound - ptr * 2^EfLogSampling0)
    IN  IF lower_bound = e.value THEN e
        ELSE IF lower_bound > e.value /\ high_diff <= LinearScanThreshold
        THEN ReadUpTo(s, e.position + 1, e.high, lower_bound)
        ELSE IF lower_bound >= s.universe THEN move(s, e, s.size)
        ELSE ReadUpTo(s, zero - high_lower_bound, zero, lower_bound)

(* The value before the one at the position, 0 at the first.               *)
prev_value(s, e) ==
    LET before == IF e.position < s.size THEN OneBefore(s.ones, e.high)
                  ELSE OneBefore(s.ones, Kth(s.ones, s.size - 1) + 1)
    IN  IF e.position = 0 THEN 0 ELSE Value(s, e.position - 1, before)

(* The unary enumerator is at the bit of the value the enumerator is at,   *)
(* which has not gone past the end.                                        *)
InStep(s, e) ==
    /\ e.position <= s.size
    /\ e.position < s.size => e.high = Kth(s.ones, e.position)
=============================================================================
