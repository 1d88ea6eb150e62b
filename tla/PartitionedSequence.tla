------------------------- MODULE PartitionedSequence -------------------------
(***************************************************************************)
(* src/partitioned_sequence.hpp and src/uniform_partitioned_sequence.hpp:  *)
(* a strictly increasing sequence cut into partitions s.parts, which end   *)
(* at the positions s.ends.  In the uniform one (s.uniform) all but the    *)
(* last are equally long.  An enumerator keeps where its current partition *)
(* begins and ends, the least and the largest value there, and an          *)
(* enumerator `inner' of the partition.                                    *)
(***************************************************************************)
EXTENDS Integers, Sequences, SequencesExt

CONSTANTS EfLogSampling0, EfLogSampling1, RbLogRank1Sampling, RbLogSampling1,
          LinearScanThreshold,
          LogPartitionSize      \* log_partition_size

EF == INSTANCE CompactEliasFano
Base == INSTANCE IndexedSequence

Partitions(s) == Len(s.parts)

(* The ways write() may cut a list of n values: at any positions (which is *)
(* a matter of their cost), or into equal parts.                           *)
Cuts(n, uniform) ==
    LET parts == IF uniform THEN (n - 1) \div 2^LogPartitionSize + 1 ELSE 0
    IN  IF uniform
        THEN {[p \in 1..parts |-> IF p = parts THEN n
                                  ELSE p * 2^LogPartitionSize]}
        ELSE {SetToSortSeq(ends \cup {n}, <) : ends \in SUBSET (1 .. n - 1)}

(* What write() stores of a list cut at these ends, with partitions of     *)
(* these types: the partitions, relative to the value after the largest    *)
(* one before; but for a single one, the first value and the largest ones  *)
(* of the partitions; where they end, unless they are uniform.             *)
Cut(universe, values, uniform, ends, types) ==
    LET n == Len(values)
        begin == [p \in DOMAIN ends |-> IF p = 1 THEN 0 ELSE ends[p - 1]]
        base == [p \in DOMAIN ends |->
                    IF p = 1 THEN values[1] ELSE values[ends[p - 1]] + 1]
        part(p) == Base!Written(types[p], values[ends[p]] - base[p] + 1,
                       [i \in 1 .. ends[p] - begin[p] |->
                            values[begin[p] + i] - base[p]])
        one == Len(ends) = 1
    IN  [type |-> "partitioned", universe |-> universe, size |-> n,
         uniform |-> uniform, ends |-> ends,
         parts |-> [p \in DOMAIN ends |-> part(p)],
         base |-> values[1], upper_bound |-> values[n],
         sizes |-> IF one \/ uniform THEN <<>>
                   ELSE EF!Written(n, SubSeq(ends, 1, Len(ends) - 1)),
         upper_bounds |->
            IF one THEN <<>>
            ELSE EF!Written(universe, <<values[1]>> \o
                                [p \in DOMAIN ends |-> values[ends[p]]])]

Written(universe, values, uniform, strict) ==
    LET fit(s) == \A p \in DOMAIN s.parts :
                    s.parts[p].type \in Base!Types(s.parts[p].universe,
                                                   s.parts[p].size, strict)
    IN  {s \in UNION {{Cut(universe, values, uniform, ends, types) :
                            types \in [DOMAIN ends -> Base!AllTypes]} :
                        ends \in Cuts(Len(values), uniform)} : fit(s)}

(* Mutant: the least value of a partition is the largest one before it.    *)
FromLargest(p, prev_value_of_ub) == prev_value_of_ub

(* The least value of partition p, from the upper bound before its own.    *)
CurBase(p, prev_value_of_ub) == prev_value_of_ub + IF p = 0 THEN 0 ELSE 1

(* Where partition p begins and ends: read from the sequence of the ends,  *)
(* or a multiple of the size of a partition.                               *)
Extent(s, e, p) ==
    LET sizes == EF!move(s.sizes, e.sizes, p)
    IN  [cur_begin |-> EF!prev_value(s.sizes, sizes), cur_end |-> sizes.value,
         sizes |-> sizes]

UniformExtent(s, e, p) ==
    [cur_begin |-> p * 2^LogPartitionSize,
     cur_end |-> IF (p + 1) * 2^LogPartitionSize < s.size
                 THEN (p + 1) * 2^LogPartitionSize ELSE s.size,
     sizes |-> e.sizes]

(* The extent and the bounds of the new partition.                         *)
switch_partition(s, e, p) ==
    LET upper_bounds == EF!move(s.upper_bounds, e.upper_bounds, p + 1)
        extent == IF s.uniform THEN UniformExtent(s, e, p) ELSE Extent(s, e, p)
    IN  [e EXCEPT !.cur_partition = p,
                  !.cur_begin = extent.cur_begin,
                  !.cur_end = extent.cur_end,
                  !.cur_base = CurBase(p, EF!prev_value(s.upper_bounds,
                                                        upper_bounds)),
                  !.cur_upper_bound = upper_bounds.value,
                  !.sizes = extent.sizes,
                  !.upper_bounds = upper_bounds,
                  !.inner = Base!Start(s.parts[p + 1])]

(* The answer at a position when the enumerator of the partition is left   *)
(* at inner.                                                               *)
Within(e, position, inner) ==
    [e EXCEPT !.inner = inner, !.position = position,
              !.value = e.cur_base + inner.value]

Inner(s, e) == s.parts[e.cur_partition + 1]

(* To a position in the current partition.                                 *)
MoveHere(s, e, to) ==
    Within(e, to, Base!move(Inner(s, e), e.inner, to - e.cur_begin))

(* Behind the last value, from the last partition.                         *)
MoveToEnd(s, e) ==
    [e EXCEPT !.inner = Base!move(Inner(s, e), e.inner, Inner(s, e).size),
              !.position = s.size, !.value = s.universe]

slow_move(s, e, to) ==
    LET size_it == EF!next_geq(s.sizes, e.sizes, to + 1)
        sought == IF s.uniform THEN e ELSE [e EXCEPT !.sizes = size_it]
        p == IF s.uniform THEN to \div 2^LogPartitionSize ELSE size_it.position
    IN  IF to = s.size
        THEN MoveToEnd(s, IF Partitions(s) = 1 THEN e
                          ELSE switch_partition(s, e, Partitions(s) - 1))
        ELSE MoveHere(s, switch_partition(s, sought, p), to)

move(s, e, to) ==
    IF e.cur_begin <= to /\ to < e.cur_end THEN MoveHere(s, e, to)
    ELSE slow_move(s, e, to)

(* The constructor leaves the enumerator behind the last value.            *)
Start(s) ==
    LET one == Partitions(s) = 1
    IN  slow_move(s,
            [position |-> s.size, value |-> s.universe,
             cur_partition |-> 0, cur_begin |-> 0, cur_end |-> s.size,
             cur_base |-> s.base,
             cur_upper_bound |-> s.upper_bound,
             sizes |-> IF one \/ s.uniform THEN <<>> ELSE EF!Start(s.sizes),
             upper_bounds |-> IF one THEN <<>> ELSE EF!Start(s.upper_bounds),
             inner |-> IF one THEN Base!Start(s.parts[1]) ELSE <<>>],
            s.size)

(* next and slow_next.                                                     *)
next(s, e) ==
    LET to == e.position + 1 IN
    IF to < e.cur_end THEN Within(e, to, Base!next(Inner(s, e), e.inner))
    ELSE IF to = s.size
    THEN [e EXCEPT !.inner = Base!next(Inner(s, e), e.inner),
                   !.position = to, !.value = s.universe]
    ELSE MoveHere(s, switch_partition(s, e, e.cur_partition + 1), to)

(* A bound in the current partition.                                       *)
NextGeqHere(s, e, lower_bound) ==
    LET inner == Base!next_geq(Inner(s, e), e.inner, lower_bound - e.cur_base)
    IN  Within(e, e.cur_begin + inner.position, inner)

(* next_geq and slow_next_geq.  The second call of next_geq, after the     *)
(* switch, finds the bound in the current partition.                       *)
next_geq(s, e, lower_bound) ==
    IF e.cur_base <= lower_bound /\ lower_bound <= e.cur_upper_bound
    THEN NextGeqHere(s, e, lower_bound)
    ELSE IF Partitions(s) = 1
    THEN move(s, e, IF lower_bound < e.cur_base THEN 0 ELSE s.size)
    ELSE LET ub_it == EF!next_geq(s.upper_bounds, e.upper_bounds, lower_bound)
             sought == [e EXCEPT !.upper_bounds = ub_it]
         IN  IF ub_it.position = 0 THEN move(s, sought, 0)
             ELSE IF ub_it.position = s.upper_bounds.size
             THEN move(s, sought, s.size)
             ELSE NextGeqHere(s, switch_partition(s, sought, ub_it.position - 1),
                              lower_bound)

(* The value before the one at the position, 0 at the first.               *)
prev_value(s, e) ==
    IF e.position = e.cur_begin
    THEN IF e.cur_partition = 0 THEN 0 ELSE e.cur_base - 1
    ELSE e.cur_base + Base!prev_value(Inner(s, e), e.inner)

(* The cached partition is the one of the position, behind the last value  *)
(* the last one, with its bounds; its enumerator is at the same place.     *)
PartitionInView(s, e, values) ==
    LET p == e.cur_partition
        last == IF e.position = s.size THEN s.size ELSE e.position + 1
    IN
    /\ e.cur_begin = IF p = 0 THEN 0 ELSE s.ends[p]
    /\ e.cur_end = s.ends[p + 1]
    /\ e.cur_begin < last /\ last <= e.cur_end
    /\ e.cur_base = IF p = 0 THEN values[1] ELSE values[s.ends[p]] + 1
    /\ e.cur_upper_bound = values[e.cur_end]
    /\ e.inner.position = e.position - e.cur_begin
    /\ Base!InStep(s.parts[p + 1], e.inner)
=============================================================================
