-------------------------- MODULE OptimalPartition --------------------------
(***************************************************************************)
(* src/optimal_partition.hpp: where to cut increasing values so that the   *)
(* cost of the parts is close to the least possible.  For every position a *)
(* part may start at, each of a few windows looks at the parts that cost   *)
(* up to its bound and at the first one that costs more; the windows slide *)
(* forward with that position.                                             *)
(***************************************************************************)
EXTENDS Integers, Sequences, SequencesExt

CONSTANTS Eps1, Eps2    \* eps1 and eps2, in hundredths

ASSUME EpsAssumption == Eps1 \in Nat /\ Eps2 \in Nat

(* The bounds of the windows, from the given one on: up to the cost of a   *)
(* single part or the least cost by eps1.  They are whole numbers.         *)
RECURSIVE Bounds(_, _, _)
Bounds(cost_bound, cost_lb, single) ==
    IF Eps1 # 0 /\ cost_bound * Eps1 >= cost_lb * 100 THEN <<>>
    ELSE IF cost_bound >= single THEN <<cost_bound>>
    ELSE <<cost_bound>>
         \o Bounds((cost_bound * (100 + Eps2)) \div 100, cost_lb, single)

(* The positions the cuts are at, the last of which is n.                  *)
RECURSIVE Back(_, _)
Back(path, curr_pos) ==
    IF curr_pos = 0 THEN <<>>
    ELSE Append(Back(path, path[curr_pos]), curr_pos)

(* What the window adds for parts that start at i: it begins where the one *)
(* before it has ended, or where it was, and stops at the end of the       *)
(* values or at a part that costs as much as its bound.  cost is that of   *)
(* the parts by where they end.                                            *)
Relax(dp, i, w, bound, n, cost) ==
    LET from == Max({dp.ends[w], dp.last_end})
        stop == Min({end \in from .. n : end = n \/ cost[end] >= bound})
        better == {end \in from .. stop :
                    dp.min_cost[i] + cost[end] < dp.min_cost[end]}
    IN  [dp EXCEPT !.min_cost = [p \in better |-> dp.min_cost[i] + cost[p]]
                                @@ @,
                   !.path = [p \in better |-> i] @@ @,
                   !.ends[w] = stop, !.last_end = stop]

(* The partition and its cost.  The cost of a part is that of its number   *)
(* of values in the universe after the value before it.  A single part is  *)
(* taken in the given universe, which may be larger.                       *)
optimal_partition(values, base, universe, cost_fun) ==
    LET n == Len(values)
        cost(i) == [end \in i + 1 .. n |->
            cost_fun[values[end] - (IF i = 0 THEN base ELSE values[i] + 1) + 1,
                     end - i]]
        single == cost_fun[universe - base, n]
        bounds == Bounds(cost_fun[1, 1], cost_fun[1, 1], single)
        before == [min_cost |-> [p \in 0 .. n |-> IF p = 0 THEN 0 ELSE single],
                   path |-> [p \in 1 .. n |-> 0],
                   ends |-> [w \in DOMAIN bounds |-> 0],
                   last_end |-> 0]
        after[i \in -1 .. n - 1] ==    \* the rounds up to that of start i
            IF i = -1 THEN before
            ELSE LET round[w \in 0 .. Len(bounds)] ==
                        IF w = 0 THEN [after[i - 1] EXCEPT !.last_end = i + 1]
                        ELSE Relax(round[w - 1], i, w, bounds[w], n, cost(i))
                 IN  round[Len(bounds)]
        dp == after[n - 1]
    IN  [partition |-> Back(dp.path, n), cost_opt |-> dp.min_cost[n]]
=============================================================================
