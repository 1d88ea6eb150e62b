---------------------------- MODULE MCHybridIndex ----------------------------
(* Small instances of HybridIndex for TLC.                                 *)
EXTENDS HybridIndex

CodingOf(type, space, time) == [type |-> type, space |-> space, time |-> time]
Interpolative(space, time) == CodingOf("interpolative", space, time)

(* Sides of full blocks: with a step that is cheaper than the one before,  *)
(* with dearer and dearer steps, with steps of one lambda, with a coding   *)
(* that is never worth it, and with one coding.                            *)
Bent == {Interpolative(2, 9), CodingOf("pfor", 4, 7), CodingOf("varint", 5, 2)}
Steady == {Interpolative(2, 8), CodingOf("pfor", 3, 4), CodingOf("varint", 5, 2)}
Straight == {Interpolative(2, 5), CodingOf("pfor", 3, 4), CodingOf("varint", 4, 3)}
Wasteful == {Interpolative(3, 6), CodingOf("pfor", 4, 6), CodingOf("varint", 5, 4)}
Fixed == {Interpolative(2, 3)}
Sides == {Bent, Steady, Straight, Wasteful}

(* A side of a block that is not full: its time counts nothing.            *)
Rest == {Interpolative(1, 0)}

List(size, codings) == [size |-> size, codings |-> codings]

(* Blocks of two postings; the last one may have one.                      *)
Indexes ==
    {<<List(2, <<a, b>>), List(2, <<c, Fixed>>)>> :
        a, b \in Sides, c \in {Bent, Steady}}
    \cup {<<List(3, <<a, b, Rest, Rest>>), List(2, <<b, Fixed>>)>> :
            a, b \in {Bent, Steady}}
    \cup {<<List(1, <<Rest, Rest>>), List(2, <<a, b>>), List(1, <<Rest, Rest>>)>> :
            a, b \in {Bent, Steady}}

ParallelIndexes ==
    {<<List(2, <<Straight, Fixed>>), List(2, <<Bent, Fixed>>)>>,
     <<List(3, <<Bent, Fixed, Rest, Rest>>), List(2, <<Fixed, Straight>>)>>}

Line(list, counts) == [list |-> list, counts |-> counts]
CountsFor(l, list) ==
    Line(l, [s \in DOMAIN list.codings |-> (s * l) % 3])
AllStats(lists) == [l \in DOMAIN lists |-> CountsFor(l, lists[l])]

(* The statistics are those of the lists, of one of them, or none.         *)
Some(lists) ==
    {AllStats(lists), <<>>, <<CountsFor(Len(lists), lists[Len(lists)])>>}

Runs(lists, parallel, over, heuristic, budgets, counts) ==
    [lists : {lists}, threads : {parallel}, handed_over : {over},
     heuristic_greedy : heuristic, budget : budgets, stats : counts]

(* All lists by one thread, and an index without any; a few by several.    *)
MCInputs ==
    UNION {Runs(lists, FALSE, FALSE, BOOLEAN, {0, 30, 33, 36, 60},
                Some(lists)) : lists \in Indexes}
    \cup Runs(<<>>, FALSE, FALSE, {FALSE}, {0, 6, 60}, {<<>>})
    \cup UNION {Runs(lists, TRUE, over, {FALSE}, {0, 32, 60}, {AllStats(lists)}) :
                lists \in ParallelIndexes, over \in BOOLEAN}
=============================================================================
