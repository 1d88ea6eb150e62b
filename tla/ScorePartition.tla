--------------------------- MODULE ScorePartition ---------------------------
(***************************************************************************)
(* src/score_partitioning.hpp and src/wand_utils.hpp: the blocks of a list *)
(* for which create_wand_data stores bounds.  A block has its size, the    *)
(* last document a search in it may look for, and the largest score and    *)
(* document weight of its postings.  postings is a sequence of documents   *)
(* with their scores and weights.  Floats are whole numbers here.          *)
(***************************************************************************)
EXTENDS OptimalPartition

CONSTANTS
    WandBlockSize,          \* block_size of static blocks
    FixedCostWand,          \* fixed_cost_wand_partition
    Eps1Wand, Eps2Wand      \* eps1_wand in hundredths, eps2_wand

ASSUME WandAssumption ==
    /\ WandBlockSize \in Nat \ {0} /\ FixedCostWand \in Nat \ {0}
    /\ Eps1Wand \in Nat /\ Eps2Wand \in Nat \ {0}

From(first, last) == [k \in 1 .. last - first + 1 |-> first + k - 1]
Scores(postings) == {postings[i].score : i \in DOMAIN postings}
Weights(postings) == {postings[i].weight : i \in DOMAIN postings}

(* The blocks that end at these positions, with these largest scores.      *)
Blocks(postings, ends, maxs) ==
    [b \in DOMAIN ends |->
        LET start == IF b = 1 THEN 0 ELSE ends[b - 1]
        IN  [size |-> ends[b] - start,
             docid |-> IF b = Len(ends) THEN postings[ends[b]].doc
                       ELSE postings[ends[b] + 1].doc - 1,
             max_term_weight |-> maxs[b],
             max_document_weight |->
                Max(Weights(SubSeq(postings, start + 1, ends[b])))]]

(* static_block_partition: all but the last are block_size long.           *)
static_block_partition(postings) ==
    LET n == Len(postings)
        ends == [b \in 1 .. (n - 1) \div WandBlockSize + 1 |->
                    Min({n, b * WandBlockSize})]
        max(b) == Max({0} \cup Scores(SubSeq(postings,
                            (b - 1) * WandBlockSize + 1, ends[b])))
    IN  Blocks(postings, ends, [b \in DOMAIN ends |-> max(b)])

(* The scores in a window that may still become its largest, the largest   *)
(* in front: a new one at the back drives out those smaller than it.       *)
Push(max_queue, score) ==
    LET kept == {k \in DOMAIN max_queue : max_queue[k] >= score}
    IN  Append(SubSeq(max_queue, 1, Max({0} \cup kept)), score)

advance_end(w, postings, idf) ==
    LET score == postings[w.end + 1].score
    IN  [end |-> w.end + 1, sum |-> w.sum + score * idf,
         max_queue |-> Push(w.max_queue, score)]

advance_start(w, score, idf) ==
    [w EXCEPT !.sum = w.sum - score * idf,
              !.max_queue = IF Head(w.max_queue) = score
                            THEN Tail(w.max_queue) ELSE w.max_queue]

(* The cost of the window as a block: the room between its largest score   *)
(* and the others.                                                         *)
cost(w, start, idf) ==
    FixedCostWand + IF w.end - start < 2 THEN 0
                    ELSE (w.end - start) * Head(w.max_queue) * idf - w.sum

RECURSIVE ScoreBounds(_, _)
ScoreBounds(cost_bound, single) ==
    IF Eps1Wand # 0 /\ cost_bound * Eps1Wand >= FixedCostWand * 100 THEN <<>>
    ELSE IF cost_bound >= single THEN <<cost_bound>>
    ELSE <<cost_bound>> \o ScoreBounds(cost_bound * (1 + Eps2Wand), single)

(* The inner loops for the window k at the start i: forward to where the   *)
(* window before it has ended, then on to the end of the list or to a      *)
(* block that costs as much as its bound.                                  *)
Slide(dp, i, k, bound, postings, idf) ==
    LET n == Len(postings)
        forward == FoldLeft(LAMBDA w, end : advance_end(w, postings, idf),
                            dp.windows[k],
                            From(dp.windows[k].end + 1, dp.last_end))
        step(d, end) ==
            LET w == IF end > d.w.end THEN advance_end(d.w, postings, idf)
                     ELSE d.w
                total == d.min_cost[i] + cost(w, i, idf)
                better == total < d.min_cost[end]
            IN  IF d.stopped THEN d
                ELSE [w |-> w, stopped |-> cost(w, i, idf) >= bound,
                      min_cost |-> IF better
                                   THEN [d.min_cost EXCEPT ![end] = total]
                                   ELSE d.min_cost,
                      path |-> IF better THEN [d.path EXCEPT ![end] = i]
                               ELSE d.path,
                      maxs |-> IF better
                               THEN [d.maxs EXCEPT ![end] = Head(w.max_queue)]
                               ELSE d.maxs]
        d == FoldLeft(step, [w |-> forward, stopped |-> FALSE,
                             min_cost |-> dp.min_cost, path |-> dp.path,
                             maxs |-> dp.maxs],
                      From(forward.end, n))
    IN  [dp EXCEPT !.min_cost = d.min_cost, !.path = d.path, !.maxs = d.maxs,
                   !.last_end = d.w.end,
                   !.windows[k] = advance_start(d.w, postings[i + 1].score, idf)]

(* score_opt_partition and variable_block_partition.                       *)
variable_block_partition(postings, idf) ==
    LET n == Len(postings)
        sum == FoldLeft(LAMBDA s, p : s + p.score * idf, 0, postings)
        single == n * Max(Scores(postings)) * idf - sum
        bounds == ScoreBounds(FixedCostWand, single)
        before == [min_cost |-> [p \in 0 .. n |-> IF p = 0 THEN 0 ELSE single],
                   path |-> [p \in 1 .. n |-> 0],
                   maxs |-> [p \in 1 .. n |->
                                IF p = n THEN Max(Scores(postings)) ELSE 0],
                   windows |-> [k \in DOMAIN bounds |->
                                [end |-> 0, sum |-> 0, max_queue |-> <<>>]],
                   last_end |-> 0]
        after[i \in -1 .. n - 1] ==    \* the rounds up to that of start i
            IF i = -1 THEN before
            ELSE LET round[k \in 0 .. Len(bounds)] ==
                        IF k = 0 THEN [after[i - 1] EXCEPT !.last_end = i + 1]
                        ELSE Slide(round[k - 1], i, k, bounds[k], postings, idf)
                 IN  round[Len(bounds)]
        dp == after[n - 1]
        ends == Back(dp.path, n)
    IN  Blocks(postings, ends, [b \in DOMAIN ends |-> dp.maxs[ends[b]]])
=============================================================================
