----------------------------- MODULE HybridIndex -----------------------------
(***************************************************************************)
(* src/optimal_hybrid_index.cpp: every block of an index is given one of   *)
(* several codings, so that the index decodes fast and fits a budget of    *)
(* space.  The trade-offs of the blocks (lambda points) are computed by    *)
(* the jobs of a semiasync_queue and written to a file, which a later run  *)
(* takes as it is.  The points are applied in the order of their lambda    *)
(* until the budget is exceeded; then the lists are transformed by jobs of *)
(* another queue.  The queues are what OrderedCommits promises.            *)
(*                                                                         *)
(* A block of a list has two sides, documents and frequencies, each with a *)
(* number (block_id) over all lists.  A side has its possible codings.     *)
(***************************************************************************)
EXTENDS Integers, Sequences, FiniteSets, SequencesExt

CONSTANTS
    Inputs,     \* command lines, indexes, block statistics and settings
    BlockSize,  \* mixed_block::block_size
    Types,      \* the types of a block, each with its parameter
    Samples     \* the 2000 samples of a report without a budget

ASSUME HybridAssumption ==
    /\ BlockSize \in Nat \ {0, 1} /\ Samples \in Nat \ {0}
    /\ {"pfor", "interpolative"} \subseteq Types

Coding == [type : Types, space : Nat, time : Nat]

Blocks(size) == (size + BlockSize - 1) \div BlockSize

(* A side of a block with fewer postings has only the interpolative coding *)
(* and its time is not predicted; encode_type throws for any other.        *)
FullSide(size, side) == ((side + 1) \div 2) * BlockSize <= size

(* No list is empty.  The statistics are those of an index of the same     *)
(* lists: block_profiler::dump writes a line for each list that was used,  *)
(* in their order, with a count for each side.                             *)
ASSUME InputsAssumption ==
    \A run \in Inputs :
        /\ run.lists \in Seq([size : Nat \ {0}, codings : Seq(SUBSET Coding)])
        /\ \A l \in DOMAIN run.lists : LET list == run.lists[l] IN
             /\ Len(list.codings) = 2 * Blocks(list.size)
             /\ \A s \in DOMAIN list.codings :
                  /\ list.codings[s] # {} /\ IsFiniteSet(list.codings[s])
                  /\ \/ FullSide(list.size, s)
                     \/ \A c \in list.codings[s] : c.type = "interpolative"
        /\ run.stats \in Seq([list : 1 .. Len(run.lists), counts : Seq(Nat)])
        /\ \A k \in DOMAIN run.stats :
             /\ Len(run.stats[k].counts) = 2 * Blocks(run.lists[run.stats[k].list].size)
             /\ \A m \in DOMAIN run.stats :
                  m < k => run.stats[m].list < run.stats[k].list
        /\ run.budget \in Nat

VARIABLES
    input,      \* of the runs of the program
    restarted,  \* whether a run was killed or terminated before
    pc,         \* the phase of the run
    ended,      \* how it ended
    file,       \* the file of lambda points
    stats,      \* what was read of the block statistics
    jobs,       \* the jobs of the queue, by number
    added, prepared, committed,     \* the queue, as OrderedCommits has it
    unread,     \* the points of the file that are still to be applied
    choice,     \* the coding of each side
    cur_space, cur_time,
    seen_lambdas,
    index       \* the lists written: the types of their sides

queue == <<jobs, added, prepared, committed>>
greedy == <<unread, choice, cur_space, cur_time, seen_lambdas>>
vars == <<input, restarted, pc, ended, file, stats, queue, greedy, index>>

Jobs == INSTANCE OrderedCommits

Lists == input.lists
NumLists == Len(Lists)
NumBlocks(l) == Blocks(Lists[l].size)

(* block_id_base, the sides of the lists before l.                         *)
SidesBefore[l \in 1 .. NumLists + 1] ==
    IF l = 1 THEN 0 ELSE SidesBefore[l - 1] + 2 * NumBlocks(l - 1)
Base(l) == SidesBefore[l]
NumSides == SidesBefore[NumLists + 1]

(* space_base: the length in bytes of 7 bits, the largest document of each *)
(* block and where all but the first begin.                                *)
SpaceOfLength(n) ==
    LET power[k \in 0 .. n] == IF k = 0 THEN 1 ELSE 128 * power[k - 1]
    IN  CHOOSE k \in 1 .. n : power[k - 1] <= n /\ n < power[k]
SpaceBefore[l \in 1 .. NumLists + 1] ==
    IF l = 1 THEN 8
    ELSE SpaceBefore[l - 1] + SpaceOfLength(Lists[l - 1].size)
           + NumBlocks(l - 1) * 4 + (NumBlocks(l - 1) - 1) * 4
SpaceBase == SpaceBefore[NumLists + 1]

(* A block nothing is known of has the value-initialised type.             *)
NoCoding == [type |-> "pfor", space |-> 0, time |-> 0]

Reset == jobs' = <<>> /\ added' = 0 /\ prepared' = {} /\ committed' = <<>>

(* block_counts_list is not initialised.                                   *)
NewStats ==
    [line : {0}, list : IF input.stats = <<>> THEN 0 .. NumLists ELSE {0},
     counts : {<<>>}, consumed : {TRUE}]

Init ==
    /\ input \in Inputs
    /\ restarted = FALSE
    /\ pc = "start" /\ ended = "not"
    /\ file = [exists |-> FALSE, sorted |-> FALSE, points |-> <<>>]
    /\ stats \in NewStats
    /\ jobs = <<>> /\ Jobs!Init
    /\ unread = <<>> /\ choice = [b \in 1 .. NumSides |-> NoCoding]
    /\ cur_space = SpaceBase /\ cur_time = 0 /\ seen_lambdas = 0
    /\ index = <<>>

End(how) == pc' = "over" /\ ended' = how

Start ==
    /\ pc = "start"
    /\ IF file.exists
       THEN pc' = "greedy" /\ unread' = file.points /\ UNCHANGED file
       ELSE pc' = "lambdas" /\ file' = [file EXCEPT !.exists = TRUE]
            /\ UNCHANGED unread
    /\ UNCHANGED <<input, restarted, ended, stats, queue, choice, cur_space,
                   cur_time, seen_lambdas, index>>

-----------------------------------------------------------------------------
(* compute_lambdas.  A quotient of space by time is kept as a pair; that   *)
(* of two codings is what a step from the first to the second costs.       *)
Zero == [num |-> 0, den |-> 1]
Below(a, b) == a.num * b.den < b.num * a.den
Lambda(from, to) ==
    [num |-> to.space - from.space, den |-> from.time - to.time]

BySpace(a, b) ==
    \/ a.space < b.space
    \/ a.space = b.space /\ a.time < b.time

(* Mutant: a point that a better one makes useless stays.                  *)
KeptAll(points, cur) == Len(points)

(* How many of the points of the block stay in front of cur: the last ones *)
(* go while the step from the point before is cheaper than theirs.         *)
Kept(points, cur) ==
    IF input.heuristic_greedy THEN Len(points)
    ELSE Max({k \in DOMAIN points :
                ~Below(Lambda(points[k].st, cur), points[k].lambda)})

Appended(buf, cur) ==
    LET kept == SubSeq(buf, 1, Kept(buf, cur))
    IN  IF cur.time >= Last(buf).st.time THEN buf
        ELSE Append(kept, [block_id |-> Last(buf).block_id,
                           lambda |-> Lambda(Last(kept).st, cur), st |-> cur])

(* std::sort: codings of one space and time come in any order.             *)
Sorted(codings) ==
    CHOOSE p \in SetToSeqs(codings) :
        \A i, j \in DOMAIN p : i < j => ~BySpace(p[j], p[i])

Timed(codings, access_count) ==
    {[c EXCEPT !.time = @ * access_count] : c \in codings}

(* append_lambdas: the smallest coding first, then each that is faster.    *)
Lambdas(codings, block_id, access_count) ==
    LET points == Sorted(Timed(codings, access_count))
        buf[i \in DOMAIN points] ==
            IF i = 1
            THEN <<[block_id |-> block_id, lambda |-> Zero, st |-> points[1]]>>
            ELSE Appended(buf[i - 1], points[i])
    IN  buf[Len(points)]

(* The points of a list, with what its blocks were accessed (add-one       *)
(* smoothing).                                                             *)
PointsOf(l, base, counts) ==
    FlattenSeq([s \in 1 .. 2 * NumBlocks(l) |->
        Lambdas(Lists[l].codings[s], base + s,
                1 + IF counts = <<>> THEN 0 ELSE counts[s])])

(* read_block_stats: behind the last line the list is that of the line     *)
(* before.                                                                 *)
ReadStats ==
    LET line == stats.line + 1
    IN  IF ~stats.consumed THEN stats
        ELSE IF line > Len(input.stats)
        THEN [stats EXCEPT !.counts = <<>>, !.consumed = FALSE]
        ELSE [line |-> line, list |-> input.stats[line].list,
              counts |-> input.stats[line].counts, consumed |-> FALSE]

(* Lines of other lists than the next one wait; a line of a list that was  *)
(* there already waits for ever.                                           *)
Consume(l) == stats' = [ReadStats EXCEPT !.consumed = ReadStats.list = l]

AddLambdas ==
    LET l == added + 1
        counts == IF ReadStats.list = l THEN ReadStats.counts ELSE <<>>
        job == [base |-> Base(l), counts |-> counts, points |-> <<>>]
        points == PointsOf(l, job.base, job.counts)
    IN  /\ pc = "lambdas" /\ l <= NumLists
        /\ Consume(l)
        /\ jobs' = Append(jobs, job)
        /\ IF input.threads
           THEN Jobs!Add /\ UNCHANGED file
           ELSE Jobs!AddAndRun /\ file' = [file EXCEPT !.points = @ \o points]
        /\ UNCHANGED <<input, restarted, pc, ended, greedy, index>>

PrepareLambdas(j) ==
    /\ pc = "lambdas" /\ Jobs!Prepare(j)
    /\ jobs' = [jobs EXCEPT ![j].points =
                    PointsOf(j, jobs[j].base, jobs[j].counts)]
    /\ UNCHANGED <<input, restarted, pc, ended, file, stats, greedy, index>>

CommitLambdas ==
    /\ pc = "lambdas" /\ Jobs!Commit
    /\ file' = [file EXCEPT !.points = @ \o jobs[Len(committed) + 1].points]
    /\ UNCHANGED <<input, restarted, pc, ended, stats, jobs, greedy, index>>

(* complete() returns with jobs that are not committed when the last       *)
(* add_job has handed its batch over.                                      *)
Completes ==
    added = NumLists /\ (Len(committed) = added \/ input.handed_over)

(* The points are sorted; then the destructor of a queue whose threads     *)
(* were not joined terminates the program.                                 *)
SortLambdas ==
    /\ pc = "lambdas" /\ Completes
    /\ file' = [file EXCEPT !.sorted = TRUE]
    /\ IF Len(committed) < added
       THEN End("terminates") /\ UNCHANGED <<unread, queue>>
       ELSE /\ pc' = "greedy" /\ UNCHANGED ended
            /\ unread' = file.points
            /\ Reset
    /\ UNCHANGED <<input, restarted, stats, choice, cur_space, cur_time,
                   seen_lambdas, index>>

(* The program is killed: some of what was committed is in the file.       *)
Kill ==
    /\ pc = "lambdas" /\ ~restarted
    /\ \E n \in 0 .. Len(file.points) :
         file' = [file EXCEPT !.points = SubSeq(@, 1, n)]
    /\ End("killed")
    /\ UNCHANGED <<input, restarted, stats, queue, greedy, index>>

(* It is run again.                                                        *)
Restart ==
    /\ pc = "over" /\ ended \in {"killed", "terminates"} /\ ~restarted
    /\ pc' = "start" /\ ended' = "not"
    /\ restarted' = TRUE
    /\ Reset
    /\ stats' \in NewStats
    /\ unread' = <<>> /\ choice' = [b \in 1 .. NumSides |-> NoCoding]
    /\ cur_space' = SpaceBase /\ cur_time' = 0 /\ seen_lambdas' = 0
    /\ index' = <<>>
    /\ UNCHANGED <<input, file>>

-----------------------------------------------------------------------------
(* The greedy choice.  Points of one lambda come in any order.             *)
NextPoints ==
    IF ~file.sorted THEN {1}
    ELSE {i \in DOMAIN unread :
            \A k \in DOMAIN unread : ~Below(unread[k].lambda, unread[i].lambda)}

ReadPoint(i) ==
    LET point == unread[i]
        space == cur_space - choice[point.block_id].space + point.st.space
    IN  /\ pc = "greedy" /\ unread # <<>> /\ i \in NextPoints
        /\ unread' = RemoveAt(unread, i)
        /\ choice' = [choice EXCEPT ![point.block_id] = point.st]
        /\ cur_space' = space
        /\ cur_time' = cur_time - choice[point.block_id].time + point.st.time
        /\ IF point.lambda.num = 0
           THEN UNCHANGED <<pc, ended, seen_lambdas>>
           ELSE IF input.budget # 0
           THEN /\ pc' = IF space > input.budget THEN "transform" ELSE pc
                /\ UNCHANGED <<ended, seen_lambdas>>
           ELSE IF NumSides \div Samples = 0       \* seen_lambdas modulo 0
           THEN End("undefined") /\ UNCHANGED seen_lambdas
           ELSE seen_lambdas' = seen_lambdas + 1 /\ UNCHANGED <<pc, ended>>
        /\ UNCHANGED <<input, restarted, file, stats, queue, index>>

AllRead ==
    /\ pc = "greedy" /\ unread = <<>>
    /\ IF input.budget = 0 THEN End("reported")
       ELSE pc' = "transform" /\ UNCHANGED ended
    /\ UNCHANGED <<input, restarted, file, stats, queue, greedy, index>>

-----------------------------------------------------------------------------
(* The jobs that transform the lists have iterators to where the types of  *)
(* their blocks begin.                                                     *)
(* Mutant: the iterators advance by one type for each block.               *)
TypesOfHalf(l, base) ==
    [s \in 1 .. 2 * NumBlocks(l) |-> choice[base \div 2 + s].type]

TypesOf(l, base) == [s \in 1 .. 2 * NumBlocks(l) |-> choice[base + s].type]

Encodable(l, types) ==
    \A s \in DOMAIN types : FullSide(Lists[l].size, s) \/ types[s] = "interpolative"

AddTransformer ==
    LET l == added + 1
        job == [base |-> Base(l), types |-> <<>>]
        types == TypesOf(l, job.base)
    IN  /\ pc = "transform" /\ l <= NumLists
        /\ jobs' = Append(jobs, job)
        /\ IF input.threads
           THEN Jobs!Add /\ UNCHANGED <<pc, ended, index>>
           ELSE /\ Jobs!AddAndRun
                /\ IF Encodable(l, types)
                   THEN index' = Append(index, types) /\ UNCHANGED <<pc, ended>>
                   ELSE End("throws") /\ UNCHANGED index
        /\ UNCHANGED <<input, restarted, file, stats, greedy>>

PrepareTransformer(j) ==
    LET types == TypesOf(j, jobs[j].base)
    IN  /\ pc = "transform" /\ Jobs!Prepare(j)
        /\ jobs' = [jobs EXCEPT ![j].types = types]
        /\ IF Encodable(j, types) THEN UNCHANGED <<pc, ended>>
           ELSE End("throws")
        /\ UNCHANGED <<input, restarted, file, stats, greedy, index>>

CommitTransformer ==
    /\ pc = "transform" /\ Jobs!Commit
    /\ index' = Append(index, jobs[Len(committed) + 1].types)
    /\ UNCHANGED <<input, restarted, pc, ended, file, stats, jobs, greedy>>

(* The index is built and frozen before the queue is destroyed.            *)
Build ==
    /\ pc = "transform" /\ Completes
    /\ End(IF Len(committed) < added THEN "terminates" ELSE "built")
    /\ UNCHANGED <<input, restarted, file, stats, queue, greedy, index>>

Over ==
    /\ pc = "over"
    /\ UNCHANGED vars

Next ==
    \/ Start \/ AddLambdas \/ CommitLambdas \/ SortLambdas \/ Kill \/ Restart
    \/ \E j \in 1 .. added : PrepareLambdas(j) \/ PrepareTransformer(j)
    \/ \E i \in DOMAIN unread : ReadPoint(i)
    \/ AllRead \/ AddTransformer \/ CommitTransformer \/ Build \/ Over

Spec == Init /\ [][Next]_vars
-----------------------------------------------------------------------------
(* What is chosen from, by the number of the side: its codings, with the   *)
(* time they take for the accesses the statistics tell.                    *)
Accesses(l, s) ==
    LET lines == {k \in DOMAIN input.stats : input.stats[k].list = l}
    IN  IF lines = {} THEN 1 ELSE 1 + input.stats[Max(lines)].counts[s]
Codings ==
    FlattenSeq([l \in DOMAIN Lists |->
        [s \in DOMAIN Lists[l].codings |->
            Timed(Lists[l].codings[s], Accesses(l, s))]])

(* The space and time of all ways to choose a coding for every side.       *)
Plus(t, c) == [space |-> t.space + c.space, time |-> t.time + c.time]
Totals ==
    LET upTo[b \in 0 .. NumSides] ==
            IF b = 0 THEN {[space |-> SpaceBase, time |-> 0]}
            ELSE {Plus(t, c) : t \in upTo[b - 1], c \in Codings[b]}
    IN  upTo[NumSides]

Smallest(b) == \A c \in Codings[b] : choice[b].space <= c.space

(* The file has the points of all blocks, sorted.  It does not after a run *)
(* that was killed, or terminated because complete() came back early.      *)
Whole ==
    /\ file.sorted
    /\ \A b \in 1 .. NumSides :
         \E k \in DOMAIN file.points : file.points[k].block_id = b

(* The smallest codings of all blocks have been read.                      *)
PastFrontier ==
    pc \in {"greedy", "over"} /\ \A b \in 1 .. NumSides : choice[b] # NoCoding

(* The points of a block are applied in their order.  Two of one lambda    *)
(* may not be, nor those the heuristic keeps, and a block that steps back  *)
(* has a coding that is not worth its space.                               *)
OneByOne ==
    /\ ~input.heuristic_greedy
    /\ \A k, m \in DOMAIN file.points :
         k # m /\ file.points[k].block_id = file.points[m].block_id =>
            \/ Below(file.points[k].lambda, file.points[m].lambda)
            \/ Below(file.points[m].lambda, file.points[k].lambda)

(* Whatever points are applied, in whatever order of the equal lambdas of  *)
(* several blocks, no choice of codings is faster in the space of the one  *)
(* made, nor smaller in its time: the points left out would not help.      *)
NothingIsBetter ==
    Whole /\ PastFrontier /\ OneByOne =>
        \A t \in Totals :
            /\ t.space <= cur_space => t.time >= cur_time
            /\ t.time <= cur_time => t.space >= cur_space

(* The greedy loop leaves the budget by one step of one block, unless not  *)
(* even the smallest codings fit; and it does not stop before: a budget    *)
(* that is kept is one that the fastest codings keep.                      *)
OneStepOverBudget ==
    Whole /\ pc \in {"transform", "over"} /\ input.budget # 0 =>
        /\ \/ cur_space <= input.budget
           \/ \E b \in DOMAIN Codings : \E c \in Codings[b] :
                cur_space - choice[b].space + c.space <= input.budget
           \/ \A a, b \in DOMAIN Codings : a # b => Smallest(a) \/ Smallest(b)
        /\ cur_space <= input.budget /\ OneByOne =>
                \A t \in Totals : t.time >= cur_time

(* The greedy choice is the best for the space it takes, and takes what    *)
(* the budget leaves.                                                      *)
ChoiceIsOptimal == NothingIsBetter /\ OneStepOverBudget

(* The index has every list in its place, each block in the coding chosen  *)
(* for it and the space and time that were found, whichever threads        *)
(* transform the lists.  A program that does not build it was asked for a  *)
(* report of a small index, found a file that is not whole, or was         *)
(* terminated by its queue; an index that was built without some lists was *)
(* built by such a run.                                                    *)
BuildsWhatWasChosen ==
    /\ \A l \in DOMAIN index : \A s \in 1 .. 2 * NumBlocks(l) :
         index[l][s] = choice[Base(l) + s].type
    /\ ended = "built" => Len(index) = NumLists
    /\ ended = "built" /\ Whole =>
         \A b \in DOMAIN Codings : choice[b] \in Codings[b]
    /\ ended = "throws" => ~Whole
    /\ ended = "terminates" => input.handed_over
    /\ ended = "undefined" => input.budget = 0 /\ NumSides < Samples
=============================================================================
