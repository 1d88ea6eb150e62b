# RMQV in TLA+

RMQV is a C++ search engine core: it compresses an inverted index, answers
ranked disjunctive queries over it with dynamic pruning, and expands queries by
relevance models estimated on the same or on external corpora. This directory
holds TLA+ models of its parts, TLC configurations that check them on small
instances, and TLAPS proofs for all values of the constants. File names and
line numbers refer to the repository.

## The system

| Component | State | Operations | Interacts with | What is hard | What makes it correct |
|---|---|---|---|---|---|
| semi-asynchronous queue (`semiasync_queue.hpp`) | batch being filled, deque of (batch, thread), expected work | `add_job`, `complete` | index builders hand it one job per list; jobs append to shared bit vectors in `commit` | threads finishing in any order, batches read by reference, join before commit | every job prepared once, then committed once, in the order of `add_job`; `complete` leaves nothing |
| top-k queue (`queries_util.hpp`) | heap `m_q`, `threshold` | `insert`, `would_enter`, `clear`, `finalize` | all query algorithms | ties, stale `threshold`, cut of non-positive scores | holds the k best; the bar never falls |
| query algorithms (`queries.hpp`: ranked OR, WAND, MaxScore, block-max WAND; `weighted_queries.hpp`) | one enumerator per list, order of lists, block cursors, non-essential prefix, queue | one `operator()` per query | enumerators, `wand_data`, ranker, queue | pruning by bounds, partial scores, order of lists after each move, termination of `while (true)` | same answer as exhaustive evaluation |
| bounds (`wand_data*.hpp`, `wand_utils.hpp`) | per list: maximum weights, blocks | builder, block enumerator | built from the input collection, read by the algorithms | rounding, quantisation, end of list | every bound is at least the score it bounds |
| partitioning (`score_partitioning.hpp`, `optimal_partition.hpp`) | windows, shortest-path tables | one pass over a list | `wand_utils`, `partitioned_sequence`, the tasks of superblocks | window edges, approximation, superblocks partitioned at the same time | cost within the promised factor, blocks bound what they cover |
| sequences (`compact_elias_fano`, `compact_ranked_bitvector`, `all_ones`, `strict_*`, `indexed`, `partitioned`, `uniform_partitioned`, `positive`) | bits and an enumerator: position, value, partition cache | `move`, `next`, `next_geq`, `prev_value` | `freq_index` composes document and frequency sequences | skipping across partitions, cached base, ends of lists | same values as the sequence written |
| block lists (`block_posting_list.hpp`, `block_freq_index.hpp`, `mixed_block.hpp`, codecs) | current block, position, lazily decoded frequencies | `next`, `next_geq`, `move`, `freq` | alternative to `freq_index` | lazy flags, last block | same postings as written |
| index and collections (`freq_index.hpp`, `sequence_collection.hpp`, `bitvector_collection.hpp`) | endpoints and bits | builders, `operator[]` | use the semi-asynchronous queue | two parallel tasks per list | list i is the i-th list added |
| hybrid optimiser (`optimal_hybrid_index.cpp`) | space-time points per block, budget | `compute_lambdas`, greedy choice, transformation | block lists, semi-asynchronous queue; the file of points outlives a run | a run killed while it writes the file, budget edge, small inputs, order of equal lambdas | the choice is the fastest for its space, and the index is what was chosen |
| input (`binary_collection.hpp`, `binary_freq_collection.hpp`) | position in a file | iteration | builders, `wand_data` | empty sequences, files cut short | each list read once, damage noticed |
| query expansion (`docvector/`, `weighted_sampler.hpp`, `document_fuser.hpp`, `*_expansion.cpp`, `*_sampler.cpp`) | relevance model, sampled queries, fused ranking | per query | the query algorithms | sharing of one random engine by threads, empty models | the expansion is the relevance model, no term id of one collection is used in another, the fusion is of all runs |
| construction drivers (`create_freq_index.cpp`, `create_wand_data.cpp`, `shuffle_docids.cpp`) | collection iterator, tasks of the pool | one build | input, builders, partitioning | main thread, encoder and superblock tasks share one pool | the index holds the collection |
| converters, profilers | none of interest | | | input and output | not modelled |

## Modules

`OrderedCommits` is the promise the builders need from `semiasync_queue`: jobs
are numbered by `add_job`, prepared in any order, and committed in that order,
each after its preparation.

`SemiasyncQueue` models `semiasync_queue.hpp`. The client thread's place in
`spawn_next_thread`, `commit_thread` and `complete` is `pc`; `next`, `running`
and `expected` are `m_next_thread.first`, `m_running_threads` and
`m_expected_work`. A thread's `prepare()` calls (`Prepare`) interleave with
every client step. A fresh queue is completed once, as its callers do. It
implements `OrderedCommits` (`CommitsInOrder`).

`TopkQueue` models `topk_queue`. The vector is kept up to the order that
`std::push_heap` leaves open: a front is any element of least score. `offered`
is a history variable. `threshold` starts with any value and survives `Clear`.

`DisjunctiveQuery` is what the query algorithms share: a query as the setup
loop of `operator()` leaves it (lists, weights, static document weights), the
enumerators (`FirstGeq`, `NextDoc`, `NextGeq`), scores, and an instance of
`TopkQueue` on the variables of `m_topk`. `NextGeq` is asked for a document
before its position only by MaxScore; there the two kinds of enumerators
differ, a block enumerator stays and an Elias-Fano enumerator goes back, and
both are modelled. `WandData` adds the bounds of `wand_data` and the blocks.
`RankedOr`, `Wand`, `MaxScore` and `BlockMaxWand` model the four loops; one
step is one pass of the loop, with everything the pass does.

The loops of `weighted_queries.hpp` are those of `queries.hpp` and differ in how
they are set up, which is `QuerySetup`: the plain algorithms count equal terms
and open a list per distinct term, the weighted ones open a list per entry and
multiply by its number, so that a term may occur in several lists.

`QueryAlgorithms` composes them as `perftest` in `queries.cpp` does: a query is
given to one of the eight algorithms. It states once what all must do.

`PostingList` is what a `document_enumerator` promises of every index type: it
goes through a plain list. The variable `asked`, the call, is shared with the
implementations, so that each call must have the promised effect. `FreqIndex`
is the enumerator of `freq_index.hpp`: one sequence of documents, one of summed
frequencies read through `positive_sequence` (`PositiveMove`, with its cached
sum). `BlockPostingList` is the one of `block_posting_list.hpp`: `Written` is the
record of what `write` stores (the largest document and the end of each block,
and the coded bytes), from which the enumerator decodes the documents of a block
and, when asked for one, its frequencies. A list of `block_mixed_index` is
`Transformed`: the blocks that `get_blocks` finds in a list that optpfor wrote,
coded again, each with its own types. `BlockCodecs` has the codecs: variable
bytes, interpolative coding down to the bits, the fallback of the other codecs
to it for a block that is not full, and the type byte of `mixed_block`. FastPFor
codes the full blocks of the others outside of `src/`; there the values stand
for the bytes. `IndexTypes` puts all types of `index_types.hpp`
under one roof.

Below `FreqIndex`, a sequence is a record of what `write()` stores (`Written`); an enumerator is a record of what its class keeps between calls, and
`move`, `next`, `next_geq` return the enumerator the call leaves.
`CompactEliasFano` and `CompactRankedBitvector` keep the unary enumerator over
the bits (`high`) apart from position and value, as the code does, and follow
it through each way to skip: step by step, over bits, from a pointer to a one
or a zero, from a sample of ranks. `IndexedSequence` chooses between them and
holds `all_ones` and `strict_elias_fano`. `PartitionedSequence` covers the
partitioned and the uniform sequence, which differ in where they are cut and
how an end is found (`UniformExtent`): it caches the bounds of the partition in
view. `UnaryEnumerator` stands for `succinct`, which is outside `src/`: a bit
vector is the set of its ones.

`IndexConstruction` models `create_freq_index.cpp` and `create_wand_data.cpp`.
`pc` is the place of the main thread, which goes through the collection with the
iterator `it` (`InputCollection`: a file is a sequence of numbers, read as
`binary_collection` and `binary_freq_collection` read it, damaged or not). For
each list `add_posting_list` submits the encoder of the documents to the pool
and encodes the frequencies itself; `encoders` has where both are. Each submits
a task per superblock of its values and waits for them. `pool` and `running` are
boost's pool of threads: tasks are taken in order, and a task that waits does
not give its worker back. A task partitions its superblock with
`OptimalPartition`, the windows of `optimal_partition.hpp`, and the cost
functions of the encodings (`Bitsize` of the sequence modules). Verification
(`verify_collection`) is one step per list. `create_wand_data` goes through the
collection twice and cuts every list into blocks with `ScorePartition`, fixed or
variable, with the quantised scores of `wand_data_compressed`. `ShuffleDocids`
is the third program, which renumbers the documents of a collection before an
index is built of it: one step per line of the order file, then the sizes, then
one step per list.

`HybridIndex` models `optimal_hybrid_index.cpp`: the file of lambda points and
whether it was there before, the two queues of jobs as instances of
`OrderedCommits`, the line of block statistics that is waiting (`stats`), the
points not read yet, the choice so far with its space and time, the index. One
step reads one point, as one pass of the greedy loop. The program may be killed
once while it computes the points and be run again.

`ExpansionTools` models the five expansion programs. `pc` is the main thread,
`worker[b]` the place of the thread of collection b (retrieve, expand, convert,
make queries, run), `running` the threads of the generated queries. It uses
`ForwardIndex` (`document_index`, `document_vector`, `rm_expander`),
`WeightedQuery` (parsing, normalisation, conversion of term ids between
collections, `add_original_query`) and `WeightedSampler` (`bss` and the draws);
`HotFuse` is `document_fuser::hot_fuse`. `ForwardIndex` keeps its vectors as
`Qmx` codes them. `Qmx` has both directions of the codec: the width of each group of four integers and its promotion until a
block is full, the selectors behind the blocks, and the bits. Retrieval is what
`QueryAlgorithms` shows the algorithms to do. Weights are integers over a common denominator.

`MCTopkQueue`, `MCQueryAlgorithms`, `MCIndexTypes`, `MCIndexConstruction`,
`MCHybridIndex` and `MCExpansionTools` give TLC its instances; those of
`SemiasyncQueue` are in its `.cfg` files. The proofs are in modules of their
own, `SemiasyncQueueProofs`, `TopkQueueProofs`, `WandProofs`, `MaxScoreProofs`,
`BlockMaxWandProofs`, `QueryAlgorithmsProofs` (which has that of `RankedOr`) and
`HybridIndexProofs`, with the lemmas the algorithms share in `QueryProofs`.
Operators introduced by "Mutant:" are plausible bugs; nothing uses them, and
each breaks one property when it takes the place of the definition after it.

## What is checked

`semiasync_queue` (6 jobs, works 1 to 3, 3 units of work per batch, 0 to 3
threads). `NothingLost`: commits, running batches and the batch being filled
are together the jobs in order. `NoPrepareCommitRace`: nothing is committed
unprepared, and no thread works on a batch being committed. `ThreadLimit`;
`DrainLeavesNothing`: the loop of `complete` ends with everything committed;
`CommitsInOrder`: refinement of `OrderedCommits`; `CompleteReturns`: liveness. Six jobs fill up to six batches, so threads
reach the limit of 1, 2 and 3, and batches of one to three jobs occur.

`topk_queue` (k = 2, four documents, scores -1 to 2). Four documents overfill
the queue twice, with ties and non-positive scores. `KeepsTheBest`,
`WouldEnterIsRight`, `ResultIsTopK`, and `BarNeverFalls`, which the pruning
algorithms rest on: what was skipped stays skippable.

`query_algorithms` (four documents, k = 2). All sets of two lists with posting
weights 0 to 2 over four documents, of three lists with weights 0 and 1, and of
three lists with weights 0 to 2 over three documents; static weights as of BM25
(none) and LMDS (negative); blocks of one, two and more documents; equal and
different query weights, also of a repeated term, which the plain algorithms
count and the weighted ones open twice; an empty query; 930,675 states. `AnswerIsExhaustive`
is the comparison with an exhaustive evaluation that `test_ranked_queries.cpp`
and `test_bmw_queries.cpp` sample. The rest is why it holds:
`SkippedIsHopeless` (what an enumerator passed and nobody offered cannot enter),
`QueueScoresAreFull` (a partial score is always rejected), `ListsInOrder`,
`LeftOutIsHopeless` (the lists MaxScore does not search, and those it stops
adding up, cannot lift a document over the bar), `NoBlockLeftBehind`,
`EveryPassAdvances` (no `while (true)` runs for ever), and `UsesQueueLegally` (the search
refines `TopkQueue`: no document is offered twice). With k = 2 the queue fills
half way through the documents, so pruning, block skipping, early exits and
non-essential lists all occur; three lists are the fewest with lists both
before and after the pivot.

`index_types` (eight documents, lists of one to eight; 190,626 states). Every list of two to six
documents in the Elias-Fano and single types, of one to eight in the block types
with interpolative or optpfor coding, mixed lists with the types of full blocks
in all three turns, every list of one in all but `single`, and in the partitioned types lists of two to five out of six
documents, in every partition and with every encoding that the code may choose
(which is cheaper depends on bit counts; all outcomes are covered). Every order
of `reset`, `next`, `next_geq`, `move` and `freq` is tried from every state.
Thresholds are small so that few documents reach every branch: samples every
four bits or ones instead of 256 or 512, a linear scan of 1 instead of 8,
partitions of 2 and blocks of 3 instead of 128; the branches compare distances with
these numbers only. `AnswersAsPlainList`: refinement of `PostingList`.
`BitsInStep` and `PartitionInView` say why: between calls the unary enumerator
is at the bit of the position and `prev_value()`, from which partition bounds
are read, is the value before; the cached partition is the one of the position. `View` leaves `asked` out of the state, which is sound: no
action reads it, and TLC evaluates the step property on every transition.
Frequencies of block lists exceed 127, so a sum takes more than one byte, and an
assumption that TLC evaluates says of every block of up to five values out of
0, 1, 2 and 130 that interpolative decoding returns it and stops where it ends.
Bounds asked of `next_geq` reach the number of documents, as in the queries. A
block enumerator is not asked to go back, except by `reset`, as its assertions
demand; how the queries fare where one asks it is `maxscore_assert` below.

`index_construction` (all lists of six of ten documents, some with frequencies
that make the two sides be cut differently, alone or two in a collection; pools
of 0 to 3 threads; superblocks by `eps3`; the other options of both programs;
files cut short by one to seven numbers or with an empty last list; the orders
of three documents, random or from every file of three lines; 27,454 states). `IndexHoldsCollection`: what is written is the collection, in its
order, whoever encodes what when. `PartitionIsNearOptimal`: the windows, which
skip most parts, and the superblocks, which are partitioned at the same time,
yield one partition that costs at most (1 + eps1)(1 + eps2) of the best.
`BlocksBoundScores`: the block a search for a posting stops at bounds it, after
quantisation as well. `FailsOnlyOn`: which damage makes a program throw or be
undefined; a whole collection is always built. `EveryBuildEnds`: a build ends
unless the pool has no worker besides the one that waits for its own superblocks.
`ShuffleRenumbers`: the collection that was written reads back as the same
lists, ascending, each posting with the frequency it had and the number of its
document, and the sizes are those of the documents with the numbers. This holds
of every order file that is taken, not only of one with all documents and
numbers: the program counts lines (`shuffle_docids.cpp:56`). The last line of a
document counts and a document without a line gets 0. A list has a document
twice exactly if the file gives two of its documents one number, which no
encoder of a strict sequence expects; of their sizes one stays, and the number
that is left out has the size 0.
The superblock bound depends on `fix_cost`, so that ten documents make up to
three superblocks; lists of six have parts of every size the windows tell apart.

`hybrid_index` (no list, two or three, blocks of two postings, up to three codings
for each side of a block; budgets that nothing, some and all choices keep, and
none; statistics of all, some and no lists; both heuristics; jobs inline or in
threads; 320,452 states). `ChoiceIsOptimal`: when the file of points is whole
and the points of each block come in their order, no other choice is faster in
the space of the one made, and the budget is left by one step at most.
`BuildsWhatWasChosen`: each block of each list has the coding chosen for it, and
a run that ends otherwise had a file that was not whole, a budget of zero on a
small index, or a queue that was destroyed with threads not joined.

`expansion_tools` (three collections of two or three documents, none of
which knows all of the three words but one; five queries, with repeated
and unknown words; one or two feedback documents; a query of the user with
the weight 1/4; generated queries of one or two terms, one per collection).
`ExpansionIsRelevanceModel`: `rm_expander` returns the heaviest terms of the
model by its definition. `QueriesKeepTheirWords`: what is asked of the target
means words of the query or of the feedback documents. `FusionIsOfAllRuns`: the
fused ranking is that of the answers to all queries. `UndefinedOnlyIf` names
what makes a worker undefined. `Answered`: every query is answered otherwise.
With one generated query per collection three threads run at the same time; two
would give 1.6 million states and no new interleaving of the joins.

The same run evaluates two assumptions about the codec on about a thousand
lists (`MCVectors`: all widths in blocks of all types, tails of all lengths,
runs of ones). `CodecAssumption`: what is coded is decoded, with nothing behind
it. `decodeArray` is not told the length of the list (its last parameter is
unused); what keeps it inside the target is that the encoder leaves no block
partly filled. `ShortEndAssumption`: a comment (`compress_qmx.cpp:482`) says that
a last block of less than 16 integers is stored in 8 bits each if they fit; the
`switch` behind it wants 16 for that width and promotes it further, to 10 or 16
bits, or to 32.

Five runs end in a violation and document what the code does:

- `semiasync_complete`: `complete()` does nothing when the last `add_job`
  itself started a thread (`semiasync_queue.hpp:49`), so running threads are
  neither joined nor committed.
- `compressed_wand`: over compressed `wand_data`, block-max WAND loses
  documents because `wand_data_compressed.hpp:136` returns the least float as
  the maximum document weight.
- `maxscore_assert`: MaxScore asks `next_geq` for a document before the
  enumerator's position, against the assertion at `block_posting_list.hpp:126`.
  `query_algorithms` shows that a build without assertions answers correctly.
- `single_index_singleton`: `all_ones_sequence::bitsize` is 0 for one element
  (`all_ones_sequence.hpp:13`), so `single_index` stores a list of one document
  as `all_ones`, against the assertion at line 23, and reads it back as the
  last document of the collection. The other types are not affected: partitions
  are written relative to their first value.
- `expanded_weights`: `README.md:62` gives the expanded query the weight
  1 - lambda; the sum it is normalised by is truncated to an integer after every
  addition (`queries_util.hpp:67`), so it gets more.

What else the models show, with no statement of the repository against it:

- The loader of `document_index` passes once more after the last list and gives
  document 0 a posting of a term that does not exist, of weight 0; expansion on
  the collection itself may ask the index for it. A query without feedback
  documents, or whose feedback has words of the stoplist only, is undefined, and
  so is sampling from a model in which every weight is below 1.
- The loader of the forward index counts empty lists and the builder of the
  inverted index skips them, so behind one the term ids of the two differ.
- LMDS gives a repeated query term the weight of one.
- A frequencies file cut short is not noticed where it ends: the last lists get
  the frequencies of others, or memory behind the file is read. A documents file
  cut short loses the last documents, and throws if only a length is left.
- A pool of one thread starves in the first build with superblocks, as the
  worker that has the documents waits for tasks only it could take.
- The greedy loop of the hybrid index stops behind the point that exceeds the
  budget, not before it. `num_blocks / 2000` is zero for a small index without a
  budget, and a remainder by it is taken. The file of points of a run that was
  killed is taken as complete by the next; blocks without points are then given
  the value-initialised type, and a block that is not full throws. Points of one
  block with equal lambda are sorted in any order, so the block may step back to
  the slower and smaller one.

## Fairness

The operating system runs every started thread, and the client thread inside a
call of the queue: weak fairness of `Prepare(i)` and of the client's steps
inside a call. Nothing makes the client call again. A query runs in one thread
that nothing blocks: that its loop ends is a matter of safety
(`EveryPassAdvances`: each pass moves on in finitely many documents).

In `IndexConstruction` and `ExpansionTools` every thread that can go on does:
weak fairness of the main thread, of each encoder, of the workers of the pool
(one takes the first task when one is free; one ends its task), of the workers
of the collections and of the query threads, and of `ShuffleDocids`. It is stated on actions that say
what the thread changes (`MainMoves`, `EncoderMoves`, `WorkerMoves`, ...), which
are enabled when the steps of `Next` that change it are, and cheap for TLC to
evaluate. `HybridIndex` has no fairness: its liveness is that of
`SemiasyncQueue`.

## What is proved

`SemiasyncQueueProofs`, for any number of jobs, amounts of work and thread
counts (assumption `QueueAssumption`): `TypeOK`, `NothingLost`,
`NoPrepareCommitRace`, `ThreadLimit`, `DrainLeavesNothing`, and that
`SemiasyncQueue` implements `OrderedCommits`. The properties are not inductive.
`Control` adds what each place of the client says about the queue (a thread at
`join`, a batch at `spawn`, none at `drain`), and `Progress` which jobs are
prepared: those committed and the first `ready` ones of each running batch. The
batches are compared through the numbers `Before(k)` and `LastOf(k)`, so that
no step needs an induction over the deque.

`TopkQueueProofs`, for every k, any documents and integer scores (assumption
`TopkAssumption`): `TypeOK`, `KeepsTheBest`, `WouldEnterIsRight`,
`BarNeverFalls`, `ResultIsTopK`. `ThresholdIsFront` makes them inductive: in a
heap that is not empty `threshold` is the score of the front. A replaced front
is no better than what stays, so it may be forgotten; when a positive document
was forgotten, all k in the queue are positive and `finalize` cuts nothing,
which counts the elements through a bijection (`AllPositive`).

The query algorithms, for every index, query, ranker, partition into blocks, k,
and value of the stale `threshold`. `QueryAssumption` says what the code's
rankers, indexes and `wand_data` guarantee: no list is empty, weights of terms
and of query terms are natural numbers, a document's own weight is never
positive. `ScoresAssumption` only names a set that holds the scores. Three
modules prove of one pruning algorithm, and `QueryAlgorithmsProofs` of the
exhaustive one (`RankedOrIsExhaustive`) and of the composition of the four,
which the run `query_algorithms` checks:

| Theorem | Property | Says |
|---|---|---|
| `TypeCorrect` | `TypeOK` | |
| `IsExhaustive` | `AnswerIsExhaustive` | the answer is that of an exhaustive evaluation |
| `ScoresAreFull` | `QueueScoresAreFull` | no partial score is in the queue |
| `SkippedStaysOut` | `SkippedIsHopeless` | what was skipped cannot enter |
| `OrderIsKept` | `ListsInOrder` | after each move the lists are in order (WAND and block-max WAND) |
| `LeftOutStaysOut` | `LeftOutIsHopeless` | what MaxScore leaves out cannot enter |
| `NothingLeftBehind` | `NoBlockLeftBehind` | no block enumerator is past a document to come |
| `PassesAdvance` | `EveryPassAdvances` | each pass moves an enumerator ahead and none back (for MaxScore, `cur_doc` grows) |
| `ImplementsQueue` | `UsesQueueLegally` | every search refines `TopkQueue` |

The theorems about the pruning algorithms assume `Storage = "raw"`. This is not
a convenience: the maximum document weight of compressed `wand_data` is no
bound, and the run `compressed_wand` shows what block-max WAND loses by it.
`RankedOrIsExhaustive`, about an algorithm that reads no bounds, needs no such
assumption. Both kinds of enumerators are covered.

Each inductive invariant has the part of the queue (`QueueInv`: the invariant
of `TopkQueueProofs` for the instance `Topk`, and what was offered has its full
score or could not enter) and a part that says where the enumerators are.

- `RankedOr`: every enumerator is at its first document not before `cur_doc`,
  and what was offered are the matching documents before it. Exhaustiveness at
  the end follows from the second; `SkippedIsHopeless` alone would not do, as
  it does not say that documents ahead have not been offered.
- `Wand`: the lists are in order, what is skipped is hopeless, each enumerator
  is on a document of its list (or at the end), ahead of all that was offered.
  A skipped document lies in lists before the pivot only, whose bounds together
  would not enter (`BeforePivot`); by `BarNeverFalls` it never will.
- `MaxScore`: non-essential enumerators fall behind, so they are only known not
  to be past a document that is not before `cur_doc`. `BoundBelowBar` keeps the
  sum of their bounds below the bar; it is what makes growing the prefix and
  giving up the rest of a score (`StopsAtOne`) right.
- `BlockMaxWand`: adds that block enumerators are at blocks of their lists and
  that none is past a document to come. The bound of a skip holds up to the
  least end of the blocks in view and up to the first list behind the pivot
  (`RestInView`, `NotPromising`, `SkipToIs`); after a partial score the
  document is offered with less than would enter, which the queue rejects
  (`OfferedScore`).
- `QueryAlgorithms`: the invariant of the algorithm that answers. Its modules
  and their proofs are instances of the same definitions under two names, which
  the prover keeps apart; the first lemmas of `QueryAlgorithmsProofs` say that
  they are equal.

The lemmas all rest on, in `QueryProofs`: sums over sets of lists are unfolded
(`SumRec`), monotone and additive (`SumMonotone`, `SumOfTwo`), and a list's
bound is admissible (`BoundAdmissible`, `BoundedRest`). Where a proof on paper
would be an induction, it takes a smallest counterexample (`LeastOf`,
`SmallestSet`), so that no induction theorem with an operator as a parameter is
needed. `MovedDownSorts` is the insertion that puts a moved list back into
order. `OfferStep`, `QuietStep` and `ReturnStep` are what a pass of any
algorithm does to `QueueInv`.

`HybridIndexProofs`, for every index, statistics, budget, block size, setting
and interleaving of the jobs, with one kill and restart: `BuildsWhatWasChosen`
and `ChoiceIsOptimal`, the two properties of its run.
`HybridAssumption` and `InputsAssumption` say what the program is given: no list
is empty, every side of a block has a coding and one that is not full only the
interpolative (`compute_space_time`), and the statistics are those of the same
lists in their order, each at most once, as `block_profiler::dump` writes them
from a map (`block_profiler.hpp:40-54`). The invariant follows the phases.
`StatsInv` and `LambdasInv`: a job has the counts of the one line about its
list, though lines wait and a failed read keeps the number of the list before.
`FileInv`: each point in the file is of one of its side's codings, and each side
with any point has its first, with lambda 0 (`Rooted`; a kill while the points
are computed breaks it, which is why the file is then not sorted). `ChoiceInv`:
a side is given its smallest coding before anything can exceed the budget, so no
side is left without. `TransformInv` and `EndInv`: jobs write the types at
their own base. `NumSides` is a recursive function, the points of a block are
another, and `FlattenSeq` a third, each shown to exist and be typed by a
smallest counterexample (`RecExists`, `RecType`, `FlattenAt`).

The same module proves `ChoiceIsOptimal`, from a second invariant, `OptInv`,
on top of the first. The argument is that of a convex hull, in integers: the
cost of a coding by a slope `num/den` is `den * space + num * time`. The points
kept of a side are a hull of its codings (`Hull`, kept by each `append_lambdas`
step: `HullStays`, `HullGrows`), so that each point's coding costs least by its
own slope and by the slope of the side's next point (`Sided`; with the heuristic
only the first coding is known to be the smallest). `InOrder`: at every moment
of the greedy loop one slope separates the points applied from those unread, and
every side has its last applied point's coding, which therefore costs least of
the side's codings by that slope (`ChoiceSupported`). `SumsInv`: `cur_space` and
`cur_time` are the sums over what is chosen; so no total of any choice weighs
less (`TotalsWeigh`), and a choice better in one of space and time is not as
good in the other. This needs a slope above 0, which there is when every side
has a coding (`SteepSlope`). For the budget, `BudgetKept`: the smallest codings
come first, the loop goes on only within the budget, and the point that exceeds
it is a step from a coding of the same side that did not. TLC had evaluated
`PointsInv` and `GreedyInv`, with the separating slope replaced by the
comparison of every applied point with every unread one, on all states of the
run before the proof.

Only model-checked:

- all liveness (`CompleteReturns`, `EveryBuildEnds`, `Answered`), as fairness
  and ENABLED are beyond the prover;
- the sequences, codecs and partitioning: what a dynamic program or a recursion
  over a list computes is an induction over data (`OptimalPartition` and
  `ScorePartition` also use RECURSIVE operators, which take away the SMT backend);
- index construction and query expansion, which rest on the encodings and on sums;
- `UndefinedOnlyIf`, `FailsOnlyOn` and the five violations, whose point is a
  concrete behaviour.

## What is not modelled, and why

The Krovetz stemmer (6,852 lines, third-party): a pure function on words, which
the models take as they come. The decoder of QMX is generated
(`compress_qmx_decompress.c`, 42,395 of the 63,903 lines, one case for each
selector); `DecodeArray` is the rule by which its cases were generated, and a
case that differed from it would not be seen. The generator itself
(`MAKE_DECOMPRESS`) is not compiled.

Floating-point arithmetic: scores are integers and sums exact, so a bound
rounded below a score (`wand_data.hpp:104`) is not covered. The heap's internal
order. `set_threshold`, `sort_docid` and the copy constructor of `topk_queue`,
which no algorithm calls. The bit layout of sequences and FastPFor's codecs of full blocks: an encoding is
the values written, and its size where a cost is needed. The exception of
`encode_type` for a partial block of another type than interpolative is in
`HybridIndex`, where the types are chosen; `BlockCodecs` is given legal types.

The read one word past the last frequency by `positive_sequence`'s iterator in a
file that ends there. `wand_data` built from a file with only the length of the
last list. An `eps3` above `fix_cost`, for which the bound of a superblock is 0.
The external sort of the lambda points (stxxl); what a killed run leaves of the
file is taken to be a prefix of it. boost's pool is outside the repository and
modelled as tasks taken in order. Seeds and the distribution of the sampler: a
draw is any number of its range. So it does not matter to the models whose draw
is whose when threads share one generator without a lock
(`external_corpus_sampler.cpp:233`), but the data race itself is not modelled:
no property would see an engine whose state it tears.

The score partition looks at the element after the end of the list when its
windows get there (`score_partitioning.hpp:74`). It only counts with it, in
`element_count`, which nothing reads, so the partition is the modelled one; the
read is not an outcome of the model.

Option parsing, statistics and timing of the drivers,
`dump_rm.cpp`, the format converters and the profilers: input and output.

## Plan

1. Done: the queue of jobs, the top-k queue, the query algorithms plain and
   weighted, the enumerators of all index types against one abstract posting
   list, input, index construction, partitioning, bounds, the hybrid optimiser,
   and query expansion.
2. Proved: the two queues, the four algorithms with their composition, and that
   the hybrid index is what was chosen and its choice the best for its space.
   Left to prove: `BlockPostingList` implements `PostingList` for any list and
   block size; `IndexHoldsCollection` for any number of lists, as far as it
   rests on the order of jobs.
3. Left to model: rounding of bounds to `float` (`wand_data.hpp:104`).
