-------------------------- MODULE IndexConstruction --------------------------
(***************************************************************************)
(* src/create_freq_index.cpp and src/create_wand_data.cpp, and before them *)
(* src/shuffle_docids.cpp, which is in ShuffleDocids.                      *)
(*                                                                         *)
(* The first adds one list of the collection after the other to a builder. *)
(* That of src/freq_index.hpp encodes the documents of a list in a task of *)
(* a pool of threads while the main thread encodes its frequencies; both   *)
(* cut their values into superblocks (src/partitioned_sequence.hpp), each  *)
(* of which is partitioned in a task of the same pool.  The result may be  *)
(* verified against the collection.  The second program goes through the   *)
(* collection twice, and stores blocks of each list with bounds on what    *)
(* its postings score.                                                     *)
(*                                                                         *)
(* The pool is boost's: tasks are taken in the order they came, and who    *)
(* waits for the tasks of a region does nothing else, not even a worker.   *)
(***************************************************************************)
EXTENDS InputCollection, ScorePartition

CONSTANTS
    Inputs,             \* command lines, configurations and collections
    FixCost,            \* fix_cost
    DocTermWeight,      \* doc_term_weight by ranker, frequency and ctf
    DocumentWeight,     \* calculate_document_weight by ranker and document
    QueryTermWeight,    \* query_term_weight by ranker and length of the list
    ScoreOne,           \* the score 1
    ReferenceSize,      \* reference_size, a power of 2
    EfLogSampling0, EfLogSampling1, RbLogRank1Sampling, RbLogSampling1,
    LinearScanThreshold

ASSUME ConstructionAssumption ==
    /\ FixCost \in Nat \ {0} /\ ScoreOne \in Nat \ {0}
    /\ \E bits \in 0 .. ReferenceSize : ReferenceSize = 2^bits

VARIABLES
    input,      \* the program, its options and files
    pc,         \* where the main thread is
    ended,      \* how the program ended
    it,         \* the iterator over the collection
    pool,       \* the tasks that wait for a worker of the pool
    running,    \* the tasks that have one
    encoders,   \* the two encoders of the current list
    written,    \* the sides of the list that are encoded
    index,      \* the sequences of documents and of frequencies
    verified,   \* the number of lists that were compared
    ctf,        \* collection frequencies of the terms
    wand,       \* the blocks of each list
    new_doc_id, count, output       \* those of ShuffleDocids

vars == <<input, pc, ended, it, pool, running, encoders, written, index,
          verified, ctf, wand, new_doc_id, count, output>>
freq_vars == <<pool, running, encoders, written, index, verified>>
wand_vars == <<ctf, wand>>
shuffle_vars == <<new_doc_id, count, output>>

Base == INSTANCE IndexedSequence
Shuffle == INSTANCE ShuffleDocids

Sides == {"docs", "freqs"}
Files == input.files

End(how) ==
    /\ pc' = "over" /\ ended' = how
    /\ UNCHANGED it

(* To the list the iterator is at now, unless it has left the file.        *)
GoOn(to, next_it) ==
    IF Out(next_it) THEN End("undefined")
    ELSE pc' = to /\ it' = next_it /\ UNCHANGED ended

Encoder(values, universe) ==
    [values |-> values, universe |-> universe,
     superblocks |-> <<>>, results |-> <<>>]

Init ==
    /\ input \in Inputs
    /\ pc = "open" /\ ended = "not"
    /\ it = [docs |-> Unread, freqs |-> Unread]
    /\ pool = <<>> /\ running = {}
    /\ encoders = [side \in Sides |-> Encoder(<<>>, 0)] /\ written = {}
    /\ index = [side \in Sides |-> <<>>]
    /\ verified = 0
    /\ ctf = <<>> /\ wand = <<>>
    /\ Shuffle!Init

(* Mutant: they are refused for no ranker.                                 *)
RefusedNever == FALSE

(* Compressed bounds are refused for the ranker that needs the weights of  *)
(* the documents as well, and has scores above 1.                          *)
Refused ==
    /\ input.program = "create_wand_data"
    /\ input.compress /\ input.ranker = "LMDS"

Open ==
    /\ pc = "open" /\ input.program # "shuffle_docids"
    /\ IF BadHeader(Files) THEN End("throws")
       ELSE IF Refused THEN End("refuses")
       ELSE GoOn(IF input.program = "create_wand_data" THEN "stats"
                 ELSE "lists", Begin(Files))
    /\ UNCHANGED <<input, shuffle_vars, freq_vars, wand_vars>>

-----------------------------------------------------------------------------
(* create_freq_index.  A task is an encoder of documents or one of the     *)
(* superblocks of an encoder.                                              *)
Task(side, superblock) == [side |-> side, superblock |-> superblock]
DocsTask == Task("docs", 0)

(* Mutant: neither side is left to the main thread.                        *)
RegionTasksOfBoth == <<DocsTask, Task("freqs", 0)>>

(* What add_posting_list leaves to the pool.                               *)
RegionTasks == <<DocsTask>>

(* The sums of the first frequencies, which positive_sequence stores.      *)
Sums(freqs) ==
    [i \in DOMAIN freqs |->
        FoldLeft(LAMBDA a, b : a + b, 0, SubSeq(freqs, 1, i))]

Written(values, universe, ends) ==
    [values |-> values, universe |-> universe, ends |-> ends]

(* add_posting_list: that of a block index encodes the list itself.        *)
AddPostingList ==
    /\ pc = "lists" /\ ~AtEnd(Files, it)
    /\ LET n == it.docs.size
           docs == Docs(Files, it)
           sums == Sums(Freqs(Files, it))
       IN  IF ~Readable(Files, it)
           THEN End("undefined") /\ UNCHANGED freq_vars
           ELSE IF n = 0
           THEN End("throws") /\ UNCHANGED freq_vars
           ELSE IF input.type = "block"
           THEN /\ index' = [docs |-> Append(index.docs,
                                    Written(docs, num_docs(Files), <<n>>)),
                             freqs |-> Append(index.freqs,
                                    Written(sums, sums[n] + 1, <<n>>))]
                /\ GoOn("lists", Advance(Files, it))
                /\ UNCHANGED <<pool, running, encoders, written, verified>>
           ELSE /\ encoders' = [docs |-> Encoder(docs, num_docs(Files)),
                                freqs |-> Encoder(sums, sums[n] + 1)]
                /\ written' = {}
                /\ pool' = pool \o RegionTasks
                /\ pc' = "region"
                /\ UNCHANGED <<ended, it, running, index, verified>>
    /\ UNCHANGED <<input, shuffle_vars, wand_vars>>

(* Mutant: there is a thread for every task.                               *)
TakeAtOnce ==
    /\ pool # <<>>
    /\ running' = running \cup {Head(pool)}
    /\ pool' = Tail(pool)
    /\ UNCHANGED <<input, shuffle_vars, pc, ended, it, encoders, written, index, verified,
                   wand_vars>>

(* A worker without a task takes one.                                      *)
Take ==
    /\ pool # <<>> /\ Cardinality(running) < input.threads
    /\ running' = running \cup {Head(pool)}
    /\ pool' = Tail(pool)
    /\ UNCHANGED <<input, shuffle_vars, pc, ended, it, encoders, written, index, verified,
                   wand_vars>>

(* Who encodes a side is at work on it.                                    *)
Encodes(side) ==
    /\ pc = "region" /\ side \notin written
    /\ side = "docs" => DocsTask \in running

Size(side) == Len(encoders[side].values)
BitsOf(side, universe, n) == Base!Bitsize(universe, n, side = "freqs")
cost_fun(side, universe, n) == BitsOf(side, universe, n) + FixCost

(* compute_partition leaves a list uncut that takes little space, other    *)
(* sequences than partitioned ones are never cut.                          *)
Uncut(side) ==
    \/ input.type # "opt"
    \/ BitsOf(side, encoders[side].universe, Size(side)) < 2 * FixCost

Finish(side, ends) ==
    /\ index' = [index EXCEPT ![side] = Append(@,
                    Written(encoders[side].values, encoders[side].universe, ends))]
    /\ written' = written \cup {side}
    /\ running' = running \ (IF side = "docs" THEN {DocsTask} ELSE {})
    /\ UNCHANGED <<input, shuffle_vars, pc, ended, it, pool, encoders, verified, wand_vars>>

WriteUncut(side) ==
    /\ Encodes(side) /\ Uncut(side)
    /\ Finish(side, <<Size(side)>>)

superblock_bound(n) ==
    IF input.eps3 # 0 THEN (FixCost * 100) \div input.eps3 ELSE n

(* Where the superblocks made so far end.                                  *)
Pos(side) ==
    FoldLeft(LAMBDA p, s : p + s.size, 0, encoders[side].superblocks)

(* The next superblock: a remainder that is smaller than the bound is part *)
(* of the last one, the universe of which is that of the list.             *)
NextSuperblock(side) ==
    LET n == Size(side)
        pos == Pos(side)
        values == encoders[side].values
        bounded == Min({superblock_bound(n), n - pos})
        size == IF n - (pos + bounded) < superblock_bound(n) THEN n - pos
                ELSE bounded
    IN  [pos |-> pos, size |-> size,
         base |-> IF pos = 0 THEN values[1] ELSE values[pos] + 1,
         universe |-> IF pos + size = n THEN encoders[side].universe
                      ELSE values[pos + size] + 1]

SpawnSuperblock(side) ==
    /\ Encodes(side) /\ ~Uncut(side) /\ Pos(side) < Size(side)
    /\ encoders' = [encoders EXCEPT
            ![side].superblocks = Append(@, NextSuperblock(side)),
            ![side].results = Append(@, <<>>)]
    /\ pool' = Append(pool, Task(side, Len(encoders[side].superblocks) + 1))
    /\ UNCHANGED <<input, shuffle_vars, pc, ended, it, running, written, index, verified,
                   wand_vars>>

(* Mutant: a task adds the position the encoder has reached meanwhile.     *)
PartitionByReference(t) ==
    /\ t.superblock > 0
    /\ LET encoder == encoders[t.side]
           s == encoder.superblocks[t.superblock]
           costs == [universe \in 1 .. s.universe, n \in 1 .. s.size |->
                        cost_fun(t.side, universe, n)]
           opt == optimal_partition(
                    SubSeq(encoder.values, s.pos + 1, s.pos + s.size),
                    s.base, s.universe, costs)
           pos == Pos(t.side) - s.size
       IN  encoders' = [encoders EXCEPT ![t.side].results[t.superblock] =
                        [p \in DOMAIN opt.partition |-> pos + opt.partition[p]]]
    /\ running' = running \ {t}
    /\ UNCHANGED <<input, shuffle_vars, pc, ended, it, pool, written, index, verified,
                   wand_vars>>

(* The task of a superblock, which writes to a vector of its own.          *)
Partition(t) ==
    /\ t.superblock > 0
    /\ LET encoder == encoders[t.side]
           s == encoder.superblocks[t.superblock]
           costs == [universe \in 1 .. s.universe, n \in 1 .. s.size |->
                        cost_fun(t.side, universe, n)]
           opt == optimal_partition(
                    SubSeq(encoder.values, s.pos + 1, s.pos + s.size),
                    s.base, s.universe, costs)
       IN  encoders' = [encoders EXCEPT ![t.side].results[t.superblock] =
                    [p \in DOMAIN opt.partition |-> s.pos + opt.partition[p]]]
    /\ running' = running \ {t}
    /\ UNCHANGED <<input, shuffle_vars, pc, ended, it, pool, written, index, verified,
                   wand_vars>>

(* All superblocks are partitioned: the encoder writes the partitions.     *)
AllPartitioned(side) ==
    /\ Pos(side) = Size(side)
    /\ \A k \in DOMAIN encoders[side].results :
         encoders[side].results[k] # <<>>

WriteCut(side) ==
    /\ Encodes(side) /\ ~Uncut(side) /\ AllPartitioned(side)
    /\ Finish(side, FlattenSeq(encoders[side].results))

Encode(side) ==
    WriteUncut(side) \/ SpawnSuperblock(side) \/ WriteCut(side)

(* Mutant: the region ends with the part of it the main thread does.       *)
JoinMainThread ==
    /\ pc = "region" /\ "freqs" \in written
    /\ GoOn("lists", Advance(Files, it))
    /\ UNCHANGED <<input, shuffle_vars, freq_vars, wand_vars>>

(* The end of the region: both sides are written.                          *)
JoinEncoders ==
    /\ pc = "region" /\ written = Sides
    /\ GoOn("lists", Advance(Files, it))
    /\ UNCHANGED <<input, shuffle_vars, freq_vars, wand_vars>>

(* build and freeze; --check reads the collection once more.               *)
Build ==
    /\ pc = "lists" /\ AtEnd(Files, it)
    /\ IF input.check THEN GoOn("verify", Begin(Files)) ELSE End("built")
    /\ UNCHANGED <<input, shuffle_vars, freq_vars, wand_vars>>

(* One round of verify_collection, which exits at a difference.            *)
VerifyList ==
    /\ pc = "verify" /\ ~AtEnd(Files, it)
    /\ IF ~Readable(Files, it) THEN End("undefined") /\ UNCHANGED verified
       ELSE IF /\ verified < Len(index.docs)
               /\ index.docs[verified + 1].values = Docs(Files, it)
               /\ index.freqs[verified + 1].values = Sums(Freqs(Files, it))
       THEN GoOn("verify", Advance(Files, it)) /\ verified' = verified + 1
       ELSE End("differs") /\ UNCHANGED verified
    /\ UNCHANGED <<input, shuffle_vars, pool, running, encoders, written, index, wand_vars>>

EverythingIsOK ==
    /\ pc = "verify" /\ AtEnd(Files, it)
    /\ End("built")
    /\ UNCHANGED <<input, shuffle_vars, freq_vars, wand_vars>>

CreateFreqIndex ==
    \/ AddPostingList \/ Take \/ JoinEncoders
    \/ \E side \in Sides : Encode(side)
    \/ \E t \in running : Partition(t)
    \/ Build \/ VerifyList \/ EverythingIsOK

-----------------------------------------------------------------------------
(* create_wand_data.  The postings of the list as the ranker sees them.    *)
PostingsOf(docs, freqs, term_ctf) ==
    [i \in DOMAIN docs |->
        [doc |-> docs[i],
         score |-> DocTermWeight[input.ranker][freqs[i]][term_ctf],
         weight |-> DocumentWeight[input.ranker][docs[i]]]]

(* The first pass over the collection: the occurrences of each term.       *)
SumCtf ==
    /\ pc = "stats" /\ ~AtEnd(Files, it)
    /\ IF ~Readable(Files, it) THEN End("undefined") /\ UNCHANGED ctf
       ELSE /\ ctf' = Append(ctf, FoldLeft(LAMBDA a, b : a + b, 0,
                                           Freqs(Files, it)))
            /\ GoOn("stats", Advance(Files, it))
    /\ UNCHANGED <<input, shuffle_vars, freq_vars, wand>>

SecondPass ==
    /\ pc = "stats" /\ AtEnd(Files, it)
    /\ GoOn("blocks", Begin(Files))
    /\ UNCHANGED <<input, shuffle_vars, freq_vars, wand_vars>>

(* compress_data: the number of steps of 1 / reference_size a score is     *)
(* above, and the element it is packed into with the document.             *)
ScoreIndex(score) ==
    Min({i \in 0 .. score * ReferenceSize :
            score * ReferenceSize <= (i + 1) * ScoreOne})
Packed(block) == block.docid * ReferenceSize + ScoreIndex(block.max_term_weight)

(* What an enumerator makes of the element, without a weight.              *)
Unpacked(elem) ==
    [docid |-> elem \div ReferenceSize,
     score |-> (((elem % ReferenceSize) + 1) * ScoreOne) \div ReferenceSize]

Stored(block) ==
    IF input.compress THEN Unpacked(Packed(block))
    ELSE [docid |-> block.docid, score |-> block.max_term_weight,
          weight |-> block.max_document_weight]

(* add_sequence, in the order of the first pass.                           *)
AddSequence ==
    /\ pc = "blocks" /\ ~AtEnd(Files, it)
    /\ LET term_ctf == ctf[Len(wand) + 1]
           postings == PostingsOf(Docs(Files, it), Freqs(Files, it), term_ctf)
           idf == QueryTermWeight[input.ranker][Len(postings)]
           blocks == IF input.p_type = "fixed_blocks"
                     THEN static_block_partition(postings)
                     ELSE variable_block_partition(postings, idf)
       IN  wand' = Append(wand,
                [blocks |-> [b \in DOMAIN blocks |-> Stored(blocks[b])],
                 max_term_weight |->
                    Max({blocks[b].max_term_weight : b \in DOMAIN blocks})])
    /\ GoOn("blocks", Advance(Files, it))
    /\ UNCHANGED <<input, shuffle_vars, freq_vars, ctf>>

WandDone ==
    /\ pc = "blocks" /\ AtEnd(Files, it)
    /\ End("built")
    /\ UNCHANGED <<input, shuffle_vars, freq_vars, wand_vars>>

CreateWandData == SumCtf \/ SecondPass \/ AddSequence \/ WandDone

-----------------------------------------------------------------------------
Over == pc = "over" /\ UNCHANGED vars

Shuffling ==
    input.program = "shuffle_docids" /\ UNCHANGED <<freq_vars, wand_vars>>

ShuffleDocids ==
    \/ Shuffling /\ Shuffle!Open
    \/ Shuffling /\ Shuffle!ReadLine
    \/ Shuffling /\ Shuffle!OrderIsRead
    \/ Shuffling /\ Shuffle!ShuffleSizes
    \/ Shuffling /\ Shuffle!ShuffleList
    \/ Shuffling /\ Shuffle!Done

Next == Open \/ CreateFreqIndex \/ CreateWandData \/ ShuffleDocids \/ Over

Spec == Init /\ [][Next]_vars

(* The steps of the threads as what they change: the main thread goes on   *)
(* through the program or the collection, an encoder submits a superblock  *)
(* or writes its sequence, a worker takes a task, and a task ends.         *)
MainMoves ==
    /\ input.program # "shuffle_docids"
    /\ pc # "over" /\ (pc = "region" => written = Sides)
    /\ pc' \in {"lists", "region", "verify", "stats", "blocks", "over"}
    /\ it' \in {it, Begin(Files), Advance(Files, it)}

EncoderMoves(side) ==
    /\ Encodes(side)
    /\ \/ /\ ~Uncut(side) /\ Pos(side) < Size(side)
          /\ pool' = Append(pool, Task(side, Len(encoders[side].superblocks) + 1))
          /\ UNCHANGED written
       \/ /\ Uncut(side) \/ AllPartitioned(side)
          /\ written' = written \cup {side}
          /\ UNCHANGED pool

SomeTaskIsTaken ==
    /\ pool # <<>> /\ Cardinality(running) < input.threads
    /\ pool' = Tail(pool)

SomeTaskEnds ==
    \E t \in running : t.superblock > 0 /\ running' = running \ {t}

(* Threads that can go on do.                                              *)
FairSpec ==
    /\ Spec
    /\ WF_<<pc, it>>(MainMoves)
    /\ WF_vars(ShuffleDocids)
    /\ \A side \in Sides : WF_<<pool, written>>(EncoderMoves(side))
    /\ WF_pool(SomeTaskIsTaken)
    /\ WF_running(SomeTaskEnds)
-----------------------------------------------------------------------------
TypeOK ==
    /\ pc \in {"open", "lists", "region", "verify", "stats", "blocks",
              "order", "sizes", "shuffle", "over"}
    /\ ended \in {"not", "built", "throws", "refuses", "differs", "undefined"}
    /\ (pc = "over") = (ended # "not")
    /\ \A t \in running \cup {pool[k] : k \in DOMAIN pool} :
         /\ t.side \in Sides
         /\ t.superblock \in 0 .. Len(encoders[t.side].superblocks)
    /\ running # {} => Cardinality(running) <= input.threads
    /\ written \subseteq Sides
    /\ verified \in 0 .. Len(index.docs)
    /\ Len(wand) <= Len(ctf)

(* The files of a collection are written from its lists (input.lists), the *)
(* last thing may be lost: a list cut short, or the lists without members  *)
(* that may be anywhere.                                                   *)
Lists == input.lists
IsPrefixOf(s, t) == Len(s) <= Len(t) /\ s = SubSeq(t, 1, Len(s))

(* The index has the lists that are not empty, in the order of the files,  *)
(* whoever encodes what when; between two lists it has as many sequences   *)
(* of documents as of frequencies.  A file of documents that is cut short  *)
(* costs the last documents, one of frequencies that is not noticed gives  *)
(* the last lists frequencies of others.                                   *)
IndexHoldsCollection ==
    /\ pc # "region" => Len(index.docs) = Len(index.freqs)
    /\ \A l \in DOMAIN index.docs :
         LET docs == index.docs[l].values IN
         /\ IsPrefixOf(docs, Lists[l].docs)
         /\ docs # Lists[l].docs => input.lost = "docs" /\ l = Len(index.docs)
    /\ \A l \in DOMAIN index.freqs :
         LET sums == index.freqs[l].values IN
         \/ IsPrefixOf(sums, Sums(Lists[l].freqs))
               /\ l \in DOMAIN index.docs
                     => Len(sums) = Len(index.docs[l].values)
         \/ input.lost = "freqs"

(* The cost of a partition of a sequence as it is written, from position   *)
(* to position, and the least there is with a cut at every superblock end. *)
CostOf(side, values, begin, end) ==
    LET base == IF begin = 0 THEN values[1] ELSE values[begin] + 1
    IN  cost_fun(side, values[end] - base + 1, end - begin)
SuperblockEnds(n) ==
    {n} \cup {p \in 1 .. n - 1 : /\ p % superblock_bound(n) = 0
                                /\ n - p >= superblock_bound(n)}
LeastCost(side, values) ==
    LET forced == SuperblockEnds(Len(values))
        begins(end) == {p \in 0 .. end - 1 :
                            \A f \in forced : f <= p \/ f >= end}
        extend(least, end) ==
            Append(least, Min({least[p + 1] + CostOf(side, values, p, end) :
                                p \in begins(end)}))
    IN  Last(FoldLeft(extend, <<0>>, From(1, Len(values))))

(* Whatever the order of the tasks, what they make is one partition of the *)
(* list, cut where the superblocks end, and it costs at most (1 + eps1)    *)
(* (1 + eps2) of the best there is, though the windows skip most parts.    *)
(* Looked at when a list is done.                                          *)
PartitionIsNearOptimal ==
    pc = "lists" /\ index.docs # <<>> =>
        \A side \in Sides :
            LET s == Last(index[side])
                n == Len(s.values)
                begin(p) == IF p = 1 THEN 0 ELSE s.ends[p - 1]
                total == FoldLeftDomain(LAMBDA c, p :
                            c + CostOf(side, s.values, begin(p), s.ends[p]),
                            0, s.ends)
            IN  /\ Last(s.ends) = n
                /\ \A p \in DOMAIN s.ends : begin(p) < s.ends[p]
                /\ Len(s.ends) > 1 =>
                     /\ SuperblockEnds(n) \subseteq ToSet(s.ends)
                     /\ total * 10000 <= LeastCost(side, s.values)
                                            * (100 + Eps1) * (100 + Eps2)

(* Every posting is in a block: a search for its document stops at the     *)
(* block, and that scores (and weighs) no less than the posting does, nor  *)
(* does the list.                                                          *)
BlocksBoundScores ==
    \A l \in DOMAIN wand :
        LET occurrences == FoldLeft(LAMBDA a, b : a + b, 0, Lists[l].freqs)
            postings == PostingsOf(Lists[l].docs, Lists[l].freqs, occurrences)
            blocks == wand[l].blocks
        IN  \A i \in DOMAIN postings :
                LET geq == {b \in DOMAIN blocks : blocks[b].docid >= postings[i].doc}
                    b == blocks[Min(geq)]
                IN  /\ geq # {}
                    /\ b.score >= postings[i].score
                    /\ ~input.compress => b.weight >= postings[i].weight
                    /\ wand[l].max_term_weight >= postings[i].score

(* A program that is given a whole collection builds what it should.  It   *)
(* throws when only the length of the last list is left of it, and is      *)
(* undefined when frequencies are missing or the last list is empty.       *)
(* Documents are renumbered if there are as many lines in the order file   *)
(* as documents, and all numbers in it are theirs.                         *)
FailsOnlyOn ==
    LET shuffles == input.program = "shuffle_docids"
        lines == IF shuffles /\ input.order = "file" THEN ToSet(input.lines) ELSE {}
    IN
    /\ ended # "differs"
    /\ ended = "throws"
         => \/ input.lost \in {"docs", "sizes"}
            \/ lines # {} /\ Len(input.lines) # num_docs(Files)
    /\ ended = "undefined"
         => \/ input.lost = "freqs"
            \/ input.lost # "nothing" /\ Last(Files.docs) = 0
            \/ \E l \in lines : ~ {l.prev_id, l.new_id}
                                \subseteq 0 .. num_docs(Files) - 1
    /\ ended = "built" /\ input.lost = "nothing"
         => CASE input.program = "create_wand_data" -> Len(wand) = Len(Lists)
              [] input.program = "create_freq_index" -> Len(index.docs) = Len(Lists)
              [] shuffles -> count = Len(input.lines)

(* The collection that is written, as the programs that build of it would  *)
(* read it.                                                                *)
ReadBack ==
    FoldLeft(LAMBDA s, l :
                [it |-> Advance(output, s.it),
                 lists |-> Append(s.lists, [docs |-> Docs(output, s.it),
                                            freqs |-> Freqs(output, s.it)])],
             [it |-> Begin(output), lists |-> <<>>], Lists)

(* The number a document gets: the last that the order file has for it, or *)
(* 0 if the file has none.                                                 *)
NumberOf(d) ==
    LET lines == {k \in DOMAIN input.lines : input.lines[k].prev_id = d}
    IN  IF input.order = "random" THEN new_doc_id[d]
        ELSE IF lines = {} THEN 0 ELSE input.lines[Max(lines)].new_id

(* Whatever order is taken, also one that repeats a document or a number,  *)
(* no posting is lost: the collection that is read back has the same       *)
(* lists, ascending, each posting with the new number of its document and  *)
(* the frequency it had.  A list has a document twice if, and only if, two *)
(* of its documents have one number.  A size is that of a document with    *)
(* the number, or 0 if there is none, so that no size is lost if the       *)
(* numbers of all documents differ.                                        *)
ShuffleRenumbers ==
    input.program = "shuffle_docids" /\ ended = "built" /\ input.lost = "nothing"
    =>
    LET documents == 0 .. num_docs(Files) - 1
        named(n) == {d \in documents : NumberOf(d) = n}
        apart(D) == \A d, e \in D : NumberOf(d) = NumberOf(e) => d = e
        read(result) ==
            /\ AtEnd(output, result.it)
            /\ \A l \in DOMAIN Lists :
                 LET new == result.lists[l]
                     old == Lists[l]
                     have(n, f) == {i \in DOMAIN new.docs :
                                      new.docs[i] = n /\ new.freqs[i] = f}
                     had(n, f) == {i \in DOMAIN old.docs :
                                      old.docs[i] \in named(n) /\ old.freqs[i] = f}
                 IN  /\ Len(new.docs) = Len(old.docs)
                     /\ \A n \in documents, f \in ToSet(old.freqs) :
                          Cardinality(have(n, f)) = Cardinality(had(n, f))
                     /\ \A i, j \in DOMAIN new.docs :
                          i < j => new.docs[i] <= new.docs[j]
                     /\ (\A i, j \in DOMAIN new.docs :
                           i < j => new.docs[i] < new.docs[j]) <=> apart(ToSet(old.docs))
    IN  /\ read(ReadBack)
        /\ \A n \in documents :
             output.sizes[n + 2] \in
                 IF named(n) = {} THEN {0} ELSE {input.sizes[d + 2] : d \in named(n)}

(* The workers of the pool are all waiting for tasks no worker is left to  *)
(* take.                                                                   *)
Starved ==
    /\ pool # <<>>
    /\ Cardinality(running \cap {DocsTask}) >= input.threads

(* A program ends, unless the pool has no worker besides the one that has  *)
(* the documents and waits for its superblocks.                            *)
EveryBuildEnds == <>(pc = "over") \/ <>[]Starved
=============================================================================
