---------------------------- MODULE MCIndexTypes ----------------------------
(* Small instances of IndexTypes for TLC. *)
EXTENDS IndexTypes, SequencesExt, FiniteSetsExt

(* The lists of n documents out of docs; a frequency tells its place.      *)
Lists(docs, n, freqs) ==
    LET all == [i \in 1 .. NumDocs |-> i - 1] IN
    {[docs |-> SelectSeq(all, LAMBDA d : d \in D), freqs |-> SubSeq(freqs, 1, n)] :
        D \in kSubset(n, docs)}
ListsOf(docs, n) == Lists(docs, n, <<1, 3, 2, 1, 2, 1>>)

(* In blocks some frequencies take more than seven bits.                   *)
BlockLists(docs, n) == Lists(docs, n, <<1, 3, 200, 1, 2, 130, 4, 1>>)

(* Types for n postings: of full blocks any, in turns; of others           *)
(* interpolative.                                                          *)
TypesFrom(t, n) ==
    [s \in 1 .. 2 * ((n - 1) \div BlockSize + 1) |->
        IF ((s + 1) \div 2) * BlockSize > n THEN "interpolative"
        ELSE <<"pfor", "varint", "interpolative">>[((s + t) % 3) + 1]]

MCBlocks ==
    [type : {"block"}, codec : {"pfor", "interpolative"},
     list : UNION {BlockLists(0..7, n) : n \in 1..8}]
    \cup UNION {[type : {"block"}, codec : {"mixed"},
                 types : {TypesFrom(t, n) : t \in 0..2},
                 list : BlockLists({0, 1, 2, 4, 5, 6, 7}, n)] : n \in 2..7}
    \cup [type : {"block"}, codec : {"varint"}, list : BlockLists(0..4, 4)]

(* The blocks of the lists have up to three values; blocks of five are     *)
(* read as they were written, too, and up to where they end.               *)
Values == UNION {[1..n -> {0, 1, 2, 130}] : n \in 1..5}
ASSUME InterpolativeAssumption ==
    \A in \in Values : \A sum \in {Block!Unknown, FoldLeft(+, 0, in)} :
        LET bytes == Block!EncodeInterpolative(in, sum) IN
        Block!DecodeInterpolative(<<255>> \o bytes \o <<255>>, 1, sum, Len(in))
            = [values |-> in, at |-> 1 + Len(bytes)]

(* Long lists in one sequence or in blocks, where every way to skip occurs, *)
(* and shorter ones in every possible partition.  A list of one document   *)
(* in a single_index is left to another run.                               *)
MCInputs ==
    [type : {"ef", "single"}, list : UNION {ListsOf(0..7, n) : n \in 2..6}]
    \cup MCBlocks
    \cup [type : {"ef", "uniform", "opt"}, list : ListsOf(0..7, 1)]
    \cup [type : {"uniform", "opt"},
          list : UNION {ListsOf({0, 1, 2, 4, 5, 7}, n) : n \in 2..3}
                    \cup ListsOf({0, 1, 3, 4, 7}, 4)]
    \cup [type : {"uniform"}, list : ListsOf({0, 1, 2, 4, 5, 7}, 5)]

(* One document in a single_index.                                         *)
MCSingletons == [type : {"single"}, list : ListsOf(0..7, 1)]
=============================================================================
