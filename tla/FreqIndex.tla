------------------------------ MODULE FreqIndex ------------------------------
(***************************************************************************)
(* freq_index::document_enumerator of src/freq_index.hpp over the four     *)
(* sequence indexes of src/index_types.hpp: the documents of a list are    *)
(* one sequence, the sums of its frequencies another, read through         *)
(* src/positive_sequence.hpp.                                              *)
(***************************************************************************)
EXTENDS Integers, Sequences

CONSTANTS
    NumDocs, Inputs,
    EfLogSampling0, EfLogSampling1, RbLogRank1Sampling, RbLogSampling1,
    LinearScanThreshold, LogPartitionSize

VARIABLES
    index,      \* the index type and, as docs and freqs, its two sequences
    list,       \* the posting list they hold
    e,          \* the document_enumerator
    asked,      \* the last call and its argument
    answer      \* what freq() returned last, 0 when it was not asked

vars == <<index, list, e, asked, answer>>

Base == INSTANCE IndexedSequence
Part == INSTANCE PartitionedSequence

Size == Len(list.docs)

(* The sums of the frequencies: positive_sequence::write.                  *)
Sums(freqs) ==
    LET sum[i \in 0 .. Len(freqs)] == IF i = 0 THEN 0 ELSE sum[i - 1] + freqs[i]
    IN  [i \in DOMAIN freqs |-> sum[i]]

(* The sequences an index of each type makes of a list.                    *)
Written(index_type, universe, values, strict) ==
    IF index_type \in {"uniform", "opt"}
    THEN Part!Written(universe, values, index_type = "uniform", strict)
    ELSE {Base!Written(type, universe, values) : type \in
            IF index_type = "single" THEN Base!Types(universe, Len(values), strict)
            ELSE {IF strict THEN "strict_elias_fano" ELSE "elias_fano"}}

move(s, enum, to) ==
    IF s.type = "partitioned" THEN Part!move(s, enum, to)
    ELSE Base!move(s, enum, to)

next(s, enum) ==
    IF s.type = "partitioned" THEN Part!next(s, enum) ELSE Base!next(s, enum)

next_geq(s, enum, lower_bound) ==
    IF s.type = "partitioned" THEN Part!next_geq(s, enum, lower_bound)
    ELSE Base!next_geq(s, enum, lower_bound)

prev_value(s, enum) ==
    IF s.type = "partitioned" THEN Part!prev_value(s, enum)
    ELSE Base!prev_value(s, enum)

Start(s) == IF s.type = "partitioned" THEN Part!Start(s) ELSE Base!Start(s)

(* The enumerator when its sequence of sums is at base and prev is the sum *)
(* before.                                                                 *)
Difference(base, prev, position) ==
    [base |-> base, position |-> position, cur |-> base.value,
     value |-> base.value - prev]

(* Mutant: the difference is taken to the sum kept, whatever is asked for. *)
PositiveMoveKept(s, enum, to) ==
    IF to = enum.position + 1 THEN Difference(next(s, enum.base), enum.cur, to)
    ELSE IF to = 0 THEN Difference(move(s, enum.base, 0), 0, 0)
    ELSE Difference(next(s, move(s, enum.base, to - 1)), enum.cur, to)

(* positive_sequence::enumerator::move.  The sum at the position before is *)
(* kept, to be asked for the next position without another move; of a new  *)
(* enumerator (cur = 0 in Init) it is not initialised, and not used.       *)
PositiveMove(s, enum, to) ==
    LET before == move(s, enum.base, to - 1) IN
    IF to = enum.position + 1 THEN Difference(next(s, enum.base), enum.cur, to)
    ELSE IF to = 0 THEN Difference(move(s, enum.base, 0), 0, 0)
    ELSE Difference(next(s, before), before.value, to)

(* The document_enumerator after docs_enum has answered.                   *)
Answered(docs_enum) ==
    e' = [e EXCEPT !.docs_enum = docs_enum, !.cur_pos = docs_enum.position,
                   !.cur_docid = docs_enum.value]

Init ==
    /\ \E input \in Inputs :
         /\ input.type # "block"
         /\ list = input.list
         /\ \E docs \in Written(input.type, NumDocs, list.docs, FALSE) :
            \E freqs \in Written(input.type, Sums(list.freqs)[Size] + 1,
                                 Sums(list.freqs), TRUE) :
              index = [type |-> input.type, docs |-> docs, freqs |-> freqs]
    /\ e = LET docs_enum == move(index.docs, Start(index.docs), 0)
           IN  [docs_enum |-> docs_enum,
                freqs_enum |-> [base |-> Start(index.freqs), position |-> Size,
                                cur |-> 0, value |-> 0],
                cur_pos |-> 0, cur_docid |-> docs_enum.value]
    /\ asked = <<"reset">>
    /\ answer = 0

AskFreq ==
    /\ asked' = <<"freq">>
    /\ e.cur_docid < NumDocs
    /\ LET freqs_enum == PositiveMove(index.freqs, e.freqs_enum, e.cur_pos) IN
         /\ answer' = freqs_enum.value
         /\ e' = [e EXCEPT !.freqs_enum = freqs_enum]
    /\ UNCHANGED <<index, list>>

Reset ==
    /\ asked' = <<"reset">>
    /\ e' = LET docs_enum == move(index.docs, e.docs_enum, 0)
            IN  [e EXCEPT !.docs_enum = docs_enum, !.cur_pos = 0,
                          !.cur_docid = docs_enum.value]
    /\ UNCHANGED <<index, list, answer>>

Advance ==
    /\ asked' = <<"next">>
    /\ e.cur_docid < NumDocs
    /\ Answered(next(index.docs, e.docs_enum))
    /\ UNCHANGED <<index, list, answer>>

Seek(lower_bound) ==
    /\ asked' = <<"next_geq", lower_bound>>
    /\ Answered(next_geq(index.docs, e.docs_enum, lower_bound))
    /\ UNCHANGED <<index, list, answer>>

Move(p) ==
    /\ asked' = <<"move", p>>
    /\ Answered(move(index.docs, e.docs_enum, p))
    /\ UNCHANGED <<index, list, answer>>

Next ==
    \/ AskFreq \/ Reset \/ Advance
    \/ \E lower_bound \in 0 .. NumDocs : Seek(lower_bound)
    \/ \E p \in 0 .. Size : Move(p)

-----------------------------------------------------------------------------
TypeOK ==
    /\ e.cur_pos \in 0 .. Size
    /\ e.cur_docid \in 0 .. NumDocs
    /\ answer \in Nat
=============================================================================
