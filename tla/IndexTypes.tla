------------------------------ MODULE IndexTypes ------------------------------
(***************************************************************************)
(* The document_enumerator of an index of any of the types in              *)
(* src/index_types.hpp; the four block indexes differ in their codec only. *)
(* Queries ask it for documents and frequencies in any order; each type    *)
(* must answer as PostingList does.                                        *)
(***************************************************************************)
EXTENDS Integers, Sequences

CONSTANTS
    NumDocs,        \* the number of documents of the index
    Inputs,         \* index types and posting lists
    BlockSize,
    EfLogSampling0, EfLogSampling1, RbLogRank1Sampling, RbLogSampling1,
    LinearScanThreshold, LogPartitionSize

ASSUME InputsAssumption ==
    /\ NumDocs \in Nat /\ BlockSize \in Nat \ {0}
    /\ \A input \in Inputs :
         input.type \in {"ef", "single", "uniform", "opt", "block"}

VARIABLES index, list, e, asked, answer

vars == <<index, list, e, asked, answer>>

Freq == INSTANCE FreqIndex
Block == INSTANCE BlockPostingList

Init == Freq!Init \/ Block!Init

OfBlock == index.type = "block" /\ Block!Next
OfFreq == index.type # "block" /\ Freq!Next
Next == OfBlock \/ OfFreq

Spec == Init /\ [][Next]_vars
(* The last call is nothing an enumerator remembers.                       *)
View == <<index, list, e, answer>>
-----------------------------------------------------------------------------
TypeOK == IF index.type = "block" THEN Block!TypeOK ELSE Freq!TypeOK

(* Every enumerator answers docid() and freq() as if it went through the   *)
(* plain list.  Behind the last document a block list may have any         *)
(* position, which then nobody reads.                                      *)
Plain == INSTANCE PostingList WITH
    docid <- e.cur_docid,
    position <- IF e.cur_docid = NumDocs THEN Len(list.docs)
                ELSE IF index.type = "block" THEN Block!Position
                ELSE e.cur_pos
AnswersAsPlainList == Plain!Spec

(* prev_value() is the value before the position the enumerator is at.    *)
PrevValueIsBefore ==
    index.type # "block" =>
        Freq!prev_value(index.docs, e.docs_enum) =
            IF e.cur_pos = 0 THEN 0 ELSE list.docs[e.cur_pos]

(* Between calls the sequences read from the bits of the position they are *)
(* at, by whichever of the ways they got there, and so does prev_value(),  *)
(* from which the bounds of a partition are read.                          *)
BitsInStep ==
    /\ index.type \notin {"block", "uniform", "opt"}
        => /\ Freq!Base!InStep(index.docs, e.docs_enum)
           /\ Freq!Base!InStep(index.freqs, e.freqs_enum.base)
    /\ PrevValueIsBefore

(* A partitioned sequence has the right partition in view.                 *)
PartitionInView ==
    index.type \in {"uniform", "opt"}
        => /\ Freq!Part!PartitionInView(index.docs, e.docs_enum, list.docs)
           /\ Freq!Part!PartitionInView(index.freqs, e.freqs_enum.base,
                                      Freq!Sums(list.freqs))

(* all_ones_sequence::write: a sequence it is given ends at its universe.  *)
AllOnesAsserted ==
    index.type = "single" =>
        Freq!Base!AllOnesAsserted(index.docs, list.docs)
        /\ Freq!Base!AllOnesAsserted(index.freqs, Freq!Sums(list.freqs))
=============================================================================
