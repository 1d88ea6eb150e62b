------------------------------ MODULE WandData ------------------------------
(***************************************************************************)
(* The upper bounds the dynamic pruning algorithms take from wand_data:    *)
(* src/wand_data.hpp with the blocks of src/wand_utils.hpp, stored by      *)
(* src/wand_data_raw.hpp or src/wand_data_compressed.hpp.                  *)
(***************************************************************************)
EXTENDS DisjunctiveQuery

CONSTANTS
    Storage,    \* the block_wand_type: "raw" or "compressed"
    Lowest,     \* std::numeric_limits<float>::lowest()
    Quant       \* the step of the quantised scores of compressed blocks

ASSUME WandDataAssumption ==
    /\ Storage \in {"raw", "compressed"}
    /\ Lowest \in Int
    /\ Quant \in Nat \ {0}

(* The largest of a non-empty set of numbers.                              *)
Greatest(S) == CHOOSE x \in S : \A y \in S : y <= x

(* max_term_weight of a list, times q_weight.                              *)
MaxTermWeight(t) ==
    query.q_weight[t] * Greatest({query.term_weight[t][d] : d \in Postings(t)})

(* max_document_weight: add_sequence of the compressed builder returns the *)
(* least float instead of a maximum.                                       *)
MaxDocumentWeight(t) ==
    IF Storage = "raw"
    THEN Greatest({query.doc_weight[d] : d \in Postings(t)})
    ELSE Lowest

(* The bound on a document that is only in lists of L, from whole lists.   *)
ListBound(L) ==
    query.q_len * Greatest({MaxDocumentWeight(t) : t \in L})
    + SumFunctionOnSet([t \in Lists |-> MaxTermWeight(t)], L)

(* The block of a list is named by its docid(): the document before the    *)
(* first one of the next block, or the last document of the list.  Both    *)
(* partitions cut the list at some documents other than the first.         *)
Cuts(t) == {d \in query.starts[t] \cap Postings(t) : d > FirstGeq(t, 0)}
Blocks(t) == {d - 1 : d \in Cuts(t)} \cup {Greatest(Postings(t))}

InBlock(t, b) ==
    {d \in Postings(t) : d <= b /\ \A c \in Blocks(t) : c < b => d > c}

(* Past its last block a compressed enumerator is at the end of its list   *)
(* of blocks, in a universe of num_docs + 1; a raw one stays at the block. *)
PastBlocks == NumDocs + 1

(* score() of a block, times q_weight: the maximum over its postings,      *)
(* which uniform_score_compressor rounds up to a multiple of its step.     *)
RoundUp(score) == ((score + Quant - 1) \div Quant) * Quant

BlockScore(t, b) ==
    query.q_weight[t] *
        (IF b = PastBlocks THEN Quant
         ELSE LET score == Greatest({query.term_weight[t][d] : d \in InBlock(t, b)})
              IN  IF Storage = "raw" THEN score ELSE RoundUp(score))

FirstBlock(t) == CHOOSE b \in Blocks(t) : \A c \in Blocks(t) : b <= c

(* Mutant: a block that ends at bound is passed.                           *)
BlockGeqPast(t, b, bound) ==
    LET ahead == {c \in Blocks(t) : c >= b /\ c > bound} IN
    IF ahead # {} THEN CHOOSE c \in ahead : \A a \in ahead : c <= a
    ELSE IF Storage = "raw" THEN Greatest(Blocks(t)) ELSE PastBlocks

(* next_geq(bound) of the block enumerator, from block b.                  *)
BlockGeq(t, b, bound) ==
    LET ahead == {c \in Blocks(t) : c >= b /\ c >= bound} IN
    IF ahead # {} THEN CHOOSE c \in ahead : \A a \in ahead : c <= a
    ELSE IF Storage = "raw" THEN Greatest(Blocks(t)) ELSE PastBlocks
=============================================================================
