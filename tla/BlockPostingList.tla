--------------------------- MODULE BlockPostingList ---------------------------
(***************************************************************************)
(* src/block_posting_list.hpp: documents and frequencies of a list are     *)
(* coded in blocks; the enumerator decodes the documents of the block it   *)
(* is in, and a block of frequencies only when one of them is asked for.   *)
(*                                                                         *)
(* What is written has the number of postings, the largest document of     *)
(* each block, where each block but the last ends, and the bytes.          *)
(***************************************************************************)
EXTENDS BlockCodecs

CONSTANTS
    NumDocs, Inputs

VARIABLES
    index,      \* the list as it is written
    list,       \* the posting list
    e,          \* the document_enumerator
    asked,      \* the last call and its argument
    answer      \* what freq() returned last, 0 when it was not asked

vars == <<index, list, e, asked, answer>>

NumBlocks(n) == (n - 1) \div BlockSize + 1

(* The number of postings in a block: block_size or what is left.          *)
BlockLength(n, block) ==
    IF (block + 1) * BlockSize <= n THEN BlockSize ELSE n % BlockSize

(* The documents of a block start behind the last one of the block before. *)
BlockBase(block_maxs, block) == IF block = 0 THEN 0 ELSE block_maxs[block] + 1

(* The sum of the gaps between them.                                       *)
GapsUniverse(n, block_maxs, block) ==
    block_maxs[block + 1] - BlockBase(block_maxs, block)
        - (BlockLength(n, block) - 1)

Assemble(codec, n, block_maxs, blocks) ==
    [type |-> "block", codec |-> codec, size |-> n, block_maxs |-> block_maxs,
     block_endpoints |-> [b \in 1 .. Len(blocks) - 1 |->
                             Len(FlattenSeq(SubSeq(blocks, 1, b)))],
     blocks |-> FlattenSeq(blocks)]

(* write: documents as gaps, frequencies less 1.                           *)
Written(codec, docs, freqs) ==
    LET n == Len(docs)
        last(b) == b * BlockSize + BlockLength(n, b)
        maxs == [b \in 1 .. NumBlocks(n) |-> docs[last(b - 1)]]
        gap(i) == docs[i] - (IF i = 1 THEN -1 ELSE docs[i - 1]) - 1
        of(b, value(_)) ==
            [i \in 1 .. BlockLength(n, b) |-> value(b * BlockSize + i)]
        freq(i) == freqs[i] - 1
    IN  Assemble(codec, n, maxs, [b \in DOMAIN maxs |->
            Encode(codec, of(b - 1, gap), GapsUniverse(n, maxs, b - 1))
            \o Encode(codec, of(b - 1, freq), Unknown)])

(* get_blocks: one block behind the other, without the endpoints.          *)
GetBlocks(l) ==
    LET n(b) == BlockLength(l.size, b)
        data(docs, freqs) ==
            [docs |-> docs.values, freqs |-> freqs.values, end |-> freqs.at]
        block(b, docs) ==
            data(docs, Decode(l.codec, l.blocks, docs.at, Unknown, n(b)))
        docs_at(ptr, b) ==
            Decode(l.codec, l.blocks, ptr, GapsUniverse(l.size, l.block_maxs, b), n(b))
        get(blocks, b) ==
            Append(blocks, block(b,
                docs_at(IF b = 0 THEN 0 ELSE Last(blocks).end, b)))
    IN  FoldLeft(get, <<>>, [b \in 1 .. NumBlocks(l.size) |-> b - 1])

(* write_blocks of the blocks of another list, each with a type for its    *)
(* documents and one for its frequencies (block_transformer).              *)
Transformed(l, types) ==
    LET blocks == GetBlocks(l) IN
    Assemble("mixed", l.size, l.block_maxs, [b \in DOMAIN blocks |->
        EncodeType(types[2 * b - 1], blocks[b].docs,
                   GapsUniverse(l.size, l.block_maxs, b - 1))
        \o EncodeType(types[2 * b], blocks[b].freqs, Unknown)])

-----------------------------------------------------------------------------
Size == index.size
Blocks == NumBlocks(Size)
BlockMax(block) == index.block_maxs[block + 1]
CurBlockSize == BlockLength(Size, e.cur_block)

(* position()                                                              *)
Position == e.cur_block * BlockSize + e.pos_in_block

(* The documents of a block, and where its frequencies begin.              *)
BlockDocs(block) ==
    LET endpoint == IF block = 0 THEN 0 ELSE index.block_endpoints[block]
        gaps == Decode(index.codec, index.blocks, endpoint,
                       GapsUniverse(Size, index.block_maxs, block),
                       BlockLength(Size, block))
    IN  [gaps EXCEPT !.values[1] = @ + BlockBase(index.block_maxs, block)]

AtBlock(d, block, docs) ==
    [d EXCEPT !.cur_block = block, !.pos_in_block = 0,
              !.docs_buf = docs.values, !.cur_docid = docs.values[1],
              !.freqs_block_data = docs.at]

(* Mutant: frequencies that are decoded stay so.                           *)
DecodeDocsBlockOnly(d, block) == AtBlock(d, block, BlockDocs(block))

(* decode_docs_block, by an enumerator d.  What a buffer has behind the    *)
(* postings of the block is left out.                                      *)
DecodeDocsBlock(d, block) ==
    [AtBlock(d, block, BlockDocs(block)) EXCEPT !.freqs_decoded = FALSE]

(* decode_freqs_block                                                      *)
DecodeFreqsBlock(d) ==
    [d EXCEPT !.freqs_decoded = TRUE,
              !.freqs_buf = Decode(index.codec, index.blocks,
                                   d.freqs_block_data, Unknown,
                                   CurBlockSize).values]

(* The loops in next_geq and move: the gaps are added to the document up   *)
(* to the given position in the block.                                     *)
Skip(d, pos) ==
    [d EXCEPT !.pos_in_block = pos,
              !.cur_docid = @ + MapThenSumSet(LAMBDA i : d.docs_buf[i + 1] + 1,
                                              d.pos_in_block + 1 .. pos)]

(* A mixed list is made of one that optpfor wrote.                         *)
Init ==
    /\ \E input \in Inputs :
         /\ input.type = "block" /\ list = input.list
         /\ index = IF input.codec = "mixed"
                    THEN Transformed(Written("pfor", list.docs, list.freqs),
                                     input.types)
                    ELSE Written(input.codec, list.docs, list.freqs)
    /\ e = DecodeDocsBlock([cur_block |-> 0, pos_in_block |-> 0, cur_docid |-> 0,
                            docs_buf |-> <<>>, freqs_buf |-> <<>>,
                            freqs_block_data |-> 0, freqs_decoded |-> FALSE], 0)
    /\ asked = <<"reset">>
    /\ answer = 0

AskFreq ==
    /\ asked' = <<"freq">>
    /\ e.cur_docid < NumDocs
    /\ e' = IF e.freqs_decoded THEN e ELSE DecodeFreqsBlock(e)
    /\ answer' = e'.freqs_buf[e.pos_in_block + 1] + 1
    /\ UNCHANGED <<index, list>>

Reset ==
    /\ asked' = <<"reset">>
    /\ e' = DecodeDocsBlock(e, 0)
    /\ UNCHANGED <<index, list, answer>>

(* next: behind the last posting only the position in the block grows.     *)
Advance ==
    /\ asked' = <<"next">>
    /\ e.cur_docid < NumDocs
    /\ e' = IF e.pos_in_block + 1 < CurBlockSize
            THEN Skip(e, e.pos_in_block + 1)
            ELSE IF e.cur_block + 1 < Blocks
            THEN DecodeDocsBlock(e, e.cur_block + 1)
            ELSE [e EXCEPT !.pos_in_block = e.pos_in_block + 1,
                           !.cur_docid = NumDocs]
    /\ UNCHANGED <<index, list, answer>>

(* The block next_geq looks into: the current one or the first after it    *)
(* whose largest document is at least the bound.                           *)
BlockGeq(lower_bound) ==
    IF lower_bound <= BlockMax(e.cur_block) THEN e
    ELSE DecodeDocsBlock(e,
            CHOOSE b \in e.cur_block + 1 .. Blocks - 1 :
                /\ BlockMax(b) >= lower_bound
                /\ \A c \in e.cur_block + 1 .. b - 1 : BlockMax(c) < lower_bound)

(* The loop of next_geq: to the first document from the bound on.          *)
SkipTo(d, lower_bound) ==
    LET p == CHOOSE q \in d.pos_in_block .. Len(d.docs_buf) - 1 :
               /\ Skip(d, q).cur_docid >= lower_bound
               /\ \A h \in d.pos_in_block .. q - 1 :
                    Skip(d, h).cur_docid < lower_bound
    IN  IF d.cur_docid >= lower_bound THEN d ELSE Skip(d, p)

(* next_geq, called as the queries do: never for a document the list has   *)
(* already passed.  Beyond the last document the position stays.           *)
Seek(lower_bound) ==
    /\ asked' = <<"next_geq", lower_bound>>
    /\ \A i \in DOMAIN list.docs :
         list.docs[i] < e.cur_docid => list.docs[i] < lower_bound
    /\ e' = IF lower_bound > BlockMax(Blocks - 1)
               /\ lower_bound > BlockMax(e.cur_block)
            THEN [e EXCEPT !.cur_docid = NumDocs]
            ELSE SkipTo(BlockGeq(lower_bound), lower_bound)
    /\ UNCHANGED <<index, list, answer>>

(* move, as its assertion allows it to be called before the end.           *)
Move(p) ==
    /\ asked' = <<"move", p>>
    /\ p >= Position /\ e.cur_docid < NumDocs
    /\ e' = LET d == IF p \div BlockSize = e.cur_block THEN e
                     ELSE DecodeDocsBlock(e, p \div BlockSize)
            IN  Skip(d, p % BlockSize)
    /\ UNCHANGED <<index, list, answer>>

Next ==
    \/ AskFreq \/ Reset \/ Advance
    \/ \E lower_bound \in 0 .. NumDocs : Seek(lower_bound)
    \/ \E p \in 0 .. Size - 1 : Move(p)

Spec == Init /\ [][Next]_vars

-----------------------------------------------------------------------------
TypeOK ==
    /\ e.cur_block \in 0 .. Blocks - 1
    /\ e.pos_in_block \in 0 .. CurBlockSize
    /\ e.cur_docid \in 0 .. NumDocs
    /\ e.freqs_decoded \in BOOLEAN
    /\ e.docs_buf \in Seq(Nat) /\ Len(e.docs_buf) = CurBlockSize
    /\ e.freqs_buf \in Seq(Nat)
    /\ e.freqs_decoded => Len(e.freqs_buf) = CurBlockSize
    /\ e.freqs_block_data \in 0 .. Len(index.blocks)
    /\ answer \in Nat
=============================================================================
