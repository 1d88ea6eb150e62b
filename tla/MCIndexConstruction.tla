------------------------- MODULE MCIndexConstruction -------------------------
(* Small instances of IndexConstruction for TLC. *)
EXTENDS IndexConstruction

MCNumDocs == 10

List(docs, freqs) == [docs |-> docs, freqs |-> freqs]
FileOf(lists) == FlattenSeq([l \in DOMAIN lists |-> <<Len(lists[l])>> \o lists[l]])

(* The files of some lists, of that many documents.                        *)
FilesOver(num_docs_, lists) ==
    [docs |-> <<1, num_docs_>> \o FileOf([l \in DOMAIN lists |-> lists[l].docs]),
     freqs |-> FileOf([l \in DOMAIN lists |-> lists[l].freqs])]

FilesOf(lists) == FilesOver(MCNumDocs, lists)

Whole(lists) == [lists |-> SelectSeq(lists, LAMBDA l : l.docs # <<>>),
                 files |-> FilesOf(lists), lost |-> "nothing"]
Less(s, k) == SubSeq(s, 1, Len(s) - k)

(* Files that are cut off after fewer numbers, and whose last list is      *)
(* empty.                                                                  *)
Cut(lists, k) ==
    {[Whole(lists) EXCEPT !.files.docs = Less(@, k), !.lost = "docs"],
     [Whole(lists) EXCEPT !.files.freqs = Less(@, k), !.lost = "freqs"]}
EndsEmpty(lists) ==
    [Whole(lists) EXCEPT !.files = FilesOf(Append(lists, List(<<>>, <<>>))),
                         !.lost = "members"]

(* Lists that are dense or sparse here and there, with frequencies that    *)
(* are not all alike.                                                      *)
FreqsOf(n) == SubSeq(<<1, 1, 3, 1, 1, 2>>, 1, n)
Dense(docs) == List(docs, FreqsOf(Len(docs)))
ListsOf(n) == {Dense(SetToSortSeq(D, <)) : D \in kSubset(n, 0 .. MCNumDocs - 1)}
Two == <<Dense(<<0, 1, 2, 7, 9>>), Dense(<<1, 4, 5, 6>>)>>
Short == <<Dense(<<3>>), Dense(<<0, 1, 2, 3, 4, 9>>)>>
Gap == <<Dense(<<2, 5>>), List(<<>>, <<>>), Dense(<<0, 8>>)>>

Collections ==
    {Whole(<<l>>) : l \in ListsOf(6)} \cup {Whole(Two), Whole(Short), Whole(Gap)}
Damaged ==
    {EndsEmpty(Two), EndsEmpty(Gap)}
    \cup UNION {Cut(lists, k) : lists \in {Two, Gap}, k \in 1 .. 7}

FreqIndexes(types, threads, eps3, check, collections) ==
    {[program |-> "create_freq_index", type |-> type, threads |-> n,
      eps3 |-> e, check |-> c, lists |-> f.lists, files |-> f.files,
      lost |-> f.lost] :
        type \in types, n \in threads, e \in eps3, c \in check, f \in collections}

WandData(p_types, compress, rankers, collections) ==
    {[program |-> "create_wand_data", p_type |-> p, compress |-> c,
      ranker |-> r, lists |-> f.lists, files |-> f.files, lost |-> f.lost] :
        p \in p_types, c \in compress, r \in rankers, f \in collections}

(* Three documents, and two orders: a random one, or a file of three lines *)
(* of any documents and numbers; some have a line too few or too many, or  *)
(* one more document than there are.                                       *)
Few(lists) == [Whole(lists) EXCEPT !.files = FilesOver(3, lists)]
Three == <<List(<<0, 2>>, <<1, 2>>), List(<<0, 1, 2>>, <<3, 1, 2>>)>>
Line(prev_id, new_id) == [prev_id |-> prev_id, new_id |-> new_id]
Lines == {Line(d, n) : d \in 0..2, n \in 0..2}
OrderFiles ==
    [1..3 -> Lines] \cup [1..2 -> Lines]
    \cup {<<Line(0, n), Line(1, 0), Line(d, 1), Line(2, 2)>> : d \in 1..2, n \in 0..2}
    \cup {<<Line(0, 1), Line(d, 0), Line(2, n)>> : d \in {1, 3}, n \in {2, 3}}

ShuffleSizesOf(k) == SubSeq(<<3, 5, 4, 6>>, 1, 4 - k)
Shuffles(orders, lines, k, collections) ==
    {[program |-> "shuffle_docids", order |-> o, lines |-> s,
      sizes |-> ShuffleSizesOf(k), lists |-> f.lists, files |-> f.files,
      lost |-> IF k > 0 THEN "sizes" ELSE f.lost] :
        o \in orders, s \in lines, f \in collections}
ShuffleDamaged ==
    UNION {{[c EXCEPT !.files.docs = Less(@, k), !.lost = "docs"],
            [c EXCEPT !.files.freqs = Less(@, k), !.lost = "freqs"]} :
                c \in {Few(Three)}, k \in 1..8}
    \cup {[Few(Three) EXCEPT
             !.files = FilesOver(3, Append(Three, List(<<>>, <<>>))),
             !.lost = "members"]}

ScoredLists ==
    {Whole(<<List(<<1, 2, 5, 6, 9>>, freqs)>>) : freqs \in [1..5 -> 1..3]}

MCInputs ==
    FreqIndexes({"opt"}, {2}, {0}, {FALSE}, Collections)
    \cup FreqIndexes({"opt"}, {1, 2, 3}, {0, 200}, {TRUE},
                     {Whole(Two), Whole(Short)})
    \cup FreqIndexes({"ef"}, {0, 1, 2}, {0}, {TRUE}, {Whole(Two), Whole(Gap)})
    \cup FreqIndexes({"ef", "block"}, {2}, {0}, {TRUE}, Damaged)
    \cup WandData({"fixed_blocks", "variable_blocks"}, BOOLEAN,
                  {"BM25", "LMDS"},
                  ScoredLists \cup {Whole(Two), Whole(Gap), EndsEmpty(Gap)})
    \cup Shuffles({"file"}, OrderFiles, 0, {Few(Three)})
    \cup Shuffles({"random"}, {<<>>}, 0, {Few(Three)} \cup ShuffleDamaged)
    \cup Shuffles({"random"}, {<<>>}, 1, {Few(Three)})

(* Larger frequencies score more; terms that occur more often score less,  *)
(* for the ranker that looks at that, and more than 1 if they are rare.    *)
MCDocTermWeight ==
    [BM25 |-> [f \in 1..3 |-> [occ \in 1..20 |-> (12 * f) \div (f + 1)]],
     LMDS |-> [f \in 1..3 |-> [occ \in 1..20 |-> (60 * f) \div occ]]]
MCDocumentWeight ==
    [BM25 |-> [d \in 0 .. MCNumDocs - 1 |-> 0],
     LMDS |-> [d \in 0 .. MCNumDocs - 1 |-> -((d * 7) % 10)]]
MCQueryTermWeight ==
    [BM25 |-> [n \in 1 .. MCNumDocs |-> IF n < 3 THEN 3 ELSE 2],
     LMDS |-> [n \in 1 .. MCNumDocs |-> 1]]
=============================================================================
