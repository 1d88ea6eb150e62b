-------------------------- MODULE MCQueryAlgorithms --------------------------
(* Small instances of QueryAlgorithms for TLC. *)
EXTENDS QueryAlgorithms, TLC

Setup == INSTANCE QuerySetup

(* A number for the weights of a list, to tell an order of the lists.      *)
Code(f) ==
    LET sum[d \in -1 .. NumDocs - 1] == IF d = -1 THEN 0 ELSE 4 * sum[d - 1] + f[d]
    IN  sum[NumDocs - 1]

(* The lists over the documents docs with posting weights up to most.      *)
ListsOver(docs, most) ==
    {f \in [Docs -> 0..most] :
        /\ \E d \in Docs : f[d] > 0
        /\ \A d \in Docs \ docs : f[d] = 0}

(* All queries on the given lists with the given weights of the terms,     *)
(* static weights of the documents and first documents of the blocks.  Of  *)
(* queries that differ in the numbering of their lists only one is kept,   *)
(* unless q_weight or starts tells the lists apart.                        *)
QueriesOn(lists, q_len, q_weight, doc_weight, starts) ==
    LET n == Len(q_weight)
        same(s, t) == q_weight[s] = q_weight[t] /\ starts[s] = starts[t] IN
    [weighted    : {FALSE},
     lists       : {n},
     q_len       : {q_len},
     q_weight    : {q_weight},
     term_weight : {g \in [1..n -> lists] :
                      \A t \in 2..n :
                        same(t - 1, t) => Code(g[t - 1]) <= Code(g[t])},
     doc_weight  : {doc_weight},
     starts      : {starts}]

(* A query without terms: read_query delivers one for an empty line.       *)
EmptyQuery ==
    [weighted |-> FALSE, lists |-> 0, q_len |-> 1, q_weight |-> <<>>, term_weight |-> <<>>,
     doc_weight |-> [d \in Docs |-> 0], starts |-> <<>>]

(* BM25 has no static weights of documents, LMDS has.                      *)
BM25 == [d \in Docs |-> 0]
LMDS == [d \in Docs |-> IF d % 2 = 1 THEN -1 ELSE 0]

(* Indexes of two terms, to set queries up on.                             *)
IndexesOn(lists, ranker, doc_weight) ==
    [idf : {<<2, 1>>}, ranker : {ranker}, term_weight : [1..2 -> lists],
     doc_weight : {doc_weight}, starts : {<<{2}, {1, 3}>>}]

(* Term 2 is asked for twice, in between the other one.                    *)
MCRepeated ==
    {Setup!BagOfWords(ix, <<2, 1, 2>>) :
        ix \in IndexesOn(ListsOver(Docs, 1), "BM25", BM25)
               \cup IndexesOn(ListsOver(Docs, 1), "LMDS", LMDS)}

(* Expanded queries: the term of the user is one of the model too, and the *)
(* last term of the model may weigh nothing.                               *)
Entries(w1, w2, w3) ==
    <<[term |-> 2, weight |-> w1], [term |-> 1, weight |-> w2], [term |-> 2, weight |-> w3]>>

MCWeighted ==
    {Setup!Weighted(ix, e) :
        ix \in IndexesOn(ListsOver(Docs, 1), "BM25", BM25)
               \cup IndexesOn(ListsOver(Docs, 1), "LMDS", LMDS),
        e \in {Entries(1, 1, 1), Entries(3, 1, 2), Entries(2, 0, 1)}}

MCQueries ==
    QueriesOn(ListsOver(Docs, 2), 2, <<1, 1>>, LMDS, <<{1, 2, 3}, {2}>>)
    \cup QueriesOn(ListsOver(Docs, 2), 3, <<2, 1>>, BM25, <<{2}, {3}>>)
    \cup QueriesOn(ListsOver(Docs, 1), 4, <<1, 2, 1>>, LMDS, <<{2}, {1, 3}, {2}>>)
    \cup QueriesOn(ListsOver(0..2, 2), 3, <<1, 1, 1>>, BM25, <<{2}, {2}, {2}>>)
    \cup MCRepeated \cup MCWeighted \cup {EmptyQuery}

(* wand_data may be compressed for BM25 only.                              *)
MCBM25Queries ==
    QueriesOn(ListsOver(Docs, 2), 2, <<1, 1>>, BM25, <<{1, 2, 3}, {2}>>)

MCScores == -4..10
MCStale == {6}
MCLowest == -1000
=============================================================================
