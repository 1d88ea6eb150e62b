-------------------------- MODULE DisjunctiveQuery --------------------------
(***************************************************************************)
(* What the four query algorithms of src/queries.hpp (and their weighted   *)
(* twins in src/weighted_queries.hpp) share: the lists of the query terms, *)
(* an enumerator on each list, the scores, and the queue of the best       *)
(* documents, which is topk_queue as modelled in TopkQueue.                *)
(*                                                                         *)
(* A query is a record of what its setup loop reads off the index, the     *)
(* ranker and the wand_data:                                               *)
(*   weighted     whether the terms have weights                           *)
(*   lists        the number of distinct query terms (query_freqs), or of  *)
(*                entries of a weighted query                              *)
(*   q_len        terms.size(), duplicates included                        *)
(*   q_weight     query_term_weight of each list (times the term's weight  *)
(*                in a weighted query)                                     *)
(*   term_weight  doc_term_weight of each document of each list, 0 where   *)
(*                the list does not have the document                      *)
(*   doc_weight   calculate_document_weight of each document, never > 0    *)
(*   starts       the documents at which a new block of wand_data begins   *)
(* Floating-point scores are integers here: sums and products are exact.   *)
(***************************************************************************)
EXTENDS Integers, Sequences, FiniteSets, Functions

CONSTANTS
    NumDocs,    \* index.num_docs(), which is also docid() at the end of a list
    Queries,    \* the queries a run considers
    K,          \* the number of documents to return
    Scores,     \* a set that holds every score
    Stale       \* what threshold may be before the first insert of a query

Docs == 0 .. NumDocs - 1

ASSUME QueryAssumption ==
    /\ NumDocs \in Nat \ {0}
    /\ \A q \in Queries :
         /\ q.lists \in Nat
         /\ q \in [weighted    : BOOLEAN,
                   lists       : {q.lists},
                   q_len       : Nat \ {0},
                   q_weight    : [1..q.lists -> Nat],
                   term_weight : [1..q.lists -> [Docs -> Nat]],
                   doc_weight  : [Docs -> Int],
                   starts      : [1..q.lists -> SUBSET Docs]]
         /\ \A d \in Docs : q.doc_weight[d] <= 0
         /\ \A t \in 1..q.lists : \E d \in Docs : q.term_weight[t][d] > 0
    /\ K \in Nat \ {0}
    /\ Scores \subseteq Int /\ Stale \subseteq Scores

(* The score of a document from the lists L of a query: the sum of their   *)
(* q_weight * doc_term_weight, and the document's own weight once.         *)
Part(q, d) == [t \in 1..q.lists |-> q.q_weight[t] * q.term_weight[t][d]]

ScoreOf(q, L, d) ==
    q.q_len * q.doc_weight[d] + SumFunctionOnSet(Part(q, d), L)

ASSUME ScoresAssumption ==
    \A q \in Queries : \A d \in Docs : \A L \in SUBSET (1..q.lists) :
        ScoreOf(q, L, d) \in Scores

VARIABLES
    query,      \* the query being answered
    docid,      \* docs_enum.docid() of each list
    m_q, threshold, offered, sorted,    \* m_topk
    pc          \* "search" until operator() returns

topk == <<m_q, threshold, offered, sorted>>

Topk == INSTANCE TopkQueue

Lists == 1 .. query.lists

Postings(t) == {d \in Docs : query.term_weight[t][d] > 0}

(* Mutant: the end of a list is one further.                               *)
FirstGeqPastEnd(t, b) ==
    IF \E d \in Postings(t) : d >= b
    THEN CHOOSE d \in Postings(t) :
             d >= b /\ \A c \in Postings(t) : c >= b => d <= c
    ELSE NumDocs + 1

(* Where an enumerator lands on the first document that is not below b.    *)
FirstGeq(t, b) ==
    IF \E d \in Postings(t) : d >= b
    THEN CHOOSE d \in Postings(t) :
             d >= b /\ \A c \in Postings(t) : c >= b => d <= c
    ELSE NumDocs

(* Mutant: the enumerator stays where it is.                               *)
NextDocStays(t) == FirstGeq(t, docid[t])

(* docs_enum.next() on a document of the list.                             *)
NextDoc(t) == FirstGeq(t, docid[t] + 1)

(* docs_enum.next_geq(b).  Asked for a document before its own position a  *)
(* block enumerator stays and an Elias-Fano enumerator goes back.          *)
Kinds == {"block", "elias_fano"}

NextGeq(kind, t, b) ==
    IF kind = "block" /\ b < docid[t] THEN docid[t] ELSE FirstGeq(t, b)

Score(L, d) == ScoreOf(query, L, d)

Matching(d) == {t \in Lists : d \in Postings(t)}

(* The score that answering the query without any shortcut would give d.   *)
FullScore(d) == Score(Matching(d), d)

Entry(score, d) == [score |-> score, doc |-> d]

(* operator() clears the queue, whose threshold keeps its old value, and   *)
(* an empty query returns at once.                                         *)
QueryInit ==
    /\ query \in Queries
    /\ docid = [t \in Lists |-> FirstGeq(t, 0)]
    /\ m_q = <<>> /\ threshold \in Stale /\ offered = {} /\ sorted = "heap"
    /\ pc = IF query.lists = 0 THEN "done" ELSE "search"

(* After the loop operator() finalizes the queue and returns.              *)
Return ==
    /\ Topk!Finalize
    /\ pc' = "done"
    /\ UNCHANGED <<query, docid>>

(* std::sort of the lists by a key leaves lists of equal key in any order. *)
SortedBy(key) ==
    {p \in Bijection(Lists, Lists) :
        \A i, j \in Lists : i < j => key[p[i]] <= key[p[j]]}
-----------------------------------------------------------------------------
QueryTypeOK ==
    /\ query \in Queries
    /\ docid \in [Lists -> 0..NumDocs]
    /\ Topk!TypeOK
    /\ pc \in {"search", "done"}

(* The answer is the one of an exhaustive evaluation, up to the choice     *)
(* among documents of equal score: every score returned is the full score  *)
(* of its document, no document is returned twice, and a document of       *)
(* positive score is missing only when K others are at least as good.      *)
(* This is what the comparisons with ranked_or_query in                    *)
(* src/test/test_ranked_queries.cpp sample.                                *)
AnswerIsExhaustive ==
    pc = "done" =>
        /\ \A i \in 1..Len(m_q) :
             /\ m_q[i].score = FullScore(m_q[i].doc) /\ m_q[i].score > 0
             /\ Matching(m_q[i].doc) # {}
             /\ i > 1 => m_q[i - 1].score >= m_q[i].score
        /\ \A i, j \in 1..Len(m_q) : m_q[i].doc = m_q[j].doc => i = j
        /\ \A d \in Docs :
             Matching(d) # {} /\ FullScore(d) > 0 =>
                 \/ \E i \in 1..Len(m_q) : m_q[i].doc = d
                 \/ /\ Len(m_q) = K
                    /\ \A i \in 1..Len(m_q) : FullScore(d) <= m_q[i].score

(* Nothing enters the queue with a partial score: when evaluation of a     *)
(* document is given up half way, insert has to reject it.                 *)
QueueScoresAreFull ==
    \A i \in 1..Len(m_q) : m_q[i].score = FullScore(m_q[i].doc)

(* Seen from the queue the whole search is a legal use of it: every        *)
(* document is offered at most once, nothing is offered after finalize().  *)
UsesQueueLegally == Topk!Spec

(* The documents no step has offered to the queue yet.                     *)
NotOffered(d) == \A e \in offered : e.doc # d

(* What the search may forget: a matching document that was not offered    *)
(* and that some enumerator is past already cannot enter the queue any     *)
(* more.                                                                   *)
SkippedIsHopeless ==
    pc = "search" =>
        \A d \in Docs :
            /\ NotOffered(d)
            /\ \E t \in Matching(d) : docid[t] > d
            => ~Topk!WouldEnter(FullScore(d))
=============================================================================
