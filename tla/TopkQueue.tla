----------------------------- MODULE TopkQueue ------------------------------
(***************************************************************************)
(* topk_queue of src/queries_util.hpp, the heap in which every query       *)
(* algorithm keeps the best documents seen so far.  The vector m_q is kept *)
(* up to the order of its elements: std::push_heap and std::pop_heap order *)
(* it by score only, so among equal scores any element may be the one that *)
(* pop_heap moves to the back and insert overwrites.                       *)
(*                                                                         *)
(* A queue object lives as long as its query object and is used again for  *)
(* every query of a log: operator() calls clear(), offers each document it *)
(* scores at most once, and calls finalize().                              *)
(***************************************************************************)
EXTENDS Integers, Sequences, Functions

CONSTANTS
    K,          \* m_k, the number of documents to return
    Docs,       \* document ids
    Scores      \* the scores a document may get

ASSUME TopkAssumption ==
    /\ K \in Nat \ {0}
    /\ Scores \subseteq Int

VARIABLES
    m_q,        \* the heap: pairs of a score and a document id
    threshold,  \* the score of the worst document in the heap
    offered,    \* the pairs passed to insert since the last clear()
    sorted      \* finalize() has run: m_q is in result order, not a heap

vars == <<m_q, threshold, offered, sorted>>

Entries == [score : Scores, doc : Docs]

InHeap(e) == \E i \in 1..Len(m_q) : m_q[i] = e

(* The member threshold is not initialised by the constructor.             *)
Init ==
    /\ m_q = <<>>
    /\ threshold \in Scores
    /\ offered = {}
    /\ sorted = "heap"

(* clear() empties the vector and leaves threshold as it is.               *)
Clear ==
    /\ m_q' = <<>>
    /\ offered' = {}
    /\ sorted' = "heap"
    /\ UNCHANGED threshold

(* would_enter *)
WouldEnter(score) == Len(m_q) < K \/ score > threshold

(* m_q.front() of a heap: an element whose score no other one is below.    *)
IsFront(q, i) ==
    /\ i \in 1..Len(q)
    /\ \A j \in 1..Len(q) : q[i].score <= q[j].score

(* Mutant: the wrong half of the pair.                                     *)
NewThresholdDoc ==
    \E i \in 1..Len(m_q') : IsFront(m_q', i) /\ threshold' = m_q'[i].doc

NewThreshold ==
    \E i \in 1..Len(m_q') : IsFront(m_q', i) /\ threshold' = m_q'[i].score

(* insert(score, docid) when there is room: push_heap.                     *)
InsertPush(e) ==
    /\ Len(m_q) < K
    /\ m_q' = Append(m_q, e)
    /\ NewThreshold

(* Mutant: the back is overwritten without pop_heap.                       *)
InsertReplaceBack(e) ==
    /\ Len(m_q) >= K /\ e.score > threshold
    /\ \E i \in 1..Len(m_q) : ~IsFront(m_q, i) /\ m_q' = [m_q EXCEPT ![i] = e]
    /\ NewThreshold

(* Mutant: threshold is left as it was.                                    *)
InsertReplaceStale(e) ==
    /\ Len(m_q) >= K /\ e.score > threshold
    /\ \E i \in 1..Len(m_q) : IsFront(m_q, i) /\ m_q' = [m_q EXCEPT ![i] = e]
    /\ UNCHANGED threshold

(* Mutant: no comparison with threshold.                                   *)
InsertReplaceAny(e) ==
    /\ Len(m_q) >= K
    /\ \E i \in 1..Len(m_q) : IsFront(m_q, i) /\ m_q' = [m_q EXCEPT ![i] = e]
    /\ NewThreshold

(* insert at capacity: pop_heap, overwrite the back, push_heap.            *)
InsertReplace(e) ==
    /\ Len(m_q) >= K /\ e.score > threshold
    /\ \E i \in 1..Len(m_q) : IsFront(m_q, i) /\ m_q' = [m_q EXCEPT ![i] = e]
    /\ NewThreshold

(* insert at capacity of a document that is no better than the worst.      *)
InsertReject(e) ==
    /\ Len(m_q) >= K /\ ~(e.score > threshold)
    /\ UNCHANGED <<m_q, threshold>>

Insert(e) ==
    /\ sorted = "heap"
    /\ InsertPush(e) \/ InsertReplace(e) \/ InsertReject(e)
    /\ offered' = offered \cup {e}
    /\ UNCHANGED sorted

(* The query algorithms offer a document at most once.                     *)
Offer ==
    \E e \in Entries :
        /\ \A f \in offered : f.doc # e.doc
        /\ Insert(e)

(* Mutant: documents of score 0 are kept.                                  *)
FinalizeWithZero ==
    LET Positive == {i \in 1..Len(m_q) : m_q[i].score >= 0} IN
    /\ sorted = "heap"
    /\ \E n \in 0..Len(m_q) : \E p \in Bijection(1..n, Positive) :
         /\ \A i \in 1..(n - 1) : m_q[p[i]].score >= m_q[p[i + 1]].score
         /\ m_q' = [i \in 1..n |-> m_q[p[i]]]
    /\ sorted' = "sorted"
    /\ UNCHANGED <<threshold, offered>>

(* finalize(): best score first, and nothing whose score is not positive.  *)
Finalize ==
    LET Positive == {i \in 1..Len(m_q) : m_q[i].score > 0} IN
    /\ sorted = "heap"
    /\ \E n \in 0..Len(m_q) : \E p \in Bijection(1..n, Positive) :
         /\ \A i \in 1..(n - 1) : m_q[p[i]].score >= m_q[p[i + 1]].score
         /\ m_q' = [i \in 1..n |-> m_q[p[i]]]
    /\ sorted' = "sorted"
    /\ UNCHANGED <<threshold, offered>>

Next == Clear \/ Offer \/ Finalize

Spec == Init /\ [][Next]_vars
-----------------------------------------------------------------------------
TypeOK ==
    /\ m_q \in Seq(Entries)
    /\ threshold \in Scores
    /\ offered \subseteq Entries
    /\ sorted \in {"heap", "sorted"}

(* The queue holds the K best of the documents offered to it: whatever it  *)
(* was offered and does not hold is no better than anything it holds, and  *)
(* it gave something up only when it was full.                             *)
KeepsTheBest ==
    sorted = "heap" =>
        /\ \A i \in 1..Len(m_q) : m_q[i] \in offered
        /\ \A i, j \in 1..Len(m_q) : m_q[i].doc = m_q[j].doc => i = j
        /\ \A e \in offered :
             \/ InHeap(e)
             \/ /\ Len(m_q) = K
                /\ \A i \in 1..Len(m_q) : e.score <= m_q[i].score

(* threshold is stale after clear() and unset before the first insert, and *)
(* yet would_enter never answers wrongly: the answer is no exactly when    *)
(* the queue is full of documents that are at least as good.               *)
WouldEnterIsRight ==
    sorted = "heap" =>
        \A s \in Scores :
            WouldEnter(s) <=> ~(/\ Len(m_q) >= K
                                /\ \A i \in 1..Len(m_q) : s <= m_q[i].score)

(* Within one query the bar a document has to pass never gets lower once   *)
(* the queue is full: what a query algorithm skipped stays skippable.      *)
BarNeverFalls ==
    [][(Len(m_q) = K /\ sorted' = "heap" /\ m_q' # <<>>) =>
         \A s \in Scores : ~WouldEnter(s) => ~WouldEnter(s)']_vars

(* The result of a query is in order, positive, and complete: a positive   *)
(* document that was offered is missing only if K others are as good.      *)
ResultIsTopK ==
    sorted = "sorted" =>
        /\ \A i \in 1..Len(m_q) : m_q[i].score > 0 /\ m_q[i] \in offered
        /\ \A i \in 1..(Len(m_q) - 1) : m_q[i].score >= m_q[i + 1].score
        /\ \A e \in offered : e.score > 0 =>
             \/ InHeap(e)
             \/ /\ Len(m_q) = K
                /\ \A i \in 1..Len(m_q) : e.score <= m_q[i].score
=============================================================================
