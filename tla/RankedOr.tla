------------------------------ MODULE RankedOr ------------------------------
(***************************************************************************)
(* ranked_or_query of src/queries.hpp: every document of every list is     *)
(* scored, in the order of the documents.  One step is one pass of the     *)
(* while loop.                                                             *)
(***************************************************************************)
EXTENDS DisjunctiveQuery

VARIABLE
    cur_doc     \* the document to score next

vars == <<query, docid, m_q, threshold, offered, sorted, pc, cur_doc>>

(* The least docid() of the enumerators, NumDocs when all are at their end *)
Least(at) ==
    CHOOSE d \in 0..NumDocs :
        /\ \A t \in Lists : d <= at[t]
        /\ d = NumDocs \/ \E t \in Lists : d = at[t]

Init ==
    /\ QueryInit
    /\ cur_doc = Least(docid)

ScoreDocument ==
    LET hits == {t \in Lists : docid[t] = cur_doc} IN
    /\ pc = "search" /\ cur_doc < NumDocs
    /\ docid' = [t \in Lists |-> IF t \in hits THEN NextDoc(t) ELSE docid[t]]
    /\ Topk!Insert(Entry(Score(hits, cur_doc), cur_doc))
    /\ cur_doc' = Least(docid')
    /\ UNCHANGED <<query, pc>>

Finish ==
    /\ pc = "search" /\ cur_doc >= NumDocs
    /\ Return
    /\ UNCHANGED cur_doc

Next == ScoreDocument \/ Finish

Spec == Init /\ [][Next]_vars

-----------------------------------------------------------------------------
TypeOK == QueryTypeOK /\ cur_doc \in 0..NumDocs
=============================================================================
