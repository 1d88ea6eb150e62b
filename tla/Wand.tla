-------------------------------- MODULE Wand --------------------------------
(***************************************************************************)
(* wand_query of src/queries.hpp.  The enumerators are kept in the order   *)
(* of their documents; the pivot is the first one at which the bounds of   *)
(* the lists so far let a document into the queue.  One step is one pass   *)
(* of the while loop.                                                      *)
(***************************************************************************)
EXTENDS WandData

VARIABLE
    ordered_enums   \* the lists in the order of the vector of that name

vars == <<query, docid, m_q, threshold, offered, sorted, pc, ordered_enums>>

Init ==
    /\ QueryInit
    /\ ordered_enums \in SortedBy(docid)

UpTo(i) == {ordered_enums[j] : j \in 1..i}
At(i) == docid[ordered_enums[i]]

(* The positions at which the for loop may stop with a pivot: it has not   *)
(* met the end of a list and the bound would enter the queue.              *)
PivotCandidates ==
    {i \in Lists : /\ \A j \in 1..i : At(j) # NumDocs
                   /\ Topk!WouldEnter(ListBound(UpTo(i)))}

(* The position of the pivot, or 0 when none is found.                     *)
Pivot ==
    LET candidates == PivotCandidates IN
    IF candidates = {} THEN 0
    ELSE CHOOSE i \in candidates : \A j \in candidates : i <= j

(* Every list before the pivot is at the pivot document: score it, advance *)
(* the lists that have it and sort again.                                  *)
ScorePivot(pivot) ==
    LET id == At(pivot)
        hits == {ordered_enums[i] : i \in {j \in Lists :
                    \A h \in 1..j : At(h) = id}} IN
    /\ id = At(1)
    /\ docid' = [t \in Lists |-> IF t \in hits THEN NextDoc(t) ELSE docid[t]]
    /\ Topk!Insert(Entry(Score(hits, id), id))
    /\ ordered_enums' \in SortedBy(docid')

(* Mutant: the order is left as it was.                                    *)
BubbleDownNot(i, at) == ordered_enums

(* The list at position i moves behind the lists that are now before it.   *)
BubbleDown(i, at) ==
    LET p == ordered_enums
        passed == {j \in Lists : j > i /\
                    \A h \in i+1 .. j : at[p[h]] < at[p[i]]}
        last == Greatest(passed \cup {i}) IN
    [j \in Lists |-> IF j \in i .. last - 1 THEN p[j + 1]
                     ELSE IF j = last THEN p[i] ELSE p[j]]

(* Mutant: the list moves past the pivot document.                         *)
AdvancePastPivot(pivot) ==
    LET id == At(pivot)
        next_list == Greatest({i \in 1..pivot : At(i) # id}) IN
    /\ id # At(1)
    /\ \E kind \in Kinds :
         docid' = [docid EXCEPT ![ordered_enums[next_list]] =
                      NextGeq(kind, ordered_enums[next_list], id + 1)]
    /\ ordered_enums' = BubbleDown(next_list, docid')
    /\ UNCHANGED topk

(* Otherwise the last list before the pivot document moves up to it.       *)
AdvanceToPivot(pivot) ==
    LET id == At(pivot)
        next_list == Greatest({i \in 1..pivot : At(i) # id}) IN
    /\ id # At(1)
    /\ \E kind \in Kinds :
         docid' = [docid EXCEPT ![ordered_enums[next_list]] =
                      NextGeq(kind, ordered_enums[next_list], id)]
    /\ ordered_enums' = BubbleDown(next_list, docid')
    /\ UNCHANGED topk

Pass ==
    /\ pc = "search"
    /\ \E pivot \in {Pivot} \ {0} : ScorePivot(pivot) \/ AdvanceToPivot(pivot)
    /\ UNCHANGED <<query, pc>>

Finish ==
    /\ pc = "search" /\ Pivot = 0
    /\ Return
    /\ UNCHANGED ordered_enums

Next == Pass \/ Finish

Spec == Init /\ [][Next]_vars

-----------------------------------------------------------------------------
TypeOK ==
    /\ QueryTypeOK
    /\ ordered_enums \in [Lists -> Lists] /\ IsInjective(ordered_enums)

(* At the head of the loop the lists are in the order of their documents:  *)
(* bubbling one advanced list down is as good as sorting again.            *)
ListsInOrder ==
    pc = "search" => \A i, j \in Lists : i < j => At(i) <= At(j)
=============================================================================
