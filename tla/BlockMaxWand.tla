---------------------------- MODULE BlockMaxWand ----------------------------
(***************************************************************************)
(* block_max_wand_query of src/queries.hpp: WAND, and before a pivot is    *)
(* looked at, a second and tighter test against the bounds of the blocks   *)
(* the pivot falls into; when that fails a whole stretch of documents is   *)
(* skipped.  One step is one pass of the while loop.                       *)
(***************************************************************************)
EXTENDS WandData

VARIABLES
    ordered_enums,  \* the lists in the order of the vector of that name
    block           \* w.docid() of each list

vars == <<query, docid, m_q, threshold, offered, sorted, pc,
          ordered_enums, block>>

Init ==
    /\ QueryInit
    /\ ordered_enums \in SortedBy(docid)
    /\ block = [t \in Lists |-> FirstBlock(t)]

UpTo(i) == {ordered_enums[j] : j \in 1..i}
At(i) == docid[ordered_enums[i]]

(* The positions at which the for loop may find a pivot document.          *)
PivotCandidates ==
    {i \in Lists : /\ \A j \in 1..i : At(j) # NumDocs
                   /\ Topk!WouldEnter(ListBound(UpTo(i)))}

(* The pivot is the last of the lists in a row that are at the document    *)
(* found first; 0 when none is found.                                      *)
Pivot ==
    LET candidates == PivotCandidates IN
    IF candidates = {} THEN 0
    ELSE LET first == CHOOSE i \in candidates : \A j \in candidates : i <= j
         IN  Greatest({i \in first..query.lists :
                          \A j \in first..i : At(j) = At(first)})

(* The block enumerators of the lists up to the pivot follow to its block. *)
MovedBlocks(pivot) ==
    [t \in Lists |->
        IF t \in UpTo(pivot) /\ block[t] < At(pivot)
        THEN BlockGeq(t, block[t], At(pivot)) ELSE block[t]]

(* block_upper_bound without, and block_static_upper_bound.                *)
BlockBound(L, at) == SumFunctionOnSet([t \in Lists |-> BlockScore(t, at[t])], L)
StaticBound(L) == query.q_len * Greatest({MaxDocumentWeight(t) : t \in L})

(* The advanced list at position i moves behind the lists ahead of it that *)
(* are within reach: those with < in one of the loops, <= in the other.    *)
BubbleDown(i, within) ==
    LET p == ordered_enums
        passed == {j \in Lists : j > i /\ \A h \in i+1 .. j : p[h] \in within}
        last == Greatest(passed \cup {i}) IN
    [j \in Lists |-> IF j \in i .. last - 1 THEN p[j + 1]
                     ELSE IF j = last THEN p[i] ELSE p[j]]

(* Mutant: scoring stops as soon as the document would enter.              *)
ScorePivotPartly(pivot) ==
    LET id == At(pivot)
        at == MovedBlocks(pivot)
        hits == {i \in Lists : \A j \in 1..i : At(j) = id}
        tightened(i) ==
            BlockBound(UpTo(pivot) \ UpTo(i), at) + Score(UpTo(i), id)
        stops == {i \in hits : Topk!WouldEnter(tightened(i))}
        last == IF stops = {} THEN Greatest(hits)
                ELSE CHOOSE i \in stops : \A j \in stops : i <= j
    IN
    /\ id = At(1)
    /\ docid' = [t \in Lists |->
                   IF t \in {ordered_enums[i] : i \in hits} THEN NextDoc(t)
                   ELSE docid[t]]
    /\ Topk!Insert(Entry(Score(UpTo(last), id), id))
    /\ ordered_enums' \in SortedBy(docid')

(* Every list up to the pivot is at the pivot document.  It is scored list *)
(* by list, each part replacing the block's bound on it, until what is     *)
(* left cannot enter the queue; insert gets the score reached by then.     *)
ScorePivot(pivot) ==
    LET id == At(pivot)
        at == MovedBlocks(pivot)
        hits == {i \in Lists : \A j \in 1..i : At(j) = id}
        tightened(i) ==
            BlockBound(UpTo(pivot) \ UpTo(i), at) + Score(UpTo(i), id)
        stops == {i \in hits : ~Topk!WouldEnter(tightened(i))}
        last == IF stops = {} THEN Greatest(hits)
                ELSE CHOOSE i \in stops : \A j \in stops : i <= j
    IN
    /\ id = At(1)
    /\ docid' = [t \in Lists |->
                   IF t \in {ordered_enums[i] : i \in hits} THEN NextDoc(t)
                   ELSE docid[t]]
    /\ Topk!Insert(Entry(Score(UpTo(last), id), id))
    /\ ordered_enums' \in SortedBy(docid')

(* Otherwise the last list before the pivot document moves up to it.       *)
AdvanceToPivot(pivot) ==
    LET id == At(pivot)
        i == Greatest({j \in 1..pivot : At(j) # id})
        t == ordered_enums[i] IN
    /\ id # At(1)
    /\ \E kind \in Kinds : \E to \in {NextGeq(kind, t, id)} :
         /\ docid' = [docid EXCEPT ![t] = to]
         /\ ordered_enums' = BubbleDown(i, {u \in Lists : docid[u] <= to})
    /\ UNCHANGED topk

(* Mutant: the skip may end before the pivot document.                     *)
SkipToBefore(pivot, at) ==
    LET nearest == {at[t] : t \in UpTo(pivot)}
    IN  1 + CHOOSE d \in nearest : \A e \in nearest : d <= e

(* The document up to which the blocks in view bound every score: the end  *)
(* of the nearest block, short of the list after the pivot, and past the   *)
(* pivot document in any case.                                             *)
SkipTo(pivot, at) ==
    LET nearest == {at[t] : t \in UpTo(pivot)}
        after == IF pivot < query.lists THEN {At(pivot + 1)} ELSE {}
        jump == CHOOSE d \in nearest \cup after :
                    \A e \in nearest \cup after : d <= e
        next == IF after # {} /\ jump + 1 > At(pivot + 1) THEN At(pivot + 1)
                ELSE jump + 1
    IN  IF next <= At(pivot) THEN At(pivot) + 1 ELSE next

(* The list with the largest q_weight among those up to the pivot, of      *)
(* several the pivot itself or else the first, skips ahead.                *)
SkipBlock(pivot) ==
    LET weight(i) == query.q_weight[ordered_enums[i]]
        largest == {i \in 1..pivot : \A j \in 1..pivot : weight(j) <= weight(i)}
        i == IF pivot \in largest THEN pivot
             ELSE CHOOSE j \in largest : \A h \in largest : j <= h
        t == ordered_enums[i]
    IN
    /\ \E kind \in Kinds :
       \E to \in {NextGeq(kind, t, SkipTo(pivot, MovedBlocks(pivot)))} :
         /\ docid' = [docid EXCEPT ![t] = to]
         /\ ordered_enums' = BubbleDown(i, {u \in Lists : docid[u] < to})
    /\ UNCHANGED topk

Promising(pivot) ==
    Topk!WouldEnter(BlockBound(UpTo(pivot), MovedBlocks(pivot))
                    + StaticBound(UpTo(pivot)))

Pass ==
    /\ pc = "search"
    /\ \E pivot \in {Pivot} \ {0} :
         /\ block' = MovedBlocks(pivot)
         /\ \/ Promising(pivot) /\ ScorePivot(pivot)
            \/ Promising(pivot) /\ AdvanceToPivot(pivot)
            \/ ~Promising(pivot) /\ SkipBlock(pivot)
    /\ UNCHANGED <<query, pc>>

Finish ==
    /\ pc = "search" /\ Pivot = 0
    /\ Return
    /\ UNCHANGED <<ordered_enums, block>>

Next == Pass \/ Finish

Spec == Init /\ [][Next]_vars

-----------------------------------------------------------------------------
TypeOK ==
    /\ QueryTypeOK
    /\ ordered_enums \in [Lists -> Lists] /\ IsInjective(ordered_enums)
    /\ DOMAIN block = Lists
    /\ \A t \in Lists :
         \/ block[t] \in Blocks(t)
         \/ Storage = "compressed" /\ block[t] = PastBlocks

(* At the head of the loop the lists are in the order of their documents.  *)
ListsInOrder ==
    pc = "search" => \A i, j \in Lists : i < j => At(i) <= At(j)

(* The blocks a skip relies on do bound the documents it relies on them    *)
(* for: where the block enumerator of a list is ahead of the list itself,  *)
(* the documents in between cannot enter the queue.                        *)
NoBlockLeftBehind ==
    pc = "search" =>
        \A t \in Lists : \A d \in Postings(t) :
            /\ d >= docid[t]
            /\ \E b \in Blocks(t) : d <= b /\ b < block[t]
            => ~Topk!WouldEnter(FullScore(d))
=============================================================================
