------------------------------ MODULE MaxScore ------------------------------
(***************************************************************************)
(* maxscore_query of src/queries.hpp.  The lists are in the order of their *)
(* bounds; the first non_essential_lists of them together cannot bring a   *)
(* document into the queue, so only the others propose documents, and the  *)
(* non-essential ones complete their scores.  One step is one pass of the  *)
(* while loop.                                                             *)
(***************************************************************************)
EXTENDS WandData

VARIABLES
    ordered_enums,          \* the lists by increasing max_term_weight
    non_essential_lists,    \* how many of them are not essential any more
    cur_doc                 \* the document to score next

vars == <<query, docid, m_q, threshold, offered, sorted, pc,
          ordered_enums, non_essential_lists, cur_doc>>

UpTo(i) == {ordered_enums[j] : j \in 1..i}
Essential == Lists \ UpTo(non_essential_lists)

(* The least docid() of some lists, NumDocs when all are at their end.     *)
Least(L, at) ==
    CHOOSE d \in 0..NumDocs :
        /\ \A t \in L : d <= at[t]
        /\ d = NumDocs \/ \E t \in L : d = at[t]

(* upper_bounds[i - 1] and doc_weight_bounds[i - 1].                       *)
UpperBound(i) == SumFunctionOnSet([t \in Lists |-> MaxTermWeight(t)], UpTo(i))
DocWeightBound(i) ==
    query.q_len * Greatest({MaxDocumentWeight(t) : t \in UpTo(i)})

Init ==
    /\ QueryInit
    /\ ordered_enums \in SortedBy([t \in Lists |-> MaxTermWeight(t)])
    /\ non_essential_lists = 0
    /\ cur_doc = Least(Lists, docid)

(***************************************************************************)
(* The second for loop walks down from the last non-essential list and     *)
(* moves each to cur_doc, until the lists that are left cannot lift the    *)
(* score into the queue.  ScoreFrom(kind, i) is the score when list i is   *)
(* next, and StopsAt the list at which the loop breaks (0: at none).       *)
(***************************************************************************)
Hits == {t \in Essential : docid[t] = cur_doc}

ScoreFrom(kind, i) ==
    LET completed == {ordered_enums[j] : j \in i + 1 .. non_essential_lists} IN
    Score(Hits \cup {t \in completed : NextGeq(kind, t, cur_doc) = cur_doc},
          cur_doc)

(* Mutant: the score alone decides whether to go on.                       *)
StopsAtScore(kind) ==
    Greatest({0} \cup
             {i \in 1..non_essential_lists :
                 ~Topk!WouldEnter(ScoreFrom(kind, i))})

StopsAt(kind) ==
    Greatest({0} \cup
             {i \in 1..non_essential_lists :
                 ~Topk!WouldEnter(ScoreFrom(kind, i) + UpperBound(i))})

(* Mutant: the list that would enter becomes non-essential as well.        *)
GrowOneTooMany ==
    LET bound(i) == UpperBound(i + 1) + DocWeightBound(i + 1)
        stops == {i \in non_essential_lists .. query.lists - 1 :
                     \E b \in {bound(i)} : Topk!WouldEnter(b)'}
    IN  non_essential_lists' =
            IF stops = {} THEN query.lists
            ELSE 1 + CHOOSE i \in stops : \A j \in stops : i <= j

(* After an insert lists become non-essential as long as those before them *)
(* and they together stay below the threshold.                             *)
GrowNonEssential ==
    LET bound(i) == UpperBound(i + 1) + DocWeightBound(i + 1)
        stops == {i \in non_essential_lists .. query.lists - 1 :
                     \E b \in {bound(i)} : Topk!WouldEnter(b)'}
    IN  non_essential_lists' =
            IF stops = {} THEN query.lists
            ELSE CHOOSE i \in stops : \A j \in stops : i <= j

Pass ==
    \E kind \in Kinds :
      LET stop == StopsAt(kind)
          completed == {ordered_enums[i] : i \in stop + 1 .. non_essential_lists}
          score == ScoreFrom(kind, stop)
      IN
      /\ pc = "search"
      /\ non_essential_lists < query.lists /\ cur_doc < NumDocs
      /\ UNCHANGED <<query, pc, ordered_enums>>
      /\ docid' = [t \in Lists |->
                     IF t \in Hits THEN NextDoc(t)
                     ELSE IF t \in completed THEN NextGeq(kind, t, cur_doc)
                     ELSE docid[t]]
      /\ cur_doc' = Least(Essential, docid')
      /\ Topk!Insert(Entry(score, cur_doc))
      /\ IF Topk!WouldEnter(score) THEN GrowNonEssential
         ELSE UNCHANGED non_essential_lists

Finish ==
    /\ pc = "search"
    /\ non_essential_lists >= query.lists \/ cur_doc >= NumDocs
    /\ Return
    /\ UNCHANGED <<ordered_enums, non_essential_lists, cur_doc>>

Next == Pass \/ Finish

Spec == Init /\ [][Next]_vars

-----------------------------------------------------------------------------
TypeOK ==
    /\ QueryTypeOK
    /\ ordered_enums \in [Lists -> Lists] /\ IsInjective(ordered_enums)
    /\ non_essential_lists \in 0..query.lists
    /\ cur_doc \in 0..NumDocs

(* What makes a list non-essential: no document that is in non-essential   *)
(* lists only can enter the queue, whatever its score.                     *)
NonEssentialIsHopeless ==
    pc = "search" =>
        \A d \in Docs :
            Matching(d) # {} /\ Matching(d) \subseteq UpTo(non_essential_lists)
                => ~Topk!WouldEnter(FullScore(d))

(* No document is passed over: what lies before cur_doc was offered or     *)
(* cannot enter, although cur_doc was chosen before the last insert and by *)
(* the lists that were essential then.                                     *)
PassedOverIsHopeless ==
    pc = "search" =>
        \A d \in Docs :
            d < cur_doc /\ Matching(d) # {} /\ NotOffered(d)
                => ~Topk!WouldEnter(FullScore(d))

(* block_posting_list asserts that next_geq is never asked for a document  *)
(* before the enumerator, unless it is at the start of its list.  A list   *)
(* that was essential and moved on by next() is asked exactly that.        *)
NextGeqAsserted ==
    pc = "search" /\ cur_doc < NumDocs /\ non_essential_lists < query.lists =>
        \A kind \in Kinds :
          \A i \in StopsAt(kind) + 1 .. non_essential_lists :
            LET t == ordered_enums[i] IN
            cur_doc >= docid[t] \/ docid[t] \in {FirstGeq(t, 0), NumDocs}
=============================================================================
