--------------------------- MODULE QueryAlgorithms ---------------------------
(***************************************************************************)
(* perftest of src/queries.cpp: a query is answered by one of the four     *)
(* algorithms, each time by a new query object over the same index, the    *)
(* same wand_data and the same ranker.  The expansion programs use the     *)
(* weighted twins of the algorithms, whose loops are the same text: what   *)
(* differs is the queries their setup makes, which QuerySetup models.  The *)
(* algorithms share the lists and the queue of the best documents; the     *)
(* variables an algorithm does not have stay as they are.  What all of     *)
(* them must do is stated here once.                                       *)
(***************************************************************************)
EXTENDS WandData

CONSTANT
    QueryTypes      \* the query types a run considers

Plain == {"ranked_or", "wand", "maxscore", "block_max_wand"}
Weighted == {"weighted_ranked_or", "weighted_wand", "weighted_maxscore",
             "weighted_block_max_wand"}

ASSUME QueryTypesAssumption ==
    QueryTypes \subseteq Plain \cup Weighted

VARIABLES
    query_type,             \* the algorithm that answers the query
    ordered_enums,          \* of wand, maxscore and block_max_wand
    block,                  \* of block_max_wand
    non_essential_lists,    \* of maxscore
    cur_doc                 \* of ranked_or and maxscore

vars == <<query, docid, m_q, threshold, offered, sorted, pc, query_type,
          ordered_enums, block, non_essential_lists, cur_doc>>

RankedOr == INSTANCE RankedOr
Wand == INSTANCE Wand
MaxScore == INSTANCE MaxScore
BlockMaxWand == INSTANCE BlockMaxWand

(* A plain query type and its weighted twin.                               *)
RankedOrTypes == {"ranked_or", "weighted_ranked_or"}
WandTypes == {"wand", "weighted_wand"}
MaxScoreTypes == {"maxscore", "weighted_maxscore"}
BlockMaxWandTypes == {"block_max_wand", "weighted_block_max_wand"}

Init ==
    /\ query_type \in QueryTypes
    /\ \/ /\ query_type \in RankedOrTypes /\ RankedOr!Init
          /\ ordered_enums = <<>> /\ block = <<>> /\ non_essential_lists = 0
       \/ /\ query_type \in WandTypes /\ Wand!Init
          /\ block = <<>> /\ non_essential_lists = 0 /\ cur_doc = 0
       \/ /\ query_type \in MaxScoreTypes /\ MaxScore!Init
          /\ block = <<>>
       \/ /\ query_type \in BlockMaxWandTypes /\ BlockMaxWand!Init
          /\ non_essential_lists = 0 /\ cur_doc = 0
    /\ (query_type \in Weighted) = query.weighted

AnswerRankedOr ==
    /\ query_type = "ranked_or" /\ RankedOr!Next
    /\ UNCHANGED <<query_type, ordered_enums, block, non_essential_lists>>

AnswerWand ==
    /\ query_type = "wand" /\ Wand!Next
    /\ UNCHANGED <<query_type, block, non_essential_lists, cur_doc>>

AnswerMaxScore ==
    /\ query_type = "maxscore" /\ MaxScore!Next
    /\ UNCHANGED <<query_type, block>>

AnswerBlockMaxWand ==
    /\ query_type = "block_max_wand" /\ BlockMaxWand!Next
    /\ UNCHANGED <<query_type, non_essential_lists, cur_doc>>

AnswerWeightedRankedOr ==
    /\ query_type = "weighted_ranked_or" /\ RankedOr!Next
    /\ UNCHANGED <<query_type, ordered_enums, block, non_essential_lists>>

AnswerWeightedWand ==
    /\ query_type = "weighted_wand" /\ Wand!Next
    /\ UNCHANGED <<query_type, block, non_essential_lists, cur_doc>>

AnswerWeightedMaxScore ==
    /\ query_type = "weighted_maxscore" /\ MaxScore!Next
    /\ UNCHANGED <<query_type, block>>

AnswerWeightedBlockMaxWand ==
    /\ query_type = "weighted_block_max_wand" /\ BlockMaxWand!Next
    /\ UNCHANGED <<query_type, non_essential_lists, cur_doc>>

Next ==
    \/ AnswerRankedOr \/ AnswerWand \/ AnswerMaxScore \/ AnswerBlockMaxWand
    \/ AnswerWeightedRankedOr \/ AnswerWeightedWand
    \/ AnswerWeightedMaxScore \/ AnswerWeightedBlockMaxWand

Spec == Init /\ [][Next]_vars
-----------------------------------------------------------------------------
TypeOK ==
    /\ query_type \in QueryTypes
    /\ query_type \in RankedOrTypes => RankedOr!TypeOK
    /\ query_type \in WandTypes => Wand!TypeOK
    /\ query_type \in MaxScoreTypes => MaxScore!TypeOK
    /\ query_type \in BlockMaxWandTypes => BlockMaxWand!TypeOK

(* wand_query and block_max_wand_query keep their lists in the order of    *)
(* their documents, though they move one list at a time and rarely sort.   *)
ListsInOrder ==
    /\ query_type \in WandTypes => Wand!ListsInOrder
    /\ query_type \in BlockMaxWandTypes => BlockMaxWand!ListsInOrder

(* The lists maxscore_query does not search any more are not worth it, and *)
(* it passes over no document that could enter the queue.                  *)
LeftOutIsHopeless ==
    query_type \in MaxScoreTypes =>
        MaxScore!NonEssentialIsHopeless /\ MaxScore!PassedOverIsHopeless

(* The call of next_geq in maxscore_query respects the assertion of        *)
(* block_posting_list.  It does not.                                       *)
NextGeqAsserted == query_type \in MaxScoreTypes => MaxScore!NextGeqAsserted

(* The blocks that block_max_wand_query left cannot bring a document into  *)
(* the queue.                                                              *)
NoBlockLeftBehind ==
    query_type \in BlockMaxWandTypes => BlockMaxWand!NoBlockLeftBehind

(* No pass of a search loop leaves everything where it is: an enumerator   *)
(* moves ahead and none goes back, or in maxscore_query, which may ask an  *)
(* enumerator to go back, the document to score next is a later one.  So   *)
(* no loop runs for ever.                                                  *)
EveryPassAdvances ==
    [][pc' = "search" =>
         IF query_type \in MaxScoreTypes THEN cur_doc' > cur_doc
         ELSE /\ \E t \in Lists : docid'[t] > docid[t]
              /\ \A t \in Lists : docid'[t] >= docid[t]]_vars
=============================================================================
