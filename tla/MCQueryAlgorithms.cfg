CONSTANTS
    NumDocs = 4
    K = 2
    Queries <- MCQueries
    QueryTypes = {"ranked_or", "wand", "maxscore", "block_max_wand", "weighted_ranked_or",
        "weighted_wand", "weighted_maxscore", "weighted_block_max_wand"}
    Scores <- MCScores
    Stale <- MCStale
    Storage = "raw"
    Lowest <- MCLowest
    Quant = 2
SPECIFICATION Spec
INVARIANT TypeOK
INVARIANT AnswerIsExhaustive
INVARIANT QueueScoresAreFull
INVARIANT SkippedIsHopeless
INVARIANT ListsInOrder
INVARIANT LeftOutIsHopeless
INVARIANT NoBlockLeftBehind
PROPERTY UsesQueueLegally
PROPERTY EveryPassAdvances
\* the query returns
CHECK_DEADLOCK FALSE
