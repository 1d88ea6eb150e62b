CONSTANTS
    NumDocs = 4
    K = 1
    Queries <- MCBM25Queries
    QueryTypes = {"block_max_wand"}
    Scores <- MCScores
    Stale <- MCStale
    Storage = "compressed"
    Lowest <- MCLowest
    Quant = 2
SPECIFICATION Spec
INVARIANT AnswerIsExhaustive
\* the query returns
CHECK_DEADLOCK FALSE
