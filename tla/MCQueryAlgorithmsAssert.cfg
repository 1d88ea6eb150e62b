CONSTANTS
    NumDocs = 4
    K = 2
    Queries <- MCQueries
    QueryTypes = {"maxscore"}
    Scores <- MCScores
    Stale <- MCStale
    Storage = "raw"
    Lowest <- MCLowest
    Quant = 2
SPECIFICATION Spec
INVARIANT NextGeqAsserted
\* the query returns
CHECK_DEADLOCK FALSE
