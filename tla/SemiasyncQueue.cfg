\* A job that fills a batch alone, one that fills it with another, and one of
\* which three are needed.
CONSTANTS
    NumJobs = 6
    Works = {1, 2, 3}
    WorkPerThread = 3
    ThreadCounts = {0, 1, 2, 3}
SPECIFICATION FairSpec
INVARIANT TypeOK
INVARIANT NothingLost
INVARIANT NoPrepareCommitRace
INVARIANT ThreadLimit
PROPERTY DrainLeavesNothing
PROPERTY CommitsInOrder
PROPERTY CompleteReturns
CHECK_DEADLOCK FALSE
