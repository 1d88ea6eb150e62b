CONSTANTS
    NumJobs = 6
    Works = {1, 2, 3}
    WorkPerThread = 3
    ThreadCounts = {0, 1, 2, 3}
SPECIFICATION Spec
INVARIANT CompleteCommitsAll
\* the client may stop calling
CHECK_DEADLOCK FALSE
