SPECIFICATION FairSpec
CONSTANTS
    Inputs <- MCInputs
    FixCost = 4
    Eps1 = 3
    Eps2 = 30
    Eps1Wand = 10
    Eps2Wand = 1
    FixedCostWand = 3
    WandBlockSize = 2
    DocTermWeight <- MCDocTermWeight
    DocumentWeight <- MCDocumentWeight
    QueryTermWeight <- MCQueryTermWeight
    ScoreOne = 12
    ReferenceSize = 4
    EfLogSampling0 = 9
    EfLogSampling1 = 8
    RbLogRank1Sampling = 9
    RbLogSampling1 = 8
    LinearScanThreshold = 8
INVARIANT TypeOK
INVARIANT IndexHoldsCollection
INVARIANT PartitionIsNearOptimal
INVARIANT BlocksBoundScores
INVARIANT FailsOnlyOn
INVARIANT ShuffleRenumbers
PROPERTY EveryBuildEnds
CHECK_DEADLOCK FALSE
