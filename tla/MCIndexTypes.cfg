CONSTANTS
    NumDocs = 8
    Inputs <- MCInputs
    BlockSize = 3
    EfLogSampling0 = 2
    EfLogSampling1 = 2
    RbLogRank1Sampling = 2
    RbLogSampling1 = 2
    LinearScanThreshold = 1
    LogPartitionSize = 1
SPECIFICATION Spec
VIEW View
INVARIANT TypeOK
INVARIANT BitsInStep
INVARIANT PartitionInView
PROPERTY AnswersAsPlainList
