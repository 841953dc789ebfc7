SPECIFICATION SuiteSpec
CONSTANT Parts = {"multipartRetry"}
CONSTANTS
    Worker = TRUE
    Backup = FALSE
    Schedulers = 2
    Position = 0
    Shapes <- ExecutingShapes
    OwnShape <- GoodBatch
    MaxBatchSize = 2
    MaxBatchSizeBytes = 2
    MaxPendingProposals = 2
    MaxRound = 2
    MaxFaults = 1
INVARIANTS
    FinalizedComplete
\* The bounds of the instances end every behaviour.
CHECK_DEADLOCK FALSE
