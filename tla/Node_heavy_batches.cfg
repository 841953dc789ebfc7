SPECIFICATION SuiteSpec
CONSTANT Parts = {"executing"}
CONSTANTS
    Worker = TRUE
    Backup = FALSE
    Schedulers = 2
    Position = 0
    Shapes <- HeavyShapes
    OwnShape <- GoodBatch
    MaxBatchSize = 2
    MaxBatchSizeBytes = 2
    MaxPendingProposals = 2
    MaxRound = 1
    MaxFaults = 0
INVARIANTS
    HeavyBatchesRefused
\* The bounds of the instances end every behaviour.
CHECK_DEADLOCK FALSE
