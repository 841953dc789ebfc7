SPECIFICATION SuiteSpec
CONSTANT Parts = {"storage", "oldNetwork", "fillIn", "checkpoints", "restore", "candidates", "pruned", "ioRoots", "multipart", "dealing", "retrying", "changing", "degree", "updating", "rotating", "rarer", "stopped", "joining", "replicating", "majority", "ephemeral", "policy", "executing", "resolving", "bothRoles"}
CONSTANTS
    Worker = TRUE
    Backup = FALSE
    Schedulers = 2
    Position = 0
    Shapes <- ExecutingShapes
    OwnShape <- GoodBatch
    MaxBatchSize = 2
    MaxBatchSizeBytes = 2
    MaxPendingProposals = 2
    MaxRound = 2
    MaxFaults = 1
INVARIANTS
    Typed
    SyncRight
    DatabaseComplete
    MasterSecretsKept
    CommitmentsRight
    RolesRight
PROPERTIES
    HandoffsRight
    RotationsRight
\* The bounds of the instances end every behaviour.
CHECK_DEADLOCK FALSE
