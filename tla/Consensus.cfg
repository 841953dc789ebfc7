SPECIFICATION SuiteSpec
CONSTANT Parts = {"stake", "expiration", "keys", "movedKeys", "limits", "elections", "tally", "proposing", "faults", "wrapping", "mux", "pruning", "crashes", "progress"}
CONSTANTS
    Own = {"a", "p"}
    Others = {"b", "p"}
    Bad = {"p"}
    NumTxs <- NumTxsValue
    KeepN = 1
    MaxHeight = 5
    MaxFaults = 1
INVARIANTS
    Typed
    RegistryExact
    ElectionsRight
    GovernanceRight
    ExecutionRight
PROPERTIES
    AccountabilityKept
    ImplementsLedger
    UpgradesRight
\* The bounds of the instances end every behaviour.
CHECK_DEADLOCK FALSE
