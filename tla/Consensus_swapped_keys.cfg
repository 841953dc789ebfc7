SPECIFICATION SuiteSpec
CONSTANT Parts = {"swappedKeys"}
CONSTANTS
    Own = {"a", "p"}
    Others = {"b", "p"}
    Bad = {"p"}
    NumTxs <- NumTxsValue
    KeepN = 1
    MaxHeight = 5
    MaxFaults = 1
INVARIANTS
    SubKeysUnique
\* The bounds of the instances end every behaviour.
CHECK_DEADLOCK FALSE
