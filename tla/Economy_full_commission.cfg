SPECIFICATION SuiteSpec
CONSTANT Parts = {"fullCommission"}
CONSTANT None = None
CONSTANTS
    Providers = {"a", "b"}
    DelayReregistration = TRUE
    MaxEpoch = 4
    MaxChanges = 3
    MaxFaults = 1
    MaxCrashes = 1
INVARIANTS
    BlocksNeverFail
\* The bounds of the instances end every behaviour.
CHECK_DEADLOCK FALSE
