SPECIFICATION SuiteSpec
CONSTANT Parts = {"escrow", "fees", "slash", "fullCommission", "commission", "authority", "withdraw", "registering"}
CONSTANT None = None
CONSTANTS
    Providers = {"a", "b"}
    DelayReregistration = TRUE
    MaxEpoch = 4
    MaxChanges = 3
    MaxFaults = 1
    MaxCrashes = 1
INVARIANTS
    Typed
    TokensConserved
    FailuresExplained
    RegistrationRight
PROPERTIES
    DelegatorsTreatedFairly
    CommissionPromiseKept
    VaultGuarded
\* The bounds of the instances end every behaviour.
CHECK_DEADLOCK FALSE
