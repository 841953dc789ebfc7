SPECIFICATION FairSpec
CONSTANT Parts = {"catchUp", "timekeeping", "progress", "answering", "leaving"}
CONSTANTS
    Nodes = {"n1", "n2"}
    VRFKeys = {"k1", "k2"}
    Interval = 3
    ProofSubmissionDelay = 1
    AlphaHighQualityThreshold = 1
    MaxEpoch = 3
    Genesis = {}
INVARIANTS
    BeaconUnbiased
PROPERTIES
    SyncsUp
    EpochsAdvance
    ReachesEnd
    ProposalsAnswered
    RegistrationFollows
\* The bounds of the instances end every behaviour.
CHECK_DEADLOCK FALSE
