SPECIFICATION MCSpec
CONSTANTS
    n1 = n1
    n2 = n2
    n3 = n3
    n4 = n4
    good = good
    bad = bad
    Nil = Nil
    Failure = Failure
    NoVote = NoVote
    Node <- MCNode
    Result <- MCAllResults
    MaxGroupSize = 2
    Root = {good, bad}
    Faulty = {n1, n4}
    Committees <- MCCommittees
    RoundTimeout = 2
    MaxInMessages = 2
    Version261 = TRUE
    MaxCommits = 2
    MaxHeight = 10
    MaxRound = 3
    MaxMessages = 2
    ValidRoot = {good}
    GenesisRoot = good
INVARIANTS
    TypeOK
    SchedulerCommitmentBacked
    DecidedInTime
    MessagesInOrder
    StatsBalanced
PROPERTIES
    RootValid
    SafeFinalization
\* The bounds on heights and rounds end every behaviour.
CHECK_DEADLOCK FALSE
