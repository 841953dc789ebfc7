SPECIFICATION MCSpec
CONSTANTS
    Parts = {"evidence"}
    Node = {n1}
    EmptyRoot = empty
    Root = {empty, rootA}
    GenesisRound = 1
    Ages = {0, 1, 5}
    Limits = {0, 1, 2, 3}
    Modulus = 8
    MaxRound = 4
\* The bound on rounds ends every behaviour.
CHECK_DEADLOCK FALSE
INVARIANT
    StoredEvidencePunished
