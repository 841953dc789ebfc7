SPECIFICATION MCSpec
CONSTANTS
    Parts = {"roots", "evidence"}
    Node = {n1}
    EmptyRoot = empty
    Root = {empty, rootA}
    GenesisRound = 1
    Ages = {0, 1, 5}
    Limits = {0, 1, 2, 3}
    Modulus = 8
    MaxRound = 4
INVARIANTS
    TypeOK
    PastRootsWindow
    PunishedOnce
PROPERTIES
    RootsKept
\* The bound on rounds ends every behaviour.
CHECK_DEADLOCK FALSE
