CONSTANTS
    N = 5
    PS = 2
    RetCap = 1
    PiecesCap = 1
    Batch = 1
    Local = {0, 1, 5}
    Faults <- MC_AllFaults
SPECIFICATION Spec
INVARIANTS
    TypeOK
    CommittedPrefix
CHECK_DEADLOCK FALSE
