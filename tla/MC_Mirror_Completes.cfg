CONSTANTS
    N = 6
    PS = 2
    RetCap = 2
    PiecesCap = 2
    Batch = 1
    Local = {0, 1, 2}
    Faults = {}
SPECIFICATION Spec
PROPERTY
    MirrorCompletes
CHECK_DEADLOCK FALSE
