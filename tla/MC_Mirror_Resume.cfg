CONSTANTS
    N = 5
    PS = 2
    RetCap = 1
    PiecesCap = 1
    Batch = 1
    Local = {3}
    Faults = {}
SPECIFICATION Spec
PROPERTY
    MirrorCompletes
CHECK_DEADLOCK FALSE
