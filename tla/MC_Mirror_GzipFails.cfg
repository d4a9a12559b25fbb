CONSTANTS
    N = 5
    PS = 2
    RetCap = 1
    PiecesCap = 1
    Batch = 1
    Local = {0}
    Faults = {"gzip"}
SPECIFICATION Spec
INVARIANT
    MirrorOkMeansStored
CHECK_DEADLOCK FALSE
