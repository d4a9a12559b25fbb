CONSTANTS
    N = 5
    PS = 2
    RetCap = 1
    PiecesCap = 1
    Batch = 1
    Local = {0}
    Faults = {"exec"}
SPECIFICATION Spec
INVARIANT
    NoSendOnClosedPieces
CHECK_DEADLOCK FALSE
