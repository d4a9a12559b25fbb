CONSTANTS
    N = 5
    PS = 2
    RetCap = 1
    PiecesCap = 1
    Batch = 1
    Local = {5}
    Faults = {}
SPECIFICATION Spec
PROPERTY
    InsertPiecesReturns
CHECK_DEADLOCK FALSE
