CONSTANTS
    Faults = {"drop", "slow"}
SPECIFICATION Spec
INVARIANTS
    TypeOK
PROPERTIES
    SetupEnds
    ClosedConnectionForgotten
CHECK_DEADLOCK FALSE
