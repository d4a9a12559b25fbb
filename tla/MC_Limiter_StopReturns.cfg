CONSTANTS
    Burst = 3
    Sessions = {s1}
SPECIFICATION Spec
PROPERTY
    StopReturns
CHECK_DEADLOCK FALSE
