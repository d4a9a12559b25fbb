CONSTANTS
    Burst = 3
    Sessions = {s1, s2}
SPECIFICATION Spec
INVARIANT
    TypeOK
PROPERTY
    WaitEventuallyReturns
CHECK_DEADLOCK FALSE
