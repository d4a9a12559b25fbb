CONSTANTS
    Reqs = {r1, r2, r3}
    Burst = 3
    Srv = Srv
SPECIFICATION Spec
INVARIANT
    TypeOK
PROPERTIES
    RequestEnds
    WaitEventuallyReturns
CHECK_DEADLOCK FALSE
