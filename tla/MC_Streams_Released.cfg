CONSTANTS
    Reqs = {r1}
    Burst = 3
    Srv = Srv
SPECIFICATION Spec
PROPERTY
    StreamsReleased
CHECK_DEADLOCK FALSE
