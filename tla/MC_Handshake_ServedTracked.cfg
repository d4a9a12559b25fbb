CONSTANTS
    Faults = {"slow"}
SPECIFICATION Spec
INVARIANT
    ServedPeersTracked
CHECK_DEADLOCK FALSE
