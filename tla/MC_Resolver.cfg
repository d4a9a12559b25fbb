CONSTANTS
    Local = "L"
    Target = "T"
    Remotes <- WideRemotes
    Knows <- WideKnows
    Up <- WideRemotes
    Depth = 6
    K = 20
SPECIFICATION Spec
INVARIANTS
    TypeOK
    ResolvesWithinDepth
CHECK_DEADLOCK FALSE
