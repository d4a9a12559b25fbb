CONSTANTS
    Local = "L"
    Target = "T"
    Remotes <- ChainRemotes
    Knows <- ChainKnows
    Up <- ChainRemotes
    Depth = 6
    K = 20
SPECIFICATION Spec
INVARIANT
    ResolvesReachable
CHECK_DEADLOCK FALSE
