CONSTANTS
    Nodes = {n1, n2}
    Conns = {c1, c2}
    MaxPeers = 1
SPECIFICATION Spec
PROPERTY
    PeersEventuallyBounded
