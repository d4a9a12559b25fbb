CONSTANTS
    Nodes = {n1, n2, n3}
    Conns = {c1, c2, c3}
    MaxPeers = 1
SPECIFICATION Spec
INVARIANT
    LivePeersTracked
