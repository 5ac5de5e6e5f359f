SPECIFICATION Spec
CONSTANTS
    Nodes = {n1, n2}
    Busy = {n1}
    Peers <- MCPeers
    Conns <- MCConns
    NodeOf <- MCNodeOf
    ConnNode <- MCConnNode
    None = None
    MaxLost = 0
    MaxCrashes = 0
SYMMETRY NodeSymmetry
CHECK_DEADLOCK FALSE
INVARIANT ElectedLeaderIsUnique
