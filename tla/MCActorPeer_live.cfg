SPECIFICATION FairSpec
CONSTANTS
    Nodes = {n1, n2}
    Busy = {}
    Peers <- MCPeers
    Conns <- MCConns
    NodeOf <- MCNodeOf
    ConnNode <- MCConnNode
    None = None
    MaxLost = 1
    MaxCrashes = 1
CHECK_DEADLOCK FALSE
PROPERTY DeposedLeaderStops
PROPERTY FollowerLeavesCrashedLeader
