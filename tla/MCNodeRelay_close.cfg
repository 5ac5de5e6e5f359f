CONSTANTS
    Front = n1
    Nodes = {n1, n2}
    Busy = {n1, n2}
    Conns = {c1}
    Home <- MCHome
    None = None
    Retries = 1
    MaxFaults = 1
SPECIFICATION Spec
INVARIANT AckedWasReceived
INVARIANT GhostsHaveACause
PROPERTY NotStoppedBeforeClose
PROPERTY DisconnectEnds
CHECK_DEADLOCK FALSE
