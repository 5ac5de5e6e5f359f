CONSTANTS
    Sockets = {s1, s2}
    Events = {e1}
    None = None
    MaxActions = 2
    MaxCalls = 2
    MaxFaults = 1
SPECIFICATION Spec
INVARIANT NeverStranded
INVARIANT ActionsRunOnce
INVARIANT SubscribedWhileListening
PROPERTY Reconnects
CHECK_DEADLOCK FALSE
