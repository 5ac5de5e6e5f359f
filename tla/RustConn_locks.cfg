SPECIFICATION Spec
CONSTANTS
    Actions = {a1, a2}
    Listeners = {l1}
    Events = {e1}
    Capacity = 1
    MaxFaults = 1
    MaxEmits = 1
INVARIANT DeadlockNeedsADeadDriver
INVARIANT PendingIsNotDropped
INVARIANT SubscribedOnEverySocket
PROPERTY DisconnectEnds
CHECK_DEADLOCK FALSE
