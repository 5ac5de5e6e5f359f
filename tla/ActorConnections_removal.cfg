SPECIFICATION FairSpec
CONSTANTS
    Conns = {k1, k2}
    Events = {e1}
    MaxParsing = 2
    MaxCrashes = 1
    MaxFaults = 1
CHECK_DEADLOCK FALSE
 
INVARIANT BroadcastReachesSubscribers
PROPERTY RemovedForGood
 
PROPERTY RemovalsAreSaved
