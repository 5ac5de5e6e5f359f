SPECIFICATION FairSpec
CONSTANTS
    MaxEvents = 1
    MaxTime = 2
    MaxDelay = 1
    EarlyBy = 0
    MaxCrashes = 0
    MaxRefusals = 0
CHECK_DEADLOCK FALSE
PROPERTY ScheduledEventsRun
