SPECIFICATION FairSpec
CONSTANTS
    MaxEvents = 3
    MaxTime = 2
    MaxDelay = 2
    EarlyBy = 0
    MaxCrashes = 2
    MaxRefusals = 1
CHECK_DEADLOCK FALSE
INVARIANT HeadIsArmed
INVARIANT RunsOncePerLife
PROPERTY ScheduledEventsRun
PROPERTY StoredEventsRun
