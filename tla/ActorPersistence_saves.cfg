SPECIFICATION FairSpec
CONSTANTS
    Savers = {s1, s2, s3}
    Fifo = TRUE
    MaxChanges = 2
    MaxFailures = 1
CHECK_DEADLOCK FALSE
INVARIANT NoUntrackedChange
INVARIANT SaveIsComing
INVARIANT WaiterHasWaker
PROPERTY NeverOverwritten
PROPERTY ActionsAreSaved
PROPERTY ThrottledSavesSettle
INVARIANT HandoverIsComplete
