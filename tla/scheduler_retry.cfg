CONSTANTS
    d = d
    p = p
    Tasks <- DP
    Initial <- P
    Durable <- D
    OneShot <- P
    MaxQueue = 1
    MaxFailures = 1
    MaxTasks = 2
    MaxRevision = 2
    MaxGeneration = 2
SPECIFICATION FairSpec
PROPERTY NotWedged
CHECK_DEADLOCK FALSE
