CONSTANTS
    d = d
    p = p
    Tasks <- DP
    Initial <- P
    Durable <- D
    OneShot = {}
    MaxQueue = 2
    MaxFailures = 2
    MaxTasks = 2
    MaxRevision = 2
    MaxGeneration = 3
SPECIFICATION Spec
INVARIANTS TypeOK NoResurrection ReservationFresh
PROPERTY UniqueVersions
CHECK_DEADLOCK FALSE
