\* A second connection attaches while the first is busy with a packet.
SPECIFICATION FairSpec
CONSTANTS
    f1 = f1
    f2 = f2
    Filters <- OneFilter
    TopicClasses <- Overlapping
    MaxQueue = 1
    DataDir = TRUE
    MaxSessions = 1
    MaxConns = 2
    MaxTasks = 0
    MaxMsgs = 0
    ReqQoS = {1}
    CleanFlags = {FALSE}
    Requests = {"reply"}
    OutCap = 1
    SlowGrace = TRUE
    Expiry = FALSE
    ZenohFails = FALSE
    MaxReplies = 1
    MaxCrashes = 0
PROPERTY TakeoverKicks
CHECK_DEADLOCK FALSE
