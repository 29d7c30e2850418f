\* The socket fails before Client::run is entered.
SPECIFICATION Spec
CONSTANTS
    f1 = f1
    f2 = f2
    Filters <- OneFilter
    TopicClasses <- Overlapping
    MaxQueue = 1
    DataDir = TRUE
    MaxSessions = 1
    MaxConns = 2
    MaxTasks = 1
    MaxMsgs = 1
    ReqQoS = {1}
    CleanFlags = {FALSE}
    Requests = {"subscribe"}
    OutCap = 1
    SlowGrace = TRUE
    Expiry = FALSE
    ZenohFails = FALSE
    MaxReplies = 1
    MaxCrashes = 0
INVARIANT WillIsSettled
CHECK_DEADLOCK FALSE
