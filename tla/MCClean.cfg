\* Two cleanSession=1 connections: the second replaces the session of the first
\* while the first subscribes, receives or detaches.
SPECIFICATION Spec
CONSTANTS
    f1 = f1
    f2 = f2
    Filters <- OneFilter
    TopicClasses <- Overlapping
    MaxQueue = 0
    DataDir = FALSE
    MaxSessions = 2
    MaxConns = 2
    MaxTasks = 2
    MaxMsgs = 1
    ReqQoS = {0}
    CleanFlags = {TRUE}
    Requests = {"subscribe"}
    OutCap = 1
    SlowGrace = FALSE
    Expiry = FALSE
    ZenohFails = FALSE
    MaxReplies = 1
    MaxCrashes = 0
INVARIANT NewestIsRegistered
INVARIANT NoOrphanTask
CHECK_DEADLOCK FALSE
