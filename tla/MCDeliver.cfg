\* A client that may stop reading, end, lose its writer or be evicted, and that comes
\* back once to a backlog, or is lost again; three messages for a queue of two, and
\* the sweeper.
SPECIFICATION FairSpec
CONSTANTS
    f1 = f1
    f2 = f2
    Filters <- OneFilter
    TopicClasses <- Overlapping
    MaxQueue = 2
    DataDir = TRUE
    MaxSessions = 1
    MaxConns = 2
    MaxTasks = 1
    MaxMsgs = 3
    ReqQoS = {1}
    CleanFlags = {FALSE}
    Requests = {"subscribe"}
    OutCap = 1
    SlowGrace = TRUE
    Expiry = TRUE
    ZenohFails = FALSE
    MaxReplies = 1
    MaxCrashes = 0
CONSTRAINT ComesBack
INVARIANT QueueInOrder
PROPERTY DeliverReturns
PROPERTY OfflineExpires
CHECK_DEADLOCK FALSE
