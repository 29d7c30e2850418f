\* Two filters, subscribed at two QoS levels and unsubscribed, with one crash
\* anywhere and any ACL after it.
SPECIFICATION FairSpec
CONSTANTS
    f1 = f1
    f2 = f2
    Filters <- TwoFilters
    TopicClasses <- Overlapping
    MaxQueue = 1
    DataDir = TRUE
    MaxSessions = 2
    MaxConns = 1
    MaxTasks = 3
    MaxMsgs = 0
    ReqQoS = {0, 2}
    CleanFlags = {FALSE}
    Requests = {"subscribe", "unsubscribe"}
    OutCap = 3
    SlowGrace = TRUE
    Expiry = FALSE
    ZenohFails = FALSE
    MaxReplies = 2
    MaxCrashes = 1
INVARIANT TypeOK
INVARIANT SubsFileMirrors
PROPERTY RestartResumes
CHECK_DEADLOCK FALSE
