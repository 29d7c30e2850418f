\* One persistent session, two connections that race for it and one QoS 1
\* subscription.  Two messages against a queue and a channel of one: sends block,
\* time out and are retried, the queue drops its oldest.
SPECIFICATION Spec
CONSTANTS
    f1 = f1
    f2 = f2
    Filters <- OneFilter
    TopicClasses <- Overlapping
    MaxQueue = 1
    DataDir = TRUE
    MaxSessions = 1
    MaxConns = 2
    MaxTasks = 1
    MaxMsgs = 2
    ReqQoS = {1}
    CleanFlags = {FALSE}
    Requests = {"subscribe"}
    OutCap = 1
    SlowGrace = TRUE
    Expiry = FALSE
    ZenohFails = FALSE
    MaxReplies = 1
    MaxCrashes = 0
INVARIANT SinkIsCurrent
INVARIANT QueueOnlyOffline
INVARIANT QueueBounded
INVARIANT EveryMessageAccountedFor
INVARIANT NoReplayOfDrained
PROPERTY SinkLostForCause
PROPERTY ImplementsMailbox
CHECK_DEADLOCK FALSE
