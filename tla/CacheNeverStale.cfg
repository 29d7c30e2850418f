\* A lookup that scans while a retained message is stored.
SPECIFICATION Spec
CONSTANTS
    n1 = n1
    n2 = n2
    t1 = t1
    t2 = t2
    Nodes <- OneNode
    Topics <- OneTopic
    Filters <- AllTopics
    Writers <- OneWriter
    Kinds = {"put", "delete"}
    Savers = {}
    DiskFails = FALSE
    MaxWrites = 2
    MaxFaults = 0
INVARIANT CacheNeverStale
CHECK_DEADLOCK FALSE
