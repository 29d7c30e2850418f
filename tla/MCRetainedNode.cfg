\* One node that stores, clears, looks up and saves, may fail to save, and dies once:
\* the live subscriber, its own catch-up and the saver overlap.
SPECIFICATION FairSpec
CONSTANTS
    n1 = n1
    n2 = n2
    t1 = t1
    t2 = t2
    Nodes <- OneNode
    Topics <- OneTopic
    Filters <- AllTopics
    Writers <- OneWriter
    Kinds = {"put", "delete"}
    Savers <- AllNodes
    DiskFails = TRUE
    MaxWrites = 3
    MaxFaults = 1
INVARIANT SnapshotCurrent
PROPERTY SnapshotCatchesUp
CHECK_DEADLOCK FALSE
