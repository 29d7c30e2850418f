\* Two nodes that link up, ask, lose their link or die at any time, one of which
\* writes and clears a topic meanwhile.
SPECIFICATION FairSpec
CONSTANTS
    n1 = n1
    n2 = n2
    t1 = t1
    t2 = t2
    Nodes <- TwoNodes
    Topics <- OneTopic
    Filters = {}
    Writers <- OneWriter
    Kinds = {"put", "delete"}
    Savers = {}
    DiskFails = FALSE
    MaxWrites = 2
    MaxFaults = 1
CONSTRAINT Staggered
PROPERTY StaysInSync
PROPERTY LateJoinerCatchesUp
CHECK_DEADLOCK FALSE
