\* Two connections of a client that resends, a rate of two a second and one fault:
\* a lost connection or a failed write.
CONSTANTS
    Messages <- MCMessages
    Window = 2
    Rate = 2
    Ticks = 3
    Slots = {c1, c2}
    None = None
    Watched = c1
    MaxFaults = 1
SPECIFICATION FairSpec
INVARIANT AckedIsRelayed
INVARIANT RefusesAsWindows
INVARIANT NoIdLeft
PROPERTY EveryPublishIsSettled
PROPERTY ImplementsBucket
