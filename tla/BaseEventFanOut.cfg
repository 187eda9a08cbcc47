SPECIFICATION TickingSpec
CONSTANTS
    c1 = c1
    c2 = c2
    k1 = k1
    k2 = k2
    Calls = {k1}
    Channels = {c1, c2}
    Closable = {}
    Lists <- FanLists
    MaxLen = 3
    QueueSize = 1
CHECK_DEADLOCK FALSE
INVARIANTS RetryOnlyWhenFirstIsGone AllFailedMeansAll OneOffer
PROPERTIES EveryCallReturns FanOutEnds
