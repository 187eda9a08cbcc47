SPECIFICATION Spec
CONSTANTS
    c1 = c1
    c2 = c2
    k1 = k1
    k2 = k2
    Calls = {k1}
    Channels = {c1, c2}
    Closable = {c1}
    Lists <- PairLists
    MaxLen = 2
    QueueSize = 1
CHECK_DEADLOCK FALSE
INVARIANT PanicTriesOthers
