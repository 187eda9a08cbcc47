SPECIFICATION Spec
CONSTANTS
    c1 = c1
    c2 = c2
    k1 = k1
    k2 = k2
    Calls = {k1, k2}
    Channels = {c1}
    Closable = {c1}
    Lists <- SharedLists
    MaxLen = 2
    QueueSize = 1
SYMMETRY Symmetry
CHECK_DEADLOCK FALSE
INVARIANTS NoReplyDropped ReplyIsOwn
PROPERTY KeepsPromise
