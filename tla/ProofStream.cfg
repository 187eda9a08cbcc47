SPECIFICATION FairSpec
CONSTANTS
    x1 = x1
    x2 = x2
    m1 = m1
    m2 = m2
    q1 = q1
    Conns = {x1, x2}
    Miners = {m1, m2}
    Requests = {q1}
    QueueSize = 1
    None = None
CHECK_DEADLOCK FALSE
INVARIANTS OnlyOwnAndLive NoEmptyMiner InOrder
PROPERTIES EndIsNoticed ConnectIsAnnounced KeepsRegistry
