SPECIFICATION FairSpec
CONSTANTS
    r1 = r1
    w1 = w1
    MaxConns = 2
    Requests = {r1}
    Waiters = {w1}
CHECK_DEADLOCK FALSE
INVARIANTS ReadyIsFresh UpdateReaches
PROPERTIES LoopGoesOn RequestsAreServed
