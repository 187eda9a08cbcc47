SPECIFICATION FairSpec
CONSTANTS
    x1 = x1
    x2 = x2
    n1 = n1
    q1 = q1
    w1 = w1
    w2 = w2
    d1 = d1
    d2 = d2
    Conns = {x1, x2}
    Jammable = {x1}
    Calls = {}
    Signs = {}
    Wallets = {w1, w2}
    Accounts = {w1, w2}
    Addrs = {d1}
    None = None
CHECK_DEADLOCK FALSE
INVARIANTS EntriesAreLive
PROPERTY EndIsNoticed
