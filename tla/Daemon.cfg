SPECIFICATION FairSpec
CONSTANTS
    r1 = r1
    r2 = r2
    auth = auth
    node = node
    a1 = a1
    Requests = {r1, r2}
    Order <- AuthAndNode
    Gateway = Gateway
    Addresses = {a1}
    NoHeader = NoHeader
    Unknown = Unknown
    Main = Main
    None = None
CHECK_DEADLOCK FALSE
INVARIANTS NoEarlyRefusal RaceNeedsRegister
PROPERTIES SignalEndsIt RequestsEnd
