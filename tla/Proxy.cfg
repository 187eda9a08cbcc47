SPECIFICATION FairSpec
CONSTANTS
    MaxMsgs = 2
CHECK_DEADLOCK FALSE
INVARIANTS InOrder StuckIsLast
PROPERTIES MessagesArrive SessionEnds
