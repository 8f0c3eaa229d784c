SPECIFICATION FairSpec
CONSTANTS
    Clients = {c1, c2, c3}
    c1 = c1
    c2 = c2
    c3 = c3
    SOCKETS_NUMBER = 5
    OtherServer = FALSE
    Lines = {}
    StdinHangsUp = TRUE
INVARIANTS
    Compact
    EveryClientHasASlot
    EventsTravel
PROPERTIES
    OnlyDeadClosed
    IsServerLoop
    NoClientStarves
CHECK_DEADLOCK FALSE
