SPECIFICATION FairSpec
CONSTANTS
    Sizes <- MCSizes
    IntSize = 4
    Room = 6
INVARIANTS TypeOK
PROPERTIES
    IsMessageChannel
    Delivered
    EndNoticed
CHECK_DEADLOCK FALSE
