SPECIFICATION Spec
CONSTANTS
    Sizes <- MCSizes
    IntSize = 4
    Room = 6
INVARIANTS AllBytesReceived
CHECK_DEADLOCK FALSE
