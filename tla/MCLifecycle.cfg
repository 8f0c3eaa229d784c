SPECIFICATION FairSpec
CONSTANTS
    SOCKETS_NUMBER = 5
    MaxRestarts = 6
INVARIANT RunningHasFile
PROPERTIES WritesKept WaitEnds
CHECK_DEADLOCK FALSE
