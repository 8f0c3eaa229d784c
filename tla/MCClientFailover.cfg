SPECIFICATION FairSpec
CONSTANTS
    Keys <- MCKeys
    Values <- MCValues
    MAX_TENTATIVA = 4
    MaxBinds = 2
    MaxCalls = 2
    MaxRestarts = 1
INVARIANTS TypeOK AnswersInStep PutOnce
PROPERTIES CallReturns
CHECK_DEADLOCK FALSE
