SPECIFICATION Spec
CONSTANTS
    Keys <- MCKeys
    Values <- MCValues
    MAX_TENTATIVA = 4
    MaxBinds = 2
    MaxCalls = 1
    MaxRestarts = 0
INVARIANTS BoundKnowsTables
CHECK_DEADLOCK FALSE
