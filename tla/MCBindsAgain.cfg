SPECIFICATION Spec
CONSTANTS
    Keys <- MCKeys
    Values <- MCValues
    MAX_TENTATIVA = 4
    MaxBinds = 2
    MaxCalls = 2
    MaxRestarts = 0
INVARIANTS BindsAgain
CHECK_DEADLOCK FALSE
