SPECIFICATION Spec
CONSTANTS
    Keys = {k1}
    Values = {v1, v2}
    NoKey = NoKey
    NoValue = NoValue
    NoTables = NoTables
    Capacity = 1
    Clients = {c1, c2}
    None = None
    MaxServed = 1
    MaxCrashes = 1
    SplitBrain = TRUE
INVARIANT StateMeansUp
CHECK_DEADLOCK FALSE
