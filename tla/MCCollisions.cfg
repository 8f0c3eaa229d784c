SPECIFICATION Spec
CONSTANTS
    k1 = k1
    k2 = k2
    k3 = k3
    k4 = k4
    k5 = k5
    Keys <- MCKeys
    Hash <- MCHash
    Values = {v1}
    Empty = Empty
    NoKey = NoKey
    NoValue = NoValue
    DataSize = 4
    MaxCollisions = 3
INVARIANT CollisionsAreExisting
