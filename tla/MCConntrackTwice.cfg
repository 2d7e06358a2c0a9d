SPECIFICATION Spec
CONSTANTS
    a = a
    b = b
    c = c
    NoKey = NoKey
    Keys <- MCKeys
    Hash <- MCHash
    Size = 3
    Timeouts = {0, 1, 2}
    MaxTime = 3
    MaxUpdates = 5
INVARIANTS
    CountIsConnections
