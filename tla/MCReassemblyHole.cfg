SPECIFICATION Spec
CONSTANTS
    x = x
    y = y
    z = z
    NoKey = NoKey
    Keys <- MCKeys
    Parts = {"fragtrack"}
    Tracked <- MCTracked
    TrackedMax = 2
    MaxFrags = 3
    TrackedTimeout = 1
    MaxTracked = 5
    Carried <- MCCarried
    CarriedMax = 2
    MaxCarried = 6
    Offsets = {0, 10}
    First <- MCFirst
    SeqSpace = 2048
    MaxStreams = 2
    MaxSegs = 2
    StreamTimeout = 2
    MaxCalls = 6
    MaxTime = 3
INVARIANT NoHole
