SPECIFICATION Spec
CONSTANTS
    a = a
    b = b
    c = c
    NoKey = NoKey
    Keys <- MCKeys
    Parts = {"mac", "flow", "session", "dns", "ttl", "port", "alarm"}
    MaxTime = 3
    MaxPkts = 2
    Size = 2
    Ages = {0, 1}
    Timeouts = {1, 2}
    Swapped <- MCSwapped
    Hash <- MCHash
    Buckets = 2
    SessionTimeouts = {0, 1}
    LogMax = 3
    Txids <- MCTxids
    DnsMax = 3
    DnsTtl = 1
    MaxQueries = 4
    Ttls = {53, 54, 65, 128}
    TtlMax = 2
    Threshold = 10
    MaxSeen = 3
    Ports <- MCPorts
    Names = {1, 2}
    PortMax = 3
    Defaults <- MCDefaults
    Thresholds = {1, 2}
    Rates <- MCRates
    Capacity = 2
    MaxEvals = 3
INVARIANTS
    TypeOK
    SessionsAccounted
    QueriesAccounted
    EdgesCounted
PROPERTY TablesAreMaps
