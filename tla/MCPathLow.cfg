SPECIFICATION FairSpec
CONSTANTS
    p = p
    q = q
    Parts = {"throttle"}
    Fds = {0, 1}
    CapLens = {1, 2}
    MaxQueue = 2
    MaxArrivals = 2
    Ctxs = {p, q}
    SecondMs = 10
    Ms = 1
    WindowMs = 1
    Tock = 1
    Limits <- MCLow
    ThrLens = {40, 64}
    MaxPerStep = 3
    PcapLens = {1, 2, 3}
    Snaplen = 2
    MaxRecords = 3
    Counts <- MCCounts
    Snaplens = {63, 64, 65535, 65536}
    MaxPackets = 3
    Ihls = {4, 5, 15}
    Doffs = {0, 5, 15}
    FrameLens = {13, 14, 33, 34, 42, 54, 74, 94, 134}
    SizeSpace = 65536
    Tokens <- MCTokens
    Atoi <- MCAtoi
    InetAddr <- MCInetAddr
    Packets <- MCPackets
    MaxPrims = 2
    Paths = {"f", "g"}
    MaxOpens = 3
    MaxWrites = 3
    Threads = {p, q}
    Blocks = {1, 2}
    Ifaces = {"e", "f"}
    Wrap = 2
    MaxCount = 3
    MaxLife = 2
    DumpLens = {0, 1, 2, 3, 4}
    Sizes <- MCSizes
    MeterLens = {64, 200}
    Caps = {0, 14, 100, 65536}
    MaxCalls = 2
PROPERTY KeepsAdmitting
