SPECIFICATION Spec
CONSTANTS
    p1 = p1
    p2 = p2
    NoPacket = NoPacket
    Packets <- MCPackets
    Requests <- MCRequests
    DefaultCapacity = 3
    MaxPush = 6
INVARIANTS
    TypeOK
    IndicesAgree
    Conservation
    PeekStable
PROPERTY IsFifo
