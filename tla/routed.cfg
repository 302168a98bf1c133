SPECIFICATION FairSpec
CONSTANTS
    AddressBits = 5
    LastByteBits = 2
    Loopback = 24
    LoopbackMask = 3
    Computers <- MCComputers
    Routers <- MCRouters
    InterfacesOf <- MCInterfacesOf
    Peer <- MCPeer
    Gateway <- MCGateway
    SmallMTU = {5}
    Pings <- MCPings
    TimeToLive = 4
    MaxTimeToLive = 5
    ResendCount = 1
    HurriedPings = {1}
    MaxFaults = 1
    Loose = {5}
INVARIANTS
    RepliesAreReal
    PingsSucceed
PROPERTIES
    PingsEnd
    NothingCircles
CHECK_DEADLOCK FALSE
