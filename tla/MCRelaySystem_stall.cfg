\* A path that may lose one segment: the connection is eventually released.
CONSTANTS
    MSS = 1
    BufSize = 2
    DrainWnd = 1000
    IsnStep = 65536
    NoEvent = NoEvent
    Stale = Stale
    MaxConns = 1
    Reorder = FALSE
    ConnectResults = {"connected", "inprogress"}
    WriteResults = {"full", "error"}
    PISS = 300
    PeerBytes = 2
    ServerBytes = 2
    PeerWnd = 2
    Faults = {"loss"}
    MaxFaults = 1
    NetCap = 2
SPECIFICATION FairSpec
CONSTRAINT NetBound
CHECK_DEADLOCK FALSE
PROPERTY
    ConnectionReleased
