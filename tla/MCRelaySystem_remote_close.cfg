\* A reliable path, complete writes: acknowledged bytes dropped when
\* the peer's FIN arrives before they were written.
CONSTANTS
    MSS = 1
    BufSize = 2
    DrainWnd = 1000
    IsnStep = 65536
    NoEvent = NoEvent
    Stale = Stale
    MaxConns = 1
    Reorder = FALSE
    ConnectResults = {"connected", "inprogress"}
    WriteResults = {"full", "error"}
    PISS = 300
    PeerBytes = 2
    ServerBytes = 2
    PeerWnd = 2
    Faults = {}
    MaxFaults = 2
    NetCap = 2
SPECIFICATION Spec
CONSTRAINT NetBound
CHECK_DEADLOCK FALSE
INVARIANT
    PeerDataWritten
