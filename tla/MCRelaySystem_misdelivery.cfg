\* One lost peer segment on an in-order path: the next one is taken as
\* if it were the missing bytes.
CONSTANTS
    MSS = 1
    BufSize = 2
    DrainWnd = 1000
    IsnStep = 65536
    NoEvent = NoEvent
    Stale = Stale
    MaxConns = 1
    Reorder = FALSE
    ConnectResults = {"connected", "inprogress"}
    WriteResults = {"full", "error"}
    PISS = 300
    PeerBytes = 2
    ServerBytes = 0
    PeerWnd = 2
    Faults = {"loss"}
    MaxFaults = 1
    NetCap = 2
SPECIFICATION Spec
CONSTRAINT NetBound
CHECK_DEADLOCK FALSE
INVARIANT
    RelayedInOrder
