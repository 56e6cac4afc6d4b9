\* A reliable, in-order IPv6 path; every write of the bridge completes
\* (or fails once the server has gone).
CONSTANTS
    MSS = 1
    BufSize = 2
    DrainWnd = 1000
    IsnStep = 65536
    NoEvent = NoEvent
    Stale = Stale
    MaxConns = 1
    Reorder = FALSE
    ConnectResults = {"connected", "inprogress", "fail"}
    WriteResults = {"full", "error"}
    PISS = 300
    PeerBytes = 2
    ServerBytes = 2
    PeerWnd = 2
    Faults = {}
    MaxFaults = 2
    NetCap = 2
SPECIFICATION Spec
CONSTRAINT NetBound
CHECK_DEADLOCK FALSE
INVARIANTS
    TypeOK
    SegmentsCarryServerBytes
    HandlesMatchEvents
    RecordAndMapLinked
    InbufTracksRcvNxt
PROPERTIES
    PeerStreamRefined
    ServerStreamRefined
