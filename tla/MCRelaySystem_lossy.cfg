\* A path that loses or duplicates up to MaxFaults segments, in order.
CONSTANTS
    MSS = 1
    BufSize = 2
    DrainWnd = 1000
    IsnStep = 65536
    NoEvent = NoEvent
    Stale = Stale
    MaxConns = 1
    Reorder = FALSE
    ConnectResults = {"connected", "inprogress", "fail"}
    WriteResults = {"full", "error"}
    PISS = 300
    PeerBytes = 1
    ServerBytes = 2
    PeerWnd = 2
    Faults = {"loss", "dup"}
    MaxFaults = 1
    NetCap = 2
SPECIFICATION Spec
CONSTRAINT NetBound
CHECK_DEADLOCK FALSE
INVARIANTS
    TypeOK
    SegmentsCarryServerBytes
    HandlesMatchEvents
    RecordAndMapLinked
    InbufTracksRcvNxt
PROPERTY
    ServerStreamRefined
