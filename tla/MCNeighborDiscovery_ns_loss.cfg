\* As MCNeighborDiscovery, checking that no packet stays queued
\* on a neighbour when the link loses one frame.
CONSTANTS
    Hosts = {Router, H2}
    Router = Router
    H2 = H2
    Remote = Remote
    Me = Me
    Mcast = Mcast
    NULL = NULL
    Garbage = Garbage
    HwLen = 6
    NaOpts = {TRUE}
    MaxPkts = 2
    MaxMsgs = 2
    MaxLoss = 1
SPECIFICATION FairSpec
CHECK_DEADLOCK FALSE
PROPERTY
    QueuesDrain
