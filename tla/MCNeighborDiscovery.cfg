\* An ethernet driver (hwaddr_len = 6), the router and one other host,
\* neighbours that answer every solicitation, a link that may lose one frame.
CONSTANTS
    Hosts = {Router, H2}
    Router = Router
    H2 = H2
    Remote = Remote
    Me = Me
    Mcast = Mcast
    NULL = NULL
    Garbage = Garbage
    HwLen = 6
    NaOpts = {TRUE}
    MaxPkts = 2
    MaxMsgs = 2
    MaxLoss = 1
SPECIFICATION FairSpec
CHECK_DEADLOCK FALSE
INVARIANTS
    TypeOK
    DeliveredInOrder
