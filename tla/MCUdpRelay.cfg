CONSTANTS
    ClientAddrs = {a1, a2}
    ClientPorts = {p1}
    Servers = {s1, s2}
    Prefix = Prefix
    Garbage = Garbage
    MaxSends = 4
    MaxReplies = 2
    Sizes = {1232, 1233}
SPECIFICATION FairSpec
INVARIANTS
    TypeOK
    MapsMatchEvents
    ReplyReachesItsClient
PROPERTIES
    IdleMapsRemoved
CHECK_DEADLOCK FALSE
