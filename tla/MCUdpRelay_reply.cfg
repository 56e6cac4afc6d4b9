\* One client, one server, one reply of each length around udp_send's cut.
CONSTANTS
    ClientAddrs = {a1}
    ClientPorts = {p1}
    Servers = {s1}
    Prefix = Prefix
    Garbage = Garbage
    MaxSends = 1
    MaxReplies = 1
    Sizes = {1232, 1233}
SPECIFICATION Spec
CHECK_DEADLOCK FALSE
INVARIANT
    ReplyIsServersDatagram
