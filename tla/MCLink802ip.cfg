\* The relay and tap802ipd on one 802.IP LAN: one relay address, one host
\* address, two ports, two host segments, two datagrams per socket queue; another process holds the second
\* of three 802.IP ports.
CONSTANTS
    LAddrs = {1}
    RAddrs = {3}
    Ports = {1, 2}
    Null = Null
    MaxRecords = 3
    Depth = 5
    BindPorts = {25600, 25601, 25602}
    InUse = {25601}
    HostFlags = {{"SYN"}, {"ACK"}, {"RST"}}
    MaxSends = 2
    QueueCap = 2
SPECIFICATION Spec
CHECK_DEADLOCK FALSE
INVARIANTS
    TypeOK
    MacFilterSeparatesMembers
