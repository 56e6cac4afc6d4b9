\* Two destinations, two remote sources, port 0 and 1.  The all-zero
\* source address is left out: with it (RAddrs = {0, 3}) a SYN from ::
\* port 0 to port 0 duplicates the listener's key, and deleting the
\* refused record empties tcblist, so LookupTerminates fails in 4 steps.
CONSTANTS
    LAddrs = {1, 2}
    RAddrs = {3, 4}
    Ports = {0, 1}
    Null = Null
    MaxRecords = 4
    Depth = 5
SPECIFICATION Spec
INVARIANTS
    TypeOK
    TcbcmpOrdersKeys
    
