------------------------------ MODULE Link802ip ------------------------------
(***************************************************************************)
(* The 802.IP virtual Ethernet (if_802ip.c) joining the relay to a host:   *)
(* the relay runs with the "802ip" driver, and tap802ipd bridges the       *)
(* host's kernel tap device onto the same virtual LAN.  Every frame a      *)
(* member sends goes to the multicast group 239.192.168.1:1102 (the test   *)
(* "1 || p->d[0] & 1" makes every frame a multicast), with                 *)
(* IP_MULTICAST_LOOP set, so every member of the group, the sender         *)
(* included, reads a copy on its group socket.  tap802ipd drops the copies *)
(* of its own frames (handle_802ip_frame compares the source MAC); the     *)
(* relay hands every IPv6 frame to handle_packet (ether_pkt_in).           *)
(*                                                                         *)
(* The relay's side is the connection table of ConnectionTable with the    *)
(* intake of handle_tcp, composed with the segments the relay sends on its *)
(* own: the RST tcp_fabricate_rst answers a segment nobody owns with, and  *)
(* the SYN-ACK do_tcb_write sends for a new record.  A frame is its source *)
(* MAC and its TCP segment (addresses, ports, flags), tagged with the      *)
(* member that sent it; every frame here is IPv6 and TCP, and the router   *)
(* neighbour that send_pkt resolves is taken as reachable                  *)
(* (NeighborDiscovery models the resolution).  A group socket's receive    *)
(* queue holds QueueCap datagrams; the kernel drops a datagram that finds  *)
(* it full.  A member's MAC is 02:p:aa:aa:aa:aa for the port p its source  *)
(* socket is bound to; both members run on one host (multicast TTL 0).     *)
(***************************************************************************)
EXTENDS Integers, Sequences, FiniteSets

CONSTANTS
    LAddrs, RAddrs, Ports, Null, MaxRecords, Depth,  \* as in ConnectionTable
    BindPorts,  \* the ports _802ip_new_if tries for its source socket
    InUse,      \* those held by other processes of the host
    HostFlags,  \* flag sets of the segments the host's stack sends
    MaxSends,   \* bound: segments the host sends
    QueueCap    \* datagrams a group socket's receive queue holds

VARIABLES
    hw,         \* per member: hwaddr[1] of its interface (02:hw:aa:aa:aa:aa)
    tree, orphans, nid, last,  \* the connection table (ConnectionTable)
    grp,        \* per member: datagrams queued on its group socket
    tap,        \* frames tap802ipd has written to the host's tap device
    synacked,   \* records whose SYN-ACK do_tcb_write has sent
    sent,       \* segments the host has sent
    hsent,      \* how many
    resets      \* RST segments that made handle_tcp delete a record

vars == <<hw, tree, orphans, nid, last, grp, tap, synacked, sent, hsent, resets>>

CT == INSTANCE ConnectionTable

Members == {"relay", "bridge"}

Seg(src, sport, dst, dport, flags) ==
    [src |-> src, sport |-> sport, dst |-> dst, dport |-> dport, flags |-> flags]

-----------------------------------------------------------------------------
(* The link (if_802ip.c, ether.c)                                         *)

\* Seeded fault: a bind loop that stops at the first port whatever bind
\* returns.
bind_port_first(used) == CHOOSE p \in BindPorts : \A q \in BindPorts : p <= q

\* _802ip_new_if's loop over 0x6400..0x64ff: bind the source socket to
\* each port in turn, go on while bind fails with EADDRINUSE, stop at the
\* first that succeeds; hwaddr[1] is that port & 0xff.
bind_port(used) ==
    CHOOSE p \in BindPorts \ used : \A q \in BindPorts \ used : p <= q

ASSUME Cardinality(BindPorts \ InUse) >= Cardinality(Members)

\* Seeded fault: a send that never finds a receive queue full.
Multicast_nocap(g, f) == [m \in Members |-> Append(g[m], f)]

\* _802ip_send_frame: sendto the group; the multicast loop queues a copy
\* on every member's group socket, the sender's own included, and a full
\* socket queue drops it.
Multicast(g, f) ==
    [m \in Members |-> IF Len(g[m]) < QueueCap THEN Append(g[m], f) ELSE g[m]]

-----------------------------------------------------------------------------
(* The relay (ptrtd.c handle_packet, tcp.c)                               *)

\* What handle_tcp's intake tests of flags = p[53] & 0x3f: a bare SYN
\* (flags == 0x2) at the listener, the RST bit (flags & 0x4) at a record.
Kind(flags) ==
    IF flags = {"SYN"} THEN "SYN" ELSE IF "RST" \in flags THEN "RST" ELSE "ACK"

\* tcp_fabricate_rst: from the segment's destination to its source.
tcp_fabricate_rst(s) == Seg(s.dst, s.dport, s.src, s.sport, {"RST", "ACK"})

\* _802ip_read_callback reads the relay's group socket; ether_pkt_in
\* passes every IPv6 frame on (its memcmp of the source MAC with the
\* relay's own is computed and ignored), handle_packet dispatches on the
\* next header, and handle_tcp looks the segment up.  No record, or the
\* listener and anything but a bare SYN, is answered by a fabricated RST,
\* which send_pkt sends back onto the link.
RelayRecv ==
    /\ grp["relay"] # <<>>
    /\ LET f    == Head(grp["relay"])
           s    == f.seg
           t    == CT!tcb_find(tree, s.dst, s.dport, s.src, s.sport)
           kind == Kind(s.flags)
           rst  == t = CT!NoTcb \/ (t.state = "LISTEN" /\ kind # "SYN")
           g1   == [grp EXCEPT !["relay"] = Tail(@)]
           out  == [smac |-> hw["relay"], seg |-> tcp_fabricate_rst(s),
                    from |-> "relay"]
       IN  /\ CT!handle_tcp(s.dst, s.dport, s.src, s.sport, kind)
           /\ grp' = IF rst THEN Multicast(g1, out) ELSE g1
           /\ resets' = IF t \notin {CT!NoTcb, CT!Overflow} /\ t.state # "LISTEN"
                           /\ kind = "RST"
                          THEN resets \cup {s} ELSE resets
    /\ UNCHANGED <<hw, tap, synacked, sent, hsent>>

\* do_tcb_write for a record in SYN_RECVD: tcp_send_syn sends the SYN-ACK
\* once, from the record's local end to its remote end.
RelaySynAck ==
    \E r \in tree :
        LET out == [smac |-> hw["relay"],
                    seg |-> Seg(r.laddr, r.lport, r.raddr, r.rport, {"SYN", "ACK"}),
                    from |-> "relay"]
        IN  /\ r.state = "SYN_RECVD" /\ r.id \notin synacked
            /\ grp' = Multicast(grp, out)
            /\ synacked' = synacked \cup {r.id}
            /\ UNCHANGED <<hw, tree, orphans, nid, last, tap, sent, hsent, resets>>

-----------------------------------------------------------------------------
(* tap802ipd and the host                                                  *)

\* handle_tap_frame: a frame the host's stack writes to the tap goes to
\* the group; init_ifs gives the tap tap802ipd's MAC (ip link set address).
HostSend ==
    /\ hsent < MaxSends
    /\ \E ra \in RAddrs, rp \in Ports, la \in LAddrs, lp \in Ports,
          fl \in HostFlags :
         LET s == Seg(ra, rp, la, lp, fl)
         IN  /\ grp' = Multicast(grp, [smac |-> hw["bridge"], seg |-> s,
                                             from |-> "bridge"])
             /\ sent' = sent \cup {s}
    /\ hsent' = hsent + 1
    /\ UNCHANGED <<hw, tree, orphans, nid, last, tap, synacked, resets>>

\* handle_802ip_frame passes an IPv6 frame to the tap unless it carries
\* tap802ipd's own MAC.
bridge_forward(f) == f.smac # hw["bridge"]

\* _802ip_read_callback of tap802ipd, then handle_802ip_frame; the tap
\* device's queue is full at QueueCap frames.
BridgeRecv ==
    /\ grp["bridge"] # <<>>
    /\ LET f == Head(grp["bridge"])
       IN  /\ grp' = [grp EXCEPT !["bridge"] = Tail(@)]
           /\ tap' = IF bridge_forward(f) /\ Len(tap) < QueueCap
                       THEN Append(tap, f) ELSE tap
    /\ UNCHANGED <<hw, tree, orphans, nid, last, synacked, sent, hsent, resets>>

\* The host's stack reads its tap.
HostRecv ==
    /\ tap # <<>>
    /\ tap' = Tail(tap)
    /\ UNCHANGED <<hw, tree, orphans, nid, last, grp, synacked, sent, hsent, resets>>

\* Both processes start on the host, in either order, and each creates
\* its 802.IP interface (_802ip_new_if): the first takes the lowest free
\* port, the second the lowest port still free.
Init ==
    /\ \E first \in Members :
         LET p1 == bind_port(InUse)
             p2 == bind_port(InUse \cup {p1})
         IN  hw = [m \in Members |-> (IF m = first THEN p1 ELSE p2) % 256]
    /\ CT!Init
    /\ grp = [m \in Members |-> <<>>]
    /\ tap = <<>> /\ synacked = {} /\ sent = {} /\ hsent = 0 /\ resets = {}

Next == RelayRecv \/ RelaySynAck \/ HostSend \/ BridgeRecv \/ HostRecv

Spec == Init /\ [][Next]_vars

-----------------------------------------------------------------------------
Addrs == LAddrs \cup RAddrs
Segs == [src : Addrs, sport : Ports, dst : Addrs, dport : Ports,
         flags : SUBSET {"SYN", "ACK", "RST"}]
Frames == [smac : 0..255, seg : Segs, from : Members]
Records == [id : 0..MaxRecords, laddr : Addrs \cup {0}, lport : Ports \cup {0},
            raddr : Addrs \cup {0}, rport : Ports \cup {0},
            state : {"LISTEN", "SYN_RECVD"}]

TypeOK ==
    /\ tree \subseteq Records /\ orphans = {} /\ nid \in 1..MaxRecords
    /\ grp \in [Members -> Seq(Frames)] /\ tap \in Seq(Frames)
    /\ \A m \in Members : Len(grp[m]) <= QueueCap
    /\ synacked \subseteq Nat /\ hsent \in 0..MaxSends
    /\ sent \subseteq Segs /\ resets \subseteq Segs
    /\ hw \in [Members -> 0..255]

\* A connection is reset only by an RST the host sent: handle_tcp deletes
\* a record on any segment with the RST bit, so none of the relay's own
\* segments may come back to it as one.
RelayNotResetBySelf == resets \subseteq sent

\* tap802ipd's MAC filter (handle_802ip_frame) tells the two members
\* apart: of the frames queued on its group socket it passes every one the
\* relay sent and none the host sent.  The members' MACs differ only
\* because the bind loop gives the second to start a different port.
MacFilterSeparatesMembers ==
    \A i \in DOMAIN grp["bridge"] :
        bridge_forward(grp["bridge"][i]) <=> grp["bridge"][i].from = "relay"
=============================================================================
