------------------------- MODULE NeighborDiscovery -------------------------
(***************************************************************************)
(* The packet output path and ICMPv6 of icmp.c, with handle_packet's       *)
(* dispatch of ptrtd.c.  Every packet the relay builds goes to send_pkt,   *)
(* which on an interface with link-layer addresses (the tap, 802ip and    *)
(* uml_sw drivers: hwaddr_len = 6) resolves the next hop in the neighbour *)
(* list nlist: a REACHABLE neighbour gets the frame, an INCOMPLETE one    *)
(* queues it, and an unknown one is solicited (NS) and added INCOMPLETE   *)
(* with the packet queued.  A neighbour advertisement (NA), or an NS       *)
(* carrying a source link-layer option, makes the neighbour REACHABLE and  *)
(* flushes its queue through send_pkt.  The tun driver (hwaddr_len = 0)    *)
(* sends every packet at once.                                             *)
(*                                                                         *)
(* Addresses are model values: Hosts are the link-local addresses of the  *)
(* machines on the link, and a host's link-layer address is the host      *)
(* itself.  Router is fe80::1 (otherlladdr), the next hop of every packet *)
(* to a global address (Remote).  Packets are [id, dst, kind, target];    *)
(* ids number the unicast packets in the order send_pkt is called for     *)
(* them, and the multicast NS and NA have id 0.  The link carries frames  *)
(* in order; hosts answer an NS for their own address with an NA carrying *)
(* their link-layer address, as RFC 4861 requires for a multicast NS.     *)
(***************************************************************************)
EXTENDS Naturals, Sequences, SequencesExt

CONSTANTS
    Hosts,      \* link-local addresses of the machines on the link
    Router,     \* fe80::1, otherlladdr: the next hop off the link
    Remote,     \* a global IPv6 address (a client of the relay)
    Me,         \* fe80::5, mylladdr
    Mcast,      \* a multicast destination (all-hosts, solicited-node)
    NULL,       \* a NULL lladdr argument
    Garbage,    \* the never-written linkaddr of a malloc'd neighbour
    HwLen,      \* iface->hwaddr_len: 0 (tun) or 6 (ethernet drivers)
    NaOpts,     \* whether a host's unsolicited NA carries its lladdr
    MaxPkts,    \* bound: packets the TCP and UDP relays hand to send_pkt
    MaxMsgs,    \* bound: ICMPv6 messages hosts send on their own
    MaxLoss     \* bound: frames the link loses

ASSUME Router \in Hosts /\ HwLen \in {0, 6} /\ NaOpts \subseteq BOOLEAN

Dests == Hosts \cup {Remote}
States == {"ABSENT", "INCOMPLETE", "REACHABLE"}
Ids == 0..(MaxPkts + 2 * MaxMsgs)

VARIABLES
    nb,         \* nlist: per address, [state, ll, queue]; ABSENT if not in it
    out,        \* frames on the link from the relay: [ll, pkt]
    inq,        \* packets from hosts waiting for handle_packet
    nid,        \* the next unicast packet id
    sentTo,     \* per next hop: ids of the unicast packets sent to it
    delivered,  \* per host: ids of the frames it received, in order
    pkts, msgs, lost

vars == <<nb, out, inq, nid, sentTo, delivered, pkts, msgs, lost>>

\* send_pkt's choice of neighbour: the link-local destination itself, or
\* otherlladdr for anything else.
NextHop(dst) == IF dst \in Hosts THEN dst ELSE Router

-----------------------------------------------------------------------------
(* icmp.c                                                                 *)

\* find_neighbor: whether the address has an entry in nlist.
find_neighbor(w, a) == w.nb[a].state # "ABSENT"

\* send_multicast: the frame goes out at once.
send_multicast(w, p) == [w EXCEPT !.out = Append(@, [ll |-> Mcast, pkt |-> p])]

\* send_unicast: the frame goes out at once, to the given link address.
send_unicast(w, ll, p) == [w EXCEPT !.out = Append(@, [ll |-> ll, pkt |-> p])]

\* Seeded fault: a queue that pushes at the head.
queue_packet_lifo(w, n, p) == [w EXCEPT !.nb[n].queue = <<p>> \o @]

\* queue_packet: append to the neighbour's queue.
queue_packet(w, n, p) == [w EXCEPT !.nb[n].queue = Append(@, p)]

\* Seeded fault: a new entry created with the ND_STALE state code.
add_neighbor_stale(w, a, ll) ==
    [w EXCEPT !.nb[a] = [state |-> "STALE", ll |-> IF ll # NULL THEN ll ELSE Garbage,
                         queue |-> <<>>]]

\* add_neighbor: push a new entry, REACHABLE when the interface has no
\* link-layer addresses or lladdr is given, INCOMPLETE otherwise; linkaddr
\* is copied only when given (ALLOC does not clear it).
add_neighbor(w, a, ll) ==
    [w EXCEPT !.nb[a] = [state |-> IF HwLen = 0 \/ ll # NULL THEN "REACHABLE"
                                   ELSE "INCOMPLETE",
                         ll    |-> IF ll # NULL THEN ll ELSE Garbage,
                         queue |-> <<>>]]

\* icmp_send_ns: a solicitation for dest, multicast to its solicited-node
\* address, so send_pkt takes the multicast branch.
icmp_send_ns(w, dest) ==
    send_multicast(w, [id |-> 0, dst |-> Mcast, kind |-> "ns", target |-> dest])

\* Seeded fault: send_pkt that adds the neighbour without soliciting it.
send_pkt_no_ns(w, p) ==
    LET n == NextHop(p.dst)
    IN  IF p.dst = Mcast THEN send_multicast(w, p)
        ELSE IF HwLen = 0 THEN [w EXCEPT !.out = Append(@, [ll |-> n, pkt |-> p])]
        ELSE IF w.nb[n].state = "REACHABLE"
          THEN send_unicast(w, w.nb[n].ll, p)
        ELSE IF find_neighbor(w, n) THEN queue_packet(w, n, p)
        ELSE queue_packet(add_neighbor(w, n, NULL), n, p)

\* send_pkt: multicast at once; without link-layer addresses unicast at
\* once; otherwise by the next hop's entry: send to its linkaddr, queue,
\* or solicit it, add it and queue.
send_pkt(w, p) ==
    LET n == NextHop(p.dst)
    IN  IF p.dst = Mcast THEN send_multicast(w, p)
        ELSE IF HwLen = 0 THEN [w EXCEPT !.out = Append(@, [ll |-> n, pkt |-> p])]
        ELSE IF w.nb[n].state = "REACHABLE"
          THEN send_unicast(w, w.nb[n].ll, p)
        ELSE IF find_neighbor(w, n) THEN queue_packet(w, n, p)
        ELSE queue_packet(add_neighbor(icmp_send_ns(w, n), n, NULL), n, p)

\* make_icmp_hdr and get_buffer: a new unicast packet to dst, numbered,
\* handed to send_pkt.
emit(w, dst, kind) ==
    send_pkt([w EXCEPT !.nid = @ + 1,
                       !.sentTo[NextHop(dst)] = @ \cup {w.nid}],
             [id |-> w.nid, dst |-> dst, kind |-> kind, target |-> dst])

\* got_neighbor: a known neighbour takes the new lladdr (if any), becomes
\* REACHABLE and has its queue sent, in order, through send_pkt; an
\* unknown one is added.
got_neighbor(w, a, ll) ==
    IF find_neighbor(w, a)
      THEN FoldLeft(send_pkt,
                    [w EXCEPT !.nb[a].ll = IF ll = NULL THEN @ ELSE ll,
                              !.nb[a].state = "REACHABLE", !.nb[a].queue = <<>>],
                    w.nb[a].queue)
      ELSE add_neighbor(w, a, ll)

\* icmp_send_ping_reply, icmp_send_error: a unicast reply to the source.
icmp_send_ping_reply(w, src) == emit(w, src, "ping_reply")
icmp_send_error(w, src) == emit(w, src, "error")

\* icmp_send_na: to dest if given, else multicast to all-hosts.
icmp_send_na(w, dest) ==
    IF dest = NULL
      THEN send_multicast(w, [id |-> 0, dst |-> Mcast, kind |-> "na", target |-> Me])
      ELSE emit(w, dest, "na")

\* handle_icmp for a message m from host m.src: an echo request is
\* answered (icmp_send_ping_reply); an NS with a source lladdr option is
\* learnt, and one for mylladdr answered (icmp_send_na); an NA is learnt,
\* with its target lladdr option if present.
handle_icmp(w, m) ==
    CASE m.type = "ping" -> icmp_send_ping_reply(w, m.src)
      [] m.type = "ns" ->
           LET w1 == IF HwLen > 0 /\ m.opt THEN got_neighbor(w, m.src, m.src) ELSE w
           IN  IF m.target = Me THEN icmp_send_na(w1, m.src) ELSE w1
      [] m.type = "na" ->
           got_neighbor(w, m.src, IF HwLen > 0 /\ m.opt THEN m.src ELSE NULL)

\* handle_packet: ICMPv6 to handle_icmp, an unknown next header answered
\* by icmp_send_error to the source.
handle_packet_w(w, m) ==
    IF m.type = "bad" THEN icmp_send_error(w, m.src) ELSE handle_icmp(w, m)

\* icmp_init_iface: an unsolicited NA to all-hosts when the interface
\* comes up, the first frame on the link.
icmp_init_iface ==
    icmp_send_na([nb |-> <<>>, out |-> <<>>, nid |-> 1, sentTo |-> <<>>], NULL)

Init ==
    /\ nb = [h \in Hosts |-> [state |-> "ABSENT", ll |-> Garbage, queue |-> <<>>]]
    /\ out = icmp_init_iface.out
    /\ inq = <<>> /\ nid = 1 /\ sentTo = [h \in Hosts |-> {}]
    /\ delivered = [h \in Hosts |-> <<>>]
    /\ pkts = 0 /\ msgs = 0 /\ lost = 0

W0 == [nb |-> nb, out |-> out, nid |-> nid, sentTo |-> sentTo]

Commit(w) == nb' = w.nb /\ out' = w.out /\ nid' = w.nid /\ sentTo' = w.sentTo

\* The TCP or UDP relay sends a packet to a client or to a host.
RelaySend ==
    /\ pkts < MaxPkts
    /\ \E dst \in Dests : Commit(emit(W0, dst, "data"))
    /\ pkts' = pkts + 1
    /\ UNCHANGED <<inq, delivered, msgs, lost>>

\* The interface callback reads the next packet and handle_packet runs.
handle_packet ==
    /\ inq # <<>>
    /\ Commit(handle_packet_w(W0, Head(inq)))
    /\ inq' = Tail(inq)
    /\ UNCHANGED <<delivered, pkts, msgs, lost>>

-----------------------------------------------------------------------------
(* The link and the hosts                                                 *)

\* A host sends an echo request, an NS (with or without its lladdr, for
\* the relay or another address), an unsolicited NA, or a packet with a
\* next header the relay does not know.
HostSend ==
    /\ msgs < MaxMsgs
    /\ \E h \in Hosts, o \in BOOLEAN, t \in {Me, Remote} :
         \/ inq' = Append(inq, [type |-> "ping", src |-> h, opt |-> FALSE, target |-> Me])
         \/ inq' = Append(inq, [type |-> "ns", src |-> h, opt |-> o, target |-> t])
         \/ /\ o \in NaOpts
            /\ inq' = Append(inq, [type |-> "na", src |-> h, opt |-> o, target |-> h])
         \/ inq' = Append(inq, [type |-> "bad", src |-> h, opt |-> FALSE, target |-> Me])
    /\ msgs' = msgs + 1
    /\ UNCHANGED <<nb, out, nid, sentTo, delivered, pkts, lost>>

\* The link delivers the next frame: a unicast frame reaches the host with
\* that link-layer address; an NS reaches every host and its target
\* answers with an NA carrying its lladdr.
Deliver ==
    /\ out # <<>>
    /\ LET f == Head(out)
       IN  /\ delivered' = IF f.ll \in Hosts
                             THEN [delivered EXCEPT ![f.ll] = Append(@, f.pkt.id)]
                             ELSE delivered
           /\ inq' = IF f.pkt.kind = "ns" /\ f.pkt.target \in Hosts
                       THEN Append(inq, [type |-> "na", src |-> f.pkt.target,
                                         opt |-> TRUE, target |-> f.pkt.target])
                       ELSE inq
    /\ out' = Tail(out)
    /\ UNCHANGED <<nb, nid, sentTo, pkts, msgs, lost>>

\* The link loses the next frame.
Lose ==
    /\ out # <<>> /\ lost < MaxLoss
    /\ out' = Tail(out) /\ lost' = lost + 1
    /\ UNCHANGED <<nb, inq, nid, sentTo, delivered, pkts, msgs>>

Next == RelaySend \/ handle_packet \/ HostSend \/ Deliver \/ Lose

Spec == Init /\ [][Next]_vars

\* The event loop reads every packet the interface has (tuntap and the
\* ethernet drivers' fd events), and the link and the hosts keep working;
\* sending and losing are not required.
FairSpec == Spec /\ WF_vars(handle_packet) /\ WF_vars(Deliver)
-----------------------------------------------------------------------------
Pkts == [id : Ids, dst : Dests \cup {Mcast}, kind : {"data", "ping_reply", "na",
         "error", "ns"}, target : Dests \cup {Me}]

TypeOK ==
    /\ nb \in [Hosts -> [state : States, ll : Hosts \cup {Garbage}, queue : Seq(Pkts)]]
    /\ \A i \in DOMAIN out : out[i].ll \in Hosts \cup {Garbage, Mcast}
                             /\ out[i].pkt \in Pkts
    /\ nid \in 1..(MaxPkts + MaxMsgs + 1)
    /\ sentTo \in [Hosts -> SUBSET Ids] /\ delivered \in [Hosts -> Seq(Ids)]

\* Each host receives the relay's unicast packets in the order send_pkt was
\* called for them, across the queueing of an INCOMPLETE neighbour, the
\* flush in got_neighbor and the packets sent directly afterwards.
DeliveredInOrder ==
    \A h \in Hosts : \A i, j \in DOMAIN delivered[h] :
        i < j => delivered[h][i] < delivered[h][j]

\* No packet stays in a neighbour's queue forever: an INCOMPLETE neighbour
\* has been solicited by send_pkt, and its answer makes got_neighbor empty
\* the queue.  Losing a data frame does not bear on it; losing the NS does,
\* because nothing in icmp.c sends it again.
QueuesDrain == <>[](\A h \in Hosts : nb[h].queue = <<>>)
=============================================================================
