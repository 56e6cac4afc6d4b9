------------------------------ MODULE UdpRelay ------------------------------
(***************************************************************************)
(* The UDP relay of ptrtd-udp.c and udp.c.  A datagram from an IPv6 client *)
(* (raddr, rport) to prefix::a.b.c.d port lport reaches handle_udp through *)
(* the tun interface; udp_get_map finds or creates the client's map, an    *)
(* IPv4 UDP socket with a read event and a stale timer, and the datagram   *)
(* is sent from that socket to a.b.c.d:lport.  Replies read from the       *)
(* socket go back to the client through udp_send, from prefix::server.     *)
(* A map idle for 600 s is removed by its stale timer.                     *)
(*                                                                         *)
(* Every callback runs to completion and none of them removes an event     *)
(* another callback of the same loop iteration would visit (a new map's    *)
(* read event is pushed at the head of the fd list, behind the walk), so   *)
(* the loop is one action per callback.  Time is abstracted: a registered *)
(* stale timer may fire in any iteration, and resched_time_event, which    *)
(* only moves it later, leaves the state as it is.  Payloads are left out: *)
(* a client's datagram is its endpoints, a server's its sender and its     *)
(* length.                                                                 *)
(***************************************************************************)
EXTENDS Naturals, Sequences, FiniteSets

CONSTANTS
    ClientAddrs,  \* IPv6 source addresses of clients
    ClientPorts,  \* their source ports
    Servers,      \* IPv4 endpoints a.b.c.d:lport
    Prefix,       \* the relay's /96 prefix
    Garbage,      \* any other 12 bytes
    MaxSends,     \* bound: datagrams the clients send
    MaxReplies,   \* bound: datagrams the servers send back
    Sizes         \* payload lengths of the servers' datagrams

Clients == [raddr : ClientAddrs, rport : ClientPorts]
Ids == 1..MaxSends   \* a map is created only for a datagram

VARIABLES
    ulist,      \* the list of maps, newest first: [id, raddr, rport]
    evRead,     \* per map: read events registered (e_fd_read)
    evStale,    \* per map: stale timers registered (e_stale)
    open,       \* maps whose socket is open
    rx,         \* per map: datagrams queued on its socket: [srv, len]
    tun,        \* client datagrams queued on the tun interface
    nid,        \* the next map id
    peers,      \* per map: the servers its socket has sent to
    forwarded,  \* <<client, server>>: a client's datagram sendto carried
    replies,    \* datagrams udp_send has put on the interface
    csent,      \* datagrams the clients have sent
    ssent       \* datagrams the servers have sent

vars == <<ulist, evRead, evStale, open, rx, tun, nid, peers, forwarded, replies, csent,
         ssent>>

MapOf(id) == CHOOSE i \in DOMAIN ulist : ulist[i].id = id
ClientOf(m) == [raddr |-> m.raddr, rport |-> m.rport]

-----------------------------------------------------------------------------
(* ptrtd-udp.c                                                            *)

\* ptrtd_udp_init: udp_open of the one listener; no maps, no events.
Init ==
    /\ ulist = <<>>
    /\ evRead = [i \in Ids |-> 0] /\ evStale = [i \in Ids |-> 0]
    /\ open = {} /\ rx = [i \in Ids |-> <<>>] /\ peers = [i \in Ids |-> {}]
    /\ tun = <<>> /\ nid = 1
    /\ forwarded = {} /\ replies = {} /\ csent = 0 /\ ssent = 0

\* Seeded fault: a lookup that compares the port only.
udp_get_map_port_only(c) ==
    IF \E i \in DOMAIN ulist : ulist[i].rport = c.rport
      THEN ulist[CHOOSE i \in DOMAIN ulist : ulist[i].rport = c.rport]
      ELSE [id |-> nid, raddr |-> c.raddr, rport |-> c.rport]

\* Seeded fault: a new map without its stale timer.
udp_get_map_no_stale(c) ==
    IF \E i \in DOMAIN ulist : ulist[i].rport = c.rport /\ ulist[i].raddr = c.raddr
      THEN ulist[CHOOSE i \in DOMAIN ulist :
                   ulist[i].rport = c.rport /\ ulist[i].raddr = c.raddr]
      ELSE [id |-> nid, raddr |-> c.raddr, rport |-> c.rport, nostale |-> TRUE]

\* udp_get_map: the first map of the client (same rport and raddr), or a
\* new one (socket, add_fd_event, add_time_event) pushed at the head.
udp_get_map(c) ==
    IF \E i \in DOMAIN ulist : ulist[i].rport = c.rport /\ ulist[i].raddr = c.raddr
      THEN ulist[CHOOSE i \in DOMAIN ulist :
                   ulist[i].rport = c.rport /\ ulist[i].raddr = c.raddr]
      ELSE [id |-> nid, raddr |-> c.raddr, rport |-> c.rport]

\* handle_udp hands every datagram to the only socket, the listener, whose
\* callback incoming gets the client's map, sends the datagram from it to
\* the server and reschedules the stale timer.
handle_udp ==
    /\ tun # <<>>
    /\ LET d  == Head(tun)
           um == udp_get_map(d.src)
           new == um.id = nid
       IN  /\ tun' = Tail(tun)
           /\ IF new
                THEN /\ ulist' = <<[id |-> um.id, raddr |-> um.raddr,
                                     rport |-> um.rport]>> \o ulist
                     /\ nid' = nid + 1
                     /\ open' = open \cup {um.id}
                     /\ evRead' = [evRead EXCEPT ![um.id] = @ + 1]
                     /\ evStale' = IF "nostale" \in DOMAIN um THEN evStale
                                   ELSE [evStale EXCEPT ![um.id] = @ + 1]
                ELSE UNCHANGED <<ulist, nid, open, evRead, evStale>>
           /\ peers' = [peers EXCEPT ![um.id] = @ \cup {d.dst}]
           /\ forwarded' = forwarded \cup {<<d.src, d.dst>>}
    /\ UNCHANGED <<rx, replies, csent, ssent>>

\* udp_send: the datagram it builds and hands to send_pkt, from laddr
\* (pfx followed by the server's IPv4 address) and the server's port to
\* the client, with at most 1280 - 48 bytes of payload (len is cut to
\* that and the datagram is sent).  given is the length handed to it;
\* the checksum is left out.
udp_send(pfx, d, c) ==
    [pfx |-> pfx, srv |-> d.srv, dst |-> c, given |-> d.len,
     len |-> IF d.len > 1280 - 48 THEN 1280 - 48 ELSE d.len]

\* handle_udp_read: recvfrom the map's socket, then udp_send to the map's
\* client from pfx[0..11] followed by the server's IPv4 address.  pfx is
\* never written, so its 12 bytes are whatever the stack held.
handle_udp_read(id) ==
    /\ evRead[id] > 0 /\ rx[id] # <<>>
    /\ LET um == ulist[MapOf(id)]
       IN  \E pfx \in {Prefix, Garbage} :
             replies' = replies \cup {udp_send(pfx, Head(rx[id]), ClientOf(um))}
    /\ rx' = [rx EXCEPT ![id] = Tail(@)]
    /\ UNCHANGED <<ulist, evRead, evStale, open, tun, nid, peers, forwarded,
                   csent, ssent>>

\* Seeded fault: remove_udp_map removing the read event twice.
remove_udp_map_twice(id) ==
    /\ ulist' = SelectSeq(ulist, LAMBDA m : m.id # id)
    /\ open' = open \ {id}
    /\ rx' = [rx EXCEPT ![id] = <<>>]
    /\ evRead' = [evRead EXCEPT ![id] = @ - 2]

\* Seeded fault: remove_udp_map leaving the read event registered.
remove_udp_map_keep_read(id) ==
    /\ ulist' = SelectSeq(ulist, LAMBDA m : m.id # id)
    /\ open' = open \ {id}
    /\ rx' = [rx EXCEPT ![id] = <<>>]
    /\ UNCHANGED evRead

\* remove_udp_map, run by the stale timer: unlink the map, remove its read
\* event, close its socket (queued datagrams are lost).
remove_udp_map(id) ==
    /\ ulist' = SelectSeq(ulist, LAMBDA m : m.id # id)
    /\ open' = open \ {id}
    /\ rx' = [rx EXCEPT ![id] = <<>>]
    /\ evRead' = [evRead EXCEPT ![id] = @ - 1]

\* The loop fires the stale timer (e->remove = 1), the callback frees the
\* map, and the loop removes the timer event.
Stale(id) ==
    /\ evStale[id] > 0
    /\ remove_udp_map(id)
    /\ evStale' = [evStale EXCEPT ![id] = @ - 1]
    /\ UNCHANGED <<tun, nid, peers, forwarded, replies, csent, ssent>>

-----------------------------------------------------------------------------
(* The environment                                                        *)

\* A client sends a datagram to prefix::server; it waits on the tun queue.
ClientSend ==
    /\ csent < MaxSends
    /\ \E c \in Clients, s \in Servers : tun' = Append(tun, [src |-> c, dst |-> s])
    /\ csent' = csent + 1
    /\ UNCHANGED <<ulist, evRead, evStale, open, rx, nid, peers, forwarded,
                   replies, ssent>>

\* A server answers a socket that has sent it a datagram.
ServerReply ==
    /\ ssent < MaxReplies
    /\ \E id \in open, s \in Servers, n \in Sizes :
         /\ s \in peers[id]
         /\ rx' = [rx EXCEPT ![id] = Append(@, [srv |-> s, len |-> n])]
    /\ ssent' = ssent + 1
    /\ UNCHANGED <<ulist, evRead, evStale, open, tun, nid, peers, forwarded,
                   replies, csent>>

Next ==
    \/ handle_udp
    \/ \E id \in Ids : handle_udp_read(id) \/ Stale(id)
    \/ ClientSend \/ ServerReply

Spec == Init /\ [][Next]_vars

\* The loop's fairness: select reports a readable socket and the tun fd in
\* every iteration it is ready, and a registered timer expires and fires
\* once no fd keeps the loop busy.  Clients and servers need not send.
FairSpec ==
    /\ Spec
    /\ WF_vars(handle_udp)
    /\ \A id \in Ids : WF_vars(handle_udp_read(id)) /\ WF_vars(Stale(id))

-----------------------------------------------------------------------------
Live(id) == \E i \in DOMAIN ulist : ulist[i].id = id

TypeOK ==
    /\ \A i \in DOMAIN ulist : ulist[i].id \in Ids
                               /\ ClientOf(ulist[i]) \in Clients
    /\ evRead \in [Ids -> Nat] /\ evStale \in [Ids -> Nat]
    /\ open \subseteq Ids /\ nid \in 1..(MaxSends + 1)
    /\ rx \in [Ids -> Seq([srv : Servers, len : Sizes])]
    /\ peers \in [Ids -> SUBSET Servers]
    /\ forwarded \subseteq Clients \X Servers
    /\ \A r \in replies : r.srv \in Servers /\ r.dst \in Clients

\* A map is in ulist exactly while its socket is open and it has one read
\* event and one stale timer: udp_get_map registers both, and
\* remove_udp_map, run by the timer, removes the read event before the
\* loop removes the timer, so no event of a freed map is ever left to fire.
MapsMatchEvents ==
    \A id \in Ids :
        /\ evRead[id] = IF Live(id) THEN 1 ELSE 0
        /\ evStale[id] = evRead[id]
        /\ id \in open <=> Live(id)

\* Every reply udp_send puts on the interface goes to a client that has
\* sent a datagram to that server: handle_udp_read answers um->raddr,
\* um->rport, and udp_get_map gives each client (rport and raddr) its own
\* socket.
ReplyReachesItsClient ==
    \A r \in replies : <<r.dst, r.srv>> \in forwarded

\* What the client gets is what the server sent it: every reply udp_send
\* puts on the interface comes from prefix::server, the address the client
\* sent to (so the client's stack matches it to its socket), and carries
\* the whole datagram handle_udp_read read from the map's socket.
ReplyIsServersDatagram ==
    \A r \in replies : r.pfx = Prefix /\ r.len = r.given

\* Once the clients stop sending, every map is eventually removed by its
\* stale timer and the relay holds no socket.
IdleMapsRemoved == <>[](ulist = <<>>)
=============================================================================
