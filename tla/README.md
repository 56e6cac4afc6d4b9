# TLA+ models of ptrtd's TCP and UDP relays and neighbour discovery

ptrtd is an IPv6-to-IPv4 relay. IPv6 packets addressed to a reserved
prefix arrive on a tun interface. The program runs its own small TCP stack
for them (`src/tcp.c`, `src/tcb.c`, `src/buffer.c`). For every accepted
connection it opens an IPv4 socket to the embedded IPv4 address
(`src/ptrtd-tcp.c`) and copies bytes both ways. Everything runs in a
single-threaded event loop (`src/event.c`) made of fd events, timer events
and "always" events.

The interesting behaviour comes from how these parts interleave:

- segments from the IPv6 peer, possibly lost or duplicated;
- readiness of the IPv4 socket;
- the stack's retransmit and TIME_WAIT timers;
- the always-event `do_tcb_write`, which sends whatever the TCP record has
  pending.

## Modules

| Module | Models | Source |
|---|---|---|
| `Ringbuf` | the sequence-addressed ring buffer, as operators on `[size, w_seq, data]` | `buffer.c` |
| `TcpRelay` | one connection record, its bridge map and the event loop, as a state machine | `tcp.c`, `tcb.c`, `ptrtd-tcp.c`, `event.c`, `if_tuntap.c` |
| `RelaySystem` | `TcpRelay` composed with an IPv6 peer, the IPv4 server and a faulty path; the properties | environment |
| `MCRelaySystem` | the state constraint `NetBound` on the path length, for TLC | — |
| `ByteStream` | the abstract promise of one direction: a prefix of the offered bytes, in order | — |
| `ConnectionTable` | the connection table and handle_tcp's intake, for several connections | `tcb.c`, `tcp.c` (handle_tcp, tcp_listen) |
| `NeighborDiscovery` | the packet output path (send_pkt and the neighbour list), ICMPv6 and handle_packet's dispatch | `icmp.c`, `ptrtd.c`, `ether.c` |
| `UdpRelay` | the UDP relay: per-client maps, their sockets, read events and stale timers | `ptrtd-udp.c`, `udp.c` |
| `Link802ip` | the 802.IP virtual LAN joining the relay to a host through tap802ipd, composed with `ConnectionTable` | `if_802ip.c`, `ether.c`, `tap802ipd.c`, `tcp.c` |

### TcpRelay: state

- `t`: the `struct tcb` of the one connection. Its fields are the state,
  `snd_una`, `snd_nxt`, `snd_max`, `rcv_nxt`, the windows, `inbuf` and
  `outbuf` (ring buffers), `read_seq`, the marks `cb` and `closing` and the
  callback flag.
- `m`: the `struct map` of `ptrtd-tcp.c`. Its fields are whether it is
  alive, and its socket handles `e_fd_read`, `e_fd_write` and
  `e_fd_connect` (present or NULL).
- `ev`: for each event kind, how many events of that kind are registered
  in event.c's lists. The kinds are `fd_read`, `fd_write`, `fd_connect`,
  the tun fd, the rexmit and time-wait timers, and the `do_tcb_write`
  always-event. Counting instead of a boolean lets the model see a leaked
  or doubly registered event.
- `lp`, `ready`: where the loop is (`wait`, `fd`, `always`) and which of
  the events select reported, in list order.
- `isn`: the connection counter that `next_isn` uses.
- `toPeer`, `toRelay`: the IPv6 path in each direction.
- `sock`: the IPv4 server's end of the socket: what was written to it,
  what it has sent, what the relay has read, and eof.

### TcpRelay: how C functions are written

Every C function that changes state is an operator of the same name on a
"world" record `w = [t, m, ev, out]`. For example, `handle_tcp(w, seg)`
calls `ack_part`, `data_part`, `tcp_recv_data`, `tcp_send_and_ack`,
`kill_map` and the rest exactly where the C code calls them.

An action runs one whole callback and then commits the world: `Commit`
assigns `t`, `m` and `ev`, and appends `out` to `toPeer`. So an action
contains every state change the callback makes, including the trailing
`tcp_send_and_ack` or `remove_event`.

### TcpRelay: actions of one loop iteration

1. `Select`, or `FireTimer(k)`.
   - `Select` picks a non-empty set of registered fd events that are
     ready, in list order.
   - `FireTimer(k)` fires a registered timer and skips the fd walk. This is
     select returning 0.
2. `FdVisit`. It visits each reported event in order and skips one that an
   earlier callback removed. The possible visits are:
   - `Tun`: handle_tcp, listen_syn or tcp_fabricate_rst;
   - `FdRead`: handle_fd_can_read;
   - `FdWrite`: handle_fd_can_write;
   - `FdConnect`: handle_fd_did_connect.

   A callback's return value decides `Unlink`: the loop removes the event
   unless the callback already did.
3. `Always`. It runs `do_tcb_write`.

### Inputs

Results of system calls are inputs chosen with `\E` from small constant
sets:

- connect() from `ConnectResults` (connected, in progress, fail);
- write() from `WriteResults` (full, partial, EAGAIN, error);
- read(): between one byte and what fits, or end of file.

### RelaySystem: the environment

- The IPv6 peer is an honest TCP sender and receiver:
  - it does the handshake and sends `PeerBytes` bytes and a FIN;
  - it acknowledges in order and uses go-back-N on its own timeout.
- The IPv4 server writes `ServerBytes` bytes and closes.
- The path may lose or duplicate up to `MaxFaults` segments (`Faults`).
  With `Reorder` it may also reorder them.
- A segment bound for the relay is not lost while the loop walks the fd
  list. Select reported it, so it is already in the tun queue.
  `tuntap_do_read` would exit the program if that read failed.

Bytes are their stream offsets (byte i is the number i-1). This makes a
misplaced byte visible as a wrong number.

## Runs

All runs of `MCRelaySystem` use:

- one connection;
- `MSS = 1`, `BufSize = 2`, `PeerWnd = 2`;
- at most 2 segments in flight per direction (`NetCap`).

With these bounds a buffer fills, a window closes, segments split, and the
loop sees several ready events at once. PeerBytes = ServerBytes = 2 already
reaches every state of `tcp.c`'s state diagram on the relay side.

### Passing runs

**`reliable`** (847k states) checks:

- `PeerStreamRefined` and `ServerStreamRefined`: refinement properties.
  The relay implements `ByteStream` in each direction.
  - Peer to server: the peer's sent bytes map to `offered`, and
    `sock.recv` maps to `delivered`.
  - Server to peer: `sock.written` maps to `offered`, and the peer's
    in-order data maps to `delivered`.
  Each step of the relay either leaves a stream alone or delivers the
  next bytes of what was offered.
- `SegmentsCarryServerBytes`: every segment's payload is the server's
  bytes at the segment's sequence number. This includes retransmissions
  the peer discards.
- `HandlesMatchEvents`: every registered socket event has its handle in
  the map, and only then.
- `RecordAndMapLinked`: a record with a callback has a live map, and a
  live map has a record.
- `InbufTracksRcvNxt`: the receive buffer ends at `rcv_nxt`.

**`lossy`** (1.2M states) checks the same properties with one segment
lost or duplicated in either direction. The exception is
`PeerStreamRefined`. Under loss the relay breaks it: `RelayedInOrder`,
the invariant form of the same promise, fails in the `misdelivery` run.


**`table`** (24k states) runs `ConnectionTable`. It uses two destinations,
two non-zero source addresses, and ports 0 and 1, and allows up to three
connections. It checks the following.

- `TcbcmpOrdersKeys`: tcbcmp is a total preorder, so the red-black tree's
  descent finds the equal record. This justifies abstracting the tree to
  a set.
- `LookupTerminates`: tcb_find's fallback chain always ends at the
  listener, whatever SYNs, RSTs and deletions came before.

The all-zero source address is left out of this run on purpose. A SYN
from :: port 0 to port 0 has the listener's key, so tcb_insert refuses its
record and tcb_new returns it anyway (tcb.c:127). When that record is
deleted, rb_erase of its unlinked, zeroed node sets the tree's root to
null (tcb.c:142): the listener is lost, and the next segment to a
non-zero port makes tcb_find recurse without end. With RAddrs = {0, 3},
TLC finds `LookupTerminates` violated in 4 steps. This is a hazard in
PROJECT.json with no run of its own. The 802.IP LAN of `Link802ip`
exercises the same lookup, through an INSTANCE, with the relay's own
segments coming back to it.

**`udp`** (351k states) runs `UdpRelay` under its `FairSpec`. Two
clients share a source port but not an address, two servers answer, the
clients send four datagrams and the servers two, of 1232 or 1233 bytes.
It checks:

- `MapsMatchEvents`: a map is in `ulist` exactly while its socket is open
  and it has one read event and one stale timer.
- `ReplyReachesItsClient`: every reply goes to a client that sent to that
  server. The shared port makes a lookup on fewer fields go wrong.
- `IdleMapsRemoved` (liveness): once traffic stops, every map is removed.

The run sets `CHECK_DEADLOCK FALSE`: when the clients and servers are done
the relay blocks in select, which is the program's idle state.

### Violation runs

Each of these runs checks one property, and TLC finds it violated. Every
one is a finding in PROJECT.json.

- **`misdelivery`**: after one lost segment, the next segment is accepted
  as the missing one.
- **`remote_close`**: the peer's FIN frees the map with acknowledged bytes
  still unwritten.
- **`stall`**: `ConnectionReleased` (liveness, `FairSpec`) fails on a
  path that may lose one segment. TLC's counterexample is a lost SYN-ACK.
  do_tcb_write sends the SYN-ACK once, no timer covers it, and handle_tcp
  drops the peer's repeated SYN in SYN_RECVD (tcp.c:683). The same
  property fails in two more ways:
  - A lost FIN (tcp.c:344): a FIN-only segment arms no timer. Allowing only
    the relay's FIN to be lost gives a record stuck in LAST_ACK.
  - A CLOSING record with unsent data (tcp.c:575), even with no loss
    (Faults = {}). The early return there skips window_update. It also
    breaks the spec's `snd_una <= snd_nxt <= snd_max`, which
    `SndSeqOrdered` states and the reliable configuration violates.
- **`udp_reply`**: `ReplyIsServersDatagram` fails in four steps: a client
  datagram, handle_udp, a server reply, and handle_udp_read. It fails in
  two ways, and which one TLC reports depends on its search order (one
  worker or two).
  - The reply's source address comes from `pfx`, a local array nothing
    writes (ptrtd-udp.c:148).
  - A server answers with 1233 bytes, and udp_send cuts them to
    1280 - 48 and sends the rest as a whole datagram (udp.c:114).
- **`nd_ns_loss`**: `QueuesDrain` fails. The relay sends a packet to the
  router, send_pkt solicits it and queues the packet, and the link loses
  the NS. Nothing in icmp.c sends the NS again, so the packet, and every
  later packet to the router, stays queued. Without loss the same
  property holds.
- **`link_loop`**: `RelayNotResetBySelf` fails in five steps on the
  802.IP LAN. The host's SYN creates a record, the relay's SYN-ACK comes
  back to the relay, the listener answers it with a RST addressed to the
  connection, and that RST comes back and deletes the record.

Seven more disagreements were reproduced and are kept as hazards in
PROJECT.json. Each is reproduced by the configuration named below, and
none has a run of its own: the violation runs were kept for the defects
with the widest effect on the relay's users.

- tcbcmp never compares the local address (tcb.c:46).
  `SegmentReachesItsConnection` in `ConnectionTable` fails with
  LAddrs = {1, 2}, RAddrs = {3}, Ports = {1}, MaxRecords = 4. A second
  connection from the same source address and port to another IPv4
  destination is routed to the first connection.
- Deleting a record that tcb_insert refused empties the table
  (tcb.c:127, tcb.c:142). `LookupTerminates` fails with RAddrs = {0, 3}
  (see the `table` run).
- A short write() loses bytes (`RelayedInOrder`, WriteResults with
  "partial").
- EAGAIN orphans the write event (`HandlesMatchEvents`).
- An NA without a link-layer option makes an INCOMPLETE neighbour
  REACHABLE at an uninitialised address (NaOpts with FALSE; no property
  of a run states it).
- A LAST_ACK record is deleted before its FIN was sent
  (`FinSentBeforeLastAckClose`, reliable configuration, `Spec`).
- A lost SYN-ACK is never repaired. `HandshakeCompletes` states the
  narrower requirement (`FairSpec`, Faults = {"loss"}), and the `stall` run
  shows the same defect through `ConnectionReleased`.

## Fairness

`FairSpec` assumes the following.

- **Strong fairness for select reporting each ready fd kind.** The kernel
  reports a ready fd in every select, and event.c walks the whole list.
- **Strong fairness for each registered timer.** Its expiry comes, and the
  loop fires it when no fd is ready, or ahead of time when an always-event
  is pending.
- **Iterations finish (`[]<>(lp = "wait")`).** The fd walk and the
  always-events run without blocking.
- **Weak fairness for the peer and the server.** They keep taking their
  steps.

Loss and duplication carry no fairness: they are faults, bounded by
`MaxFaults`.

### UdpRelay

- State: `ulist` (the maps, newest first, each with an id standing for
  its address), `evRead`/`evStale` (events registered per map), `open`
  (sockets), `rx` (datagrams queued on each socket), `peers` (servers each
  socket sent to), and the tun queue.
- Actions: `handle_udp` (handle_udp, incoming and udp_get_map, one
  callback of the tun read), `handle_udp_read(id)` (recvfrom and
  udp_send), `Stale(id)` (the loop firing the stale timer,
  remove_udp_map, then the loop's remove_event), and the environment's
  `ClientSend` and `ServerReply`.
- The loop is one action per callback: no UDP callback removes an event
  another callback of the same walk visits.
- `handle_udp_read` builds the reply's source from `pfx`, a local array
  that is never written (ptrtd-udp.c:148). The model chooses between the
  prefix and garbage. A server's datagram is its sender and its length
  (`Sizes`), and `udp_send` cuts the length to 1232. The run
  **`udp_reply`** (one client, one server, one reply of 1232 or 1233 bytes)
  checks `ReplyIsServersDatagram`: the client gets the whole datagram, from
  prefix::server. Both defects violate it.
- Fairness: weak fairness on the tun read, each socket read and each
  stale timer. The timer stays registered, and the loop fires it once no
  fd keeps it busy; clients and servers have no fairness.

### NeighborDiscovery

- State:
  - `nb`: nlist, for each address an entry `[state, ll, queue]`. The
    state is ABSENT, INCOMPLETE or REACHABLE.
  - `out`: frames on the link, each a link-layer destination and a
    packet.
  - `inq`: packets from hosts waiting for handle_packet.
  - Ghosts: `nid`, the next packet number, `sentTo` and `delivered`.
- Every C function is an operator on a world `[nb, out, nid, sentTo]`, as
  in TcpRelay. got_neighbor's flush is `FoldLeft(send_pkt, ...)` over the
  queue, in order.
- Actions:
  - `RelaySend`: the TCP and UDP relays emit a packet.
  - `handle_packet`: one packet from the driver, through handle_packet
    and handle_icmp.
  - The environment: `HostSend` (an echo, NS, NA or unknown next header),
    `Deliver` (the link delivers the next frame, and a host answers an NS
    for itself with an NA carrying its address) and `Lose`.
- Run **`nd`** (285k states) uses an ethernet interface, the router and
  one more host, two relay packets, two host messages and one lost
  frame. Hosts answer an NS with an NA that carries their link-layer
  address (NaOpts = {TRUE}), as RFC 4861 requires of an answer to a
  multicast NS. It checks one property besides the type invariant.
  - `DeliveredInOrder`: each host gets the relay's packets in the order
    send_pkt was called for them. That order must survive queueing, the
    flush and direct sends.
- Fairness (`FairSpec`): weak fairness on `handle_packet`, because the
  loop reads the driver's fd whenever it is readable. Weak fairness on
  `Deliver`, because the link and the hosts keep working. None on
  sending or losing.

### Link802ip

The 802ip driver makes a virtual Ethernet out of an IPv4 multicast group.
tap802ipd joins the host's kernel to the same group through a tap device.
`_802ip_send_frame` always sends to the group (`if (1 || ...)`), and
`IP_MULTICAST_LOOP` is set, so every member reads a copy of every frame,
its own included. tap802ipd drops its own copies by source MAC.
`ether_pkt_in` makes the same `memcmp` but ignores the result
(ether.c:90), so the relay handles its own frames.

- State: `hw` (each member's MAC byte, fixed at start), `grp` (the
  datagrams queued on each member's group socket),
  `tap` (frames written to the host's tap), and the connection table of
  `ConnectionTable` (`tree`, `nid`, `last`), whose `tcb_find` and
  `handle_tcp` are used through an INSTANCE. Ghosts: `synacked`, `sent`
  (the host's segments) and `resets` (the RSTs that deleted a record).
  Each frame is also tagged with the member that sent it.
- `Init`: both processes start on the host, in either order. Each runs
  `_802ip_new_if`, whose loop (`bind_port`) binds the lowest port of
  0x6400..0x64ff that is still free. Its low byte becomes `hwaddr[1]`.
  `BindPorts` and `InUse` scale that range down and say which ports other
  processes hold.
- Actions:
  - `RelayRecv`: the relay reads its group socket. `ether_pkt_in`,
    handle_packet and the intake of handle_tcp run, and a segment nobody
    owns (or a non-SYN at the listener) is answered by
    `tcp_fabricate_rst`, sent back to the group.
  - `RelaySynAck`: do_tcb_write sends a new record's SYN-ACK once.
  - `HostSend` (handle_tap_frame), `BridgeRecv` (handle_802ip_frame) and
    `HostRecv`.
- A socket queue holds `QueueCap` datagrams and drops the rest, as a full
  UDP receive buffer does. The router neighbour is taken as reachable.
- Run **`link`** (483k states, about 35 s): one relay address, one host
  address, two ports, two host segments (SYN, ACK or RST), queues of two.
  There are three 802.IP ports and another process holds the middle one.
  It checks one property besides the type invariant:
  - `MacFilterSeparatesMembers`: tap802ipd's source-MAC filter passes every
    relay frame and no host frame. This holds only because the bind loop
    skips ports in use. With a loop that stops at the first port (the
    mutant), both members get the same MAC and the host never hears the
    relay.
- The same reading back makes every unmatched RST answered by another RST
  forever (tcp.c:435 does not exempt RSTs). This is a hazard in
  PROJECT.json, with no run of its own.

## Abstractions

- **Time.** A timer may fire in any iteration. This includes the premature
  firing that event.c allows when an always-event is pending. The RTT
  estimator and the RTO only decide when a timer fires, so they are not
  modelled.
- **Sequence numbers.** They are integers and do not wrap.
- **Connections.** `TcpRelay` has one connection. The table is modelled
  separately in `ConnectionTable`, with the record's TCP state reduced to
  LISTEN or not. The red-black tree, which comes from `rbtree.h` outside
  the repository, is the set of records it holds.
- **Event lists.** `ev` counts the registered events of each kind, and
  `FdOrders` gives the order in which they are visited. The list
  operations themselves are not modelled. The loop reads a visited
  event's `next` after the callback returns, while that event is still
  linked, and no callback both removes its own event and returns nonzero.
  So skipping the events removed earlier in a walk is exactly what the
  linked-list walk does.
- **Data.** Bytes are their offsets. Payload formatting, checksums and IPv6
  headers are left out.

## Not modelled

- The UDP payload bytes and the checksum (its length is modelled, for the
  truncation in udp_send).
- ICMPv6 header and option encoding, checksums (make_cksum in util.c) and
  neighbour-status logging. Packet bytes are abstracted everywhere, so
  udp_send's checksum of 0 for a sum of 0xffff (udp.c:129) is a hazard
  with no property.
- The uml_sw driver, whose switch does not echo frames to their sender,
  and the drivers' socket set-up other than the 802ip bind loop (the
  uml_sw control request, the group join, the tun/tap device).
- ICMPv6 and UDP over the 802.IP loop: the relay's own NS, NA and UDP
  replies also come back to it.
- The HTTP status page, which only reports.
- The command line, configuration file, daemon() and the shell commands
  of init_iface.

See PROJECT.json `components` for the reasons, and `hazards` for what the
present runs do not cover.
