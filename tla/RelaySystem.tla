---------------------------- MODULE RelaySystem ----------------------------
(***************************************************************************)
(* The relay of TcpRelay between its two environments:                     *)
(*   - the IPv6 peer, a plain TCP client that opens the connection, sends *)
(*     PeerBytes bytes within the advertised window, retransmits go-back-N*)
(*     on its own timeout, accepts only in-order data and sends a FIN;    *)
(*   - the IPv6 path between them, which may lose or duplicate segments   *)
(*     (Faults) and, when Reorder, deliver them out of order;             *)
(*   - the IPv4 server, which writes ServerBytes bytes and then closes.   *)
(* The peer and the server are not code of this repository: they are the *)
(* environment, written as small as the properties allow.  Byte k of each *)
(* stream is the value k, so a property can tell which byte went where.   *)
(***************************************************************************)
EXTENDS TcpRelay

CONSTANTS
    PISS,        \* the peer's initial sequence number
    PeerBytes,   \* bytes the peer sends before its FIN
    ServerBytes, \* bytes the server writes before it closes
    PeerWnd,     \* the window the peer advertises
    Faults,      \* subset of {"loss", "dup"}
    MaxFaults    \* bound: segments the path loses or duplicates in a behaviour

VARIABLES
    p,      \* the peer's TCB
    faults  \* segments lost or duplicated so far

vars == <<t, m, ev, isn, lp, ready, toPeer, toRelay, sock, p, faults>>

PeerFinSeq == PISS + 1 + PeerBytes

\* The sequence number of the relay's first data byte, for the first record.
RelayData0 == IsnStep + 1

Max2(a, b) == IF a > b THEN a ELSE b

-----------------------------------------------------------------------------
(* The peer                                                               *)

PeerSyn == Seg(PISS, 0, {"SYN"}, <<>>, PeerWnd)

PeerConnect ==
    /\ p.st = "CLOSED"
    /\ toRelay' = Append(toRelay, PeerSyn)
    /\ p' = [p EXCEPT !.st = "SYN_SENT", !.nxt = PISS + 1, !.max = PISS + 1]
    /\ UNCHANGED <<relayVars, toPeer, sock, faults>>

\* Send n bytes from nxt, a FIN after the last byte, or a bare ACK.
PeerSend ==
    /\ p.st = "EST"
    /\ \E n \in 0..MSS, fin \in BOOLEAN :
         /\ n > 0 => p.nxt + n <= PeerFinSeq /\ p.nxt + n <= p.edge
         /\ fin => p.nxt + n = PeerFinSeq
         /\ n > 0 \/ fin \/ p.needAck
         /\ LET nxt == p.nxt + n + (IF fin THEN 1 ELSE 0)
                data == [i \in 1..n |-> p.nxt - PISS - 1 + i - 1]
            IN  /\ toRelay' = Append(toRelay,
                     Seg(p.nxt, p.rcv, {"ACK"} \cup (IF fin THEN {"FIN"} ELSE {}),
                         data, PeerWnd))
                /\ p' = [p EXCEPT !.nxt = nxt, !.max = Max2(@, nxt),
                                  !.needAck = FALSE]
    /\ UNCHANGED <<relayVars, toPeer, sock, faults>>

PeerRecvSeg(s) ==
    IF "RST" \in s.flags THEN p' = [p EXCEPT !.st = "RESET"]
    ELSE IF p.st = "SYN_SENT"
      THEN IF {"SYN", "ACK"} \subseteq s.flags /\ s.ack = PISS + 1
             THEN p' = [p EXCEPT !.st = "EST", !.una = PISS + 1,
                                 !.rcv = s.seq + 1, !.edge = s.ack + s.wnd,
                                 !.needAck = TRUE]
             ELSE UNCHANGED p
    ELSE IF p.st = "EST"
      THEN LET acked   == "ACK" \in s.flags
               una     == IF acked /\ s.ack > p.una /\ s.ack <= p.max
                            THEN s.ack ELSE p.una
               fin     == "FIN" \in s.flags
               inorder == s.seq = p.rcv /\ "SYN" \notin s.flags
           IN  p' = [p EXCEPT
                       !.una = una, !.nxt = Max2(@, una),
                       !.edge = IF acked THEN Max2(@, s.ack + s.wnd) ELSE @,
                       !.got = IF inorder THEN @ \o s.data ELSE @,
                       !.rcv = IF inorder
                                 THEN @ + Len(s.data) + (IF fin THEN 1 ELSE 0)
                                 ELSE @,
                       !.finRcvd = @ \/ (inorder /\ fin),
                       !.needAck = @ \/ Len(s.data) > 0 \/ fin
                                     \/ "SYN" \in s.flags]
    ELSE UNCHANGED p

PeerRecv ==
    /\ \E i \in IF Reorder THEN DOMAIN toPeer ELSE {1} \cap DOMAIN toPeer :
         /\ toPeer' = RemoveAt(toPeer, i)
         /\ PeerRecvSeg(toPeer[i])
    /\ UNCHANGED <<relayVars, toRelay, sock, faults>>

\* The peer's retransmission timer: the SYN again, or go back to una.  It
\* expires only once the path is empty, as a timeout longer than the
\* round trip does.
PeerTimeout ==
    /\ toPeer = <<>> /\ toRelay = <<>>
    /\ \/ /\ p.st = "SYN_SENT"
          /\ toRelay' = Append(toRelay, PeerSyn)
          /\ UNCHANGED p
       \/ /\ p.st = "EST" /\ p.una < p.max /\ p.nxt # p.una
          /\ p' = [p EXCEPT !.nxt = p.una]
          /\ UNCHANGED toRelay
    /\ UNCHANGED <<relayVars, toPeer, sock, faults>>

-----------------------------------------------------------------------------
(* The IPv4 server and the IPv6 path                                      *)

ServerWrite ==
    /\ sock.written < ServerBytes
    /\ sock' = [sock EXCEPT !.written = @ + 1]
    /\ UNCHANGED <<relayVars, toPeer, toRelay, p, faults>>

ServerClose ==
    /\ sock.written = ServerBytes /\ ~sock.eof
    /\ sock' = [sock EXCEPT !.eof = TRUE]
    /\ UNCHANGED <<relayVars, toPeer, toRelay, p, faults>>

Lose ==
    /\ "loss" \in Faults /\ faults < MaxFaults
    /\ faults' = faults + 1
    /\ \/ \E i \in DOMAIN toPeer : toPeer' = RemoveAt(toPeer, i)
                                   /\ UNCHANGED toRelay
       \/ /\ lp # "fd"
          /\ \E i \in DOMAIN toRelay : toRelay' = RemoveAt(toRelay, i)
          /\ UNCHANGED toPeer
    /\ UNCHANGED <<relayVars, sock, p>>

Duplicate ==
    /\ "dup" \in Faults /\ faults < MaxFaults
    /\ faults' = faults + 1
    /\ \/ \E i \in DOMAIN toPeer : toPeer' = Append(toPeer, toPeer[i])
                                   /\ UNCHANGED toRelay
       \/ \E i \in DOMAIN toRelay : toRelay' = Append(toRelay, toRelay[i])
                                    /\ UNCHANGED toPeer
    /\ UNCHANGED <<relayVars, sock, p>>

-----------------------------------------------------------------------------

Init ==
    /\ RelayInit
    /\ toPeer = <<>> /\ toRelay = <<>>
    /\ sock = [written |-> 0, eof |-> FALSE, rd |-> 0, recv |-> <<>>]
    /\ p = [st |-> "CLOSED", una |-> PISS, nxt |-> PISS, max |-> PISS,
            rcv |-> 0, edge |-> 0, needAck |-> FALSE, got |-> <<>>,
            finRcvd |-> FALSE]
    /\ faults = 0

Next ==
    \/ /\ RelayNext /\ UNCHANGED <<p, faults>>
    \/ PeerConnect \/ PeerSend \/ PeerRecv \/ PeerTimeout
    \/ ServerWrite \/ ServerClose \/ Lose \/ Duplicate

Spec == Init /\ [][Next]_vars

\* A select that reports callback k among the ready ones.
SelectReporting(k) ==
    Select /\ (\E i \in DOMAIN ready' : ready'[i] = k) /\ UNCHANGED <<p, faults>>

\* event_loop never stops: select returns every fd that stays ready and a
\* registered timer expires (both only between iterations, hence strong
\* fairness), and each iteration walks the fd and always lists to the end
\* (FdVisit and Always are the loop's own sequential steps, enabled until
\* the iteration is over).  The peer delivers, acknowledges and
\* retransmits, and the server writes and closes, as the TCP stacks on
\* both sides do.
Fairness ==
    /\ \A k \in FdKinds : SF_vars(SelectReporting(k))
    /\ \A k \in TimerKinds : SF_vars(FireTimer(k) /\ UNCHANGED <<p, faults>>)
    /\ []<>(lp = "wait")
    /\ WF_vars(PeerConnect) /\ WF_vars(PeerSend) /\ WF_vars(PeerRecv)
    /\ WF_vars(PeerTimeout)
    /\ WF_vars(ServerWrite) /\ WF_vars(ServerClose)

FairSpec == Spec /\ Fairness

-----------------------------------------------------------------------------
(* Properties                                                             *)

Byte == Int \cup {Stale}
Bufs == [size : {BufSize}, w_seq : Int, data : Seq(Byte)]
Segs == [seq : Int, ack : Int, flags : SUBSET {"SYN", "ACK", "FIN", "RST"},
         data : Seq(Byte), wnd : Nat]

TypeOK ==
    /\ t.state \in States /\ t.inbuf \in Bufs /\ t.outbuf \in Bufs
    /\ {t.snd_una, t.snd_nxt, t.snd_max, t.rcv_nxt, t.last_acked,
        t.read_seq, t.rtt_mark, t.rtt_limit, t.timeout_mark} \subseteq Int
    /\ t.cb \in BOOLEAN /\ t.e_tcb_send \in BOOLEAN
    /\ t.e_timeout \in TimerKinds \cup {NoEvent}
    /\ m.alive \in BOOLEAN /\ m.e_fd_read \in BOOLEAN
    /\ m.e_fd_write \in {"fd_write", "fd_connect", NoEvent}
    /\ ev \in [EventKinds -> Nat]
    /\ lp \in {"wait", "fd", "always"} /\ ready \in Seq(FdKinds)
    /\ toPeer \in Seq(Segs) /\ toRelay \in Seq(Segs)
    /\ sock.recv \in Seq(Byte) /\ sock.rd \in 0..sock.written
    /\ p.st \in {"CLOSED", "SYN_SENT", "EST", "RESET"}

\* The IPv4 server receives a prefix of the peer's stream: no byte lost,
\* repeated or moved, whatever segments the interface handed over and
\* however the bridge's writes went (handle_tcp, tcp_recv_data, tcp_read,
\* handle_fd_can_write).
RelayedInOrder ==
    \A i \in DOMAIN sock.recv : sock.recv[i] = i - 1

\* Every segment the relay has put on the path carries, at each sequence
\* number, the server's byte for that number, retransmissions included
\* (tcp_send_and_ack reading the send buffer after acks advanced it,
\* retransmission timeouts rewound snd_nxt, and the bridge appended to it).
SegmentsCarryServerBytes ==
    \A j \in DOMAIN toPeer :
      \A i \in DOMAIN toPeer[j].data :
        toPeer[j].data[i] = toPeer[j].seq - RelayData0 + i - 1

\* Refinement: each direction of the relay implements ByteStream.  The
\* peer's stream is what it has sent, the server's what it has written;
\* the sinks are the server's socket and the peer's in-order data.
PeerOffered == MinOf(Max2(p.max - PISS - 1, 0), PeerBytes)
ToServer == INSTANCE ByteStream WITH N <- PeerBytes, offered <- PeerOffered,
                                     delivered <- sock.recv
ToPeer == INSTANCE ByteStream WITH N <- ServerBytes, offered <- sock.written,
                                   delivered <- p.got

\* The bytes the IPv4 server receives form the peer's stream, delivered
\* in order as it is sent: handle_tcp, tcp_recv_data, tcp_read and
\* handle_fd_can_write together never lose, repeat, invent or reorder one.
PeerStreamRefined == ToServer!Spec

\* The bytes the peer accepts form the server's stream, in order as it is
\* written: handle_fd_can_read, tcp_send, ack processing and go-back-N
\* retransmission never put a wrong byte at the peer's next sequence number.
ServerStreamRefined == ToPeer!Spec

\* Each registered callback is the one its owner's handle points to, and
\* each handle points to a registered callback: no event outlives the
\* handle through which its owner would remove it (it would run on a freed
\* record or map), and no handle is left pointing to a removed event
\* (mark_for_if_write, output_space and can_read would never rearm).
HandlesMatchEvents ==
    /\ ev["tcb_send"] = IF t.e_tcb_send THEN 1 ELSE 0
    /\ \A k \in TimerKinds : ev[k] = IF t.e_timeout = k THEN 1 ELSE 0
    /\ ev["fd_read"] = IF m.e_fd_read THEN 1 ELSE 0
    /\ \A k \in {"fd_write", "fd_connect"} :
         ev[k] = IF m.e_fd_write = k THEN 1 ELSE 0

\* The record calls the bridge (t->cb set) only while the map is alive, and
\* the map lives only as long as the record its tcb pointer names.
RecordAndMapLinked ==
    /\ t.cb => m.alive
    /\ m.alive => t.state # "CLOSED"

\* The handshake completes: a peer whose SYN the relay accepted (with the
\* IPv4 connect succeeding) eventually hears the SYN-ACK, sent once by
\* do_tcb_write after tcp_accept, and leaves SYN_SENT.
HandshakeCompletes ==
    <>(p.st \in {"EST", "RESET"})

\* The relay lets go of the connection: in every fair behaviour, whatever
\* the peer and the server do, the record and the bridge's map are
\* eventually freed for good (by the last acknowledgment, the TIME_WAIT
\* timer tcp_remove, an RST or a socket error), so neither leaks.
ConnectionReleased ==
    <>[](t.state = "CLOSED" /\ ~m.alive)

\* Peer bytes whose acknowledgment the peer has received.
AckedPeerBytes == MinOf(p.una - PISS - 1, PeerBytes)

\* Once the bridge has let go of the IPv4 socket while the server was
\* still there, every byte the relay acknowledged to the peer has been
\* written to it: acknowledged data is never dropped by the close paths
\* (closing -> kill_map on the peer's FIN, tcp_close on a read error).
PeerDataWritten ==
    ~m.alive /\ ~sock.eof => Len(sock.recv) >= AckedPeerBytes

\* The send sequence variables are ordered (spec: snd_una <= snd_nxt <=
\* snd_max after every processed segment).
SndSeqOrdered ==
    t.state \notin {"CLOSED", "SYN_RECVD"} =>
        t.snd_una <= t.snd_nxt /\ t.snd_nxt <= t.snd_max

\* While the bridge takes the payload, the receive buffer's write sequence
\* is rcv_nxt (spec, data model of the connection record).
InbufTracksRcvNxt ==
    t.state \in {"SYN_RECVD", "ESTABLISHED"} => t.inbuf.w_seq = t.rcv_nxt

\* A record in LAST_ACK is freed by an acknowledgment only after its FIN
\* was sent (snd_nxt one past the send buffer's data), unless an RST
\* removed it.
RstDelivered == \E i \in DOMAIN toRelay :
                   /\ "RST" \in toRelay[i].flags
                   /\ toRelay' = RemoveAt(toRelay, i)
FinSentBeforeLastAckClose ==
    [][t.state = "LAST_ACK" /\ t'.state = "CLOSED" /\ ~RstDelivered
         => t.snd_nxt = t.outbuf.w_seq + 1]_vars
=============================================================================
