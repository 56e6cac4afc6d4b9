------------------------------ MODULE TcpRelay ------------------------------
(***************************************************************************)
(* One inbound connection of the TCP relay: the connection record and the *)
(* TCP engine of tcp.c / tcb.c, the session bridge of ptrtd-tcp.c that    *)
(* couples it to a native IPv4 socket, and the iteration structure of     *)
(* event_loop in event.c that runs their callbacks.                       *)
(*                                                                         *)
(* The engine and the bridge call each other (tcp_close from the bridge,  *)
(* the tcp_callback set from the engine), so each C function is an        *)
(* operator on a "world" record W = [t, m, ev, out]:                       *)
(*   t   the struct tcb (state "CLOSED" when the record does not exist),  *)
(*   m   the struct tcp_map of the bridge,                                *)
(*   ev  the registered events: a count per kind of callback,            *)
(*   out the IPv6 segments handed to send_pkt during the step.            *)
(* A callback is the composition of these operators in the order of the   *)
(* C statements, and one action applies it to the variables.              *)
(***************************************************************************)
EXTENDS Integers, Sequences, FiniteSets

CONSTANTS
    MSS,        \* t->mss (1220 in handle_tcp)
    BufSize,    \* capacity of each ringbuf (16 * 1024 in handle_tcp)
    DrainWnd,   \* rcv_wnd set by tcp_close (1000)
    IsnStep,    \* next_isn returns (++isn) << 16
    NoEvent,    \* a NULL struct event pointer
    Stale,      \* content of ring-buffer bytes that were never written
    MaxConns,   \* bound: records the listener may create in one behaviour
    Reorder,    \* TRUE: the virtual interface may deliver segments out of order
    ConnectResults, \* outcomes of socket()+connect() in incoming
    WriteResults    \* outcomes of write() on the IPv4 socket

ASSUME MSS \in Nat \ {0} /\ BufSize \in Nat \ {0} /\ DrainWnd \in Nat

RB == INSTANCE Ringbuf

VARIABLES
    t,        \* the connection record
    m,        \* the bridge's struct tcp_map
    ev,       \* registered events of event.c's three lists, by callback
    isn,      \* the static counter of next_isn
    lp,       \* where event_loop is in its iteration
    ready,    \* fd callbacks still to visit in this iteration, in list order
    toPeer,   \* IPv6 segments on their way to the peer
    toRelay,  \* IPv6 segments on their way to the relay's interface
    sock      \* the IPv4 stream: [written, eof] by the server, [rd] by the
              \* bridge, recv = the bytes the bridge wrote to it

relayVars == <<t, m, ev, isn, lp, ready>>

States == {"CLOSED", "LISTEN", "SYN_SENT", "SYN_RECVD", "ESTABLISHED",
           "FIN_WAIT_1", "FIN_WAIT_2", "CLOSE_WAIT", "CLOSING", "LAST_ACK",
           "TIME_WAIT"}

\* Callbacks that can be registered: do_tcb_write (always list), tcp_timeout
\* and tcp_remove (time list), and the fd callbacks; "tun" is the read
\* callback of the virtual interface, registered once at start-up.
TimerKinds  == {"rexmit", "remove"}
FdKinds     == {"fd_read", "fd_write", "fd_connect", "tun"}
EventKinds  == {"tcb_send"} \cup TimerKinds \cup FdKinds

\* A segment: flags is a subset of {"SYN","ACK","FIN","RST"} (PSH and the
\* MSS option carry nothing the model distinguishes), data the payload.
Seg(seq, ack, flags, data, wnd) ==
    [seq |-> seq, ack |-> ack, flags |-> flags, data |-> data, wnd |-> wnd]

\* The memset-zero record; also what a deleted record is.
NoTcb == [state |-> "CLOSED", snd_una |-> 0, snd_nxt |-> 0, snd_wnd |-> 0,
          snd_cwnd |-> 0, snd_max |-> 0, iss |-> 0, rcv_nxt |-> 0,
          rcv_wnd |-> 0, irs |-> 0, last_acked |-> 0, timeout_mark |-> 0,
          rtt_mark |-> 0, rtt_limit |-> 0, read_seq |-> 0,
          inbuf |-> RB!rb_new(BufSize), outbuf |-> RB!rb_new(BufSize),
          cb |-> FALSE, e_tcb_send |-> FALSE, e_timeout |-> NoEvent]

NoMap == [alive |-> FALSE, e_fd_read |-> FALSE, e_fd_write |-> NoEvent]

MinOf(a, b) == IF a < b THEN a ELSE b

-----------------------------------------------------------------------------
(* Event registration (new_event and add_*_event; remove_event with        *)
(* del_event).  ev counts the events of each kind in the lists; where an   *)
(* event sits is abstracted: resched_time_event's insertion by expiry time *)
(* with time itself (FireTimer may fire any registered timer), the head    *)
(* insertion of add_fd_event by FdOrders.  remove_event on an event that   *)
(* is no longer linked relinks its old neighbours, which are already       *)
(* linked to each other, and so leaves the lists as they are.              *)

AddEv(w, k) == [w EXCEPT !.ev[k] = @ + 1]
RemEv(w, k) == [w EXCEPT !.ev[k] = IF @ > 0 THEN @ - 1 ELSE 0]

\* The events a record's handles point to, removed before tcb_delete.
RemoveTcbEvents(w) ==
    LET w1 == IF w.t.e_tcb_send THEN RemEv(w, "tcb_send") ELSE w
    IN  IF w1.t.e_timeout # NoEvent THEN RemEv(w1, w1.t.e_timeout) ELSE w1

tcb_delete(w) == [w EXCEPT !.t = NoTcb]

-----------------------------------------------------------------------------
(* Segment emission and window arithmetic (tcp.c)                         *)

mark_for_if_write(w) ==
    IF w.t.e_tcb_send THEN w
    ELSE [AddEv(w, "tcb_send") EXCEPT !.t.e_tcb_send = TRUE]

\* Seeded fault: the header's sequence number one past snd_nxt.
make_tcp_hdr_seq_ahead(w, data, flags) ==
    [w EXCEPT !.out = Append(@, Seg(w.t.snd_nxt + 1, w.t.rcv_nxt, flags, data,
                                    w.t.rcv_wnd)),
              !.t.last_acked = w.t.rcv_nxt]

\* send_pkt on the tun (hwaddr_len = 0: no neighbour lookup), tun_send and
\* tuntap_do_send: the packet is written to the tun device.  A failed
\* write returns -1, which no caller looks at: the segment is lost, as
\* one the network drops.
tun_send(w, seg) == [w EXCEPT !.out = Append(@, seg)]

\* make_tcp_hdr + send_pkt: seq snd_nxt, ack rcv_nxt, window rcv_wnd; every
\* segment sent records rcv_nxt as acknowledged.
make_tcp_hdr(w, data, flags) ==
    [tun_send(w, Seg(w.t.snd_nxt, w.t.rcv_nxt, flags, data, w.t.rcv_wnd))
        EXCEPT !.t.last_acked = w.t.rcv_nxt]

window_size(tc) == tc.snd_max - tc.snd_nxt

window_update(tc) ==
    LET c1 == IF tc.snd_cwnd = 0 THEN MSS ELSE tc.snd_cwnd
        c2 == IF c1 > tc.snd_wnd THEN tc.snd_wnd ELSE c1
    IN  [tc EXCEPT !.snd_cwnd = c2, !.snd_max = tc.snd_una + c2]

\* set_timeout: the RTO value (srtt + 4 sdev clamped to [500, 30000] ms)
\* only decides when the timer fires, which the model leaves open.
set_timeout(w) ==
    [AddEv(w, "rexmit") EXCEPT !.t.e_timeout = "rexmit",
                               !.t.timeout_mark = w.t.snd_nxt]

tcp_send_rst(w) == make_tcp_hdr(w, <<>>, {"RST", "ACK"})

tcp_send_syn(w) ==
    [make_tcp_hdr(w, <<>>, {"SYN", "ACK"}) EXCEPT !.t.snd_nxt = @ + 1]

\* tcp_fabricate_rst: answer a segment nobody owns; seq is its ack field.
tcp_fabricate_rst(w, s) ==
    tun_send(w, Seg(s.ack, s.seq + 1, {"RST", "ACK"}, <<>>, 0))

ClosingStates == {"FIN_WAIT_1", "CLOSING", "LAST_ACK"}

\* tcp_send_and_ack: one segment of at most min(MSS, window, buffered)
\* bytes, a FIN when closing and the buffer is drained, or a bare ACK when
\* rcv_nxt has not been acknowledged yet.  Returns the world and whether
\* the marker must stay armed.
tcp_send_and_ack(w) ==
    LET tc   == w.t
        wnd  == window_size(tc)
        av   == RB!rb_avail(tc.outbuf, tc.snd_nxt)
        want == IF wnd > 0 /\ av > 0 THEN MinOf(MinOf(av, MSS), wnd) ELSE 0
        data == IF want > 0 THEN RB!rb_read(tc.outbuf, tc.snd_nxt, want)
                            ELSE <<>>
        len  == Len(data)
        fin  == /\ wnd > 0 /\ len < wnd
                /\ RB!rb_avail(tc.outbuf, tc.snd_nxt + len) = 0
                /\ tc.state \in ClosingStates
    IN  IF len = 0 /\ ~fin /\ tc.last_acked >= tc.rcv_nxt
          THEN [w |-> w, again |-> FALSE]
          ELSE
            LET w1  == IF tc.e_timeout = NoEvent /\ len > 0
                         THEN set_timeout(w) ELSE w
                w2  == IF len > 0 /\ tc.rtt_mark < tc.snd_una
                              /\ tc.snd_nxt >= tc.rtt_limit
                         THEN [w1 EXCEPT !.t.rtt_mark = tc.snd_nxt] ELSE w1
                w3  == make_tcp_hdr(w2, data,
                                    IF fin THEN {"ACK", "FIN"} ELSE {"ACK"})
                nxt == tc.snd_nxt + len + (IF fin THEN 1 ELSE 0)
                w4  == [w3 EXCEPT !.t.snd_nxt = nxt,
                                  !.t.rtt_limit = IF @ < nxt THEN nxt ELSE @]
                t4  == w4.t
                a4  == RB!rb_avail(t4.outbuf, t4.snd_nxt)
            IN  [w |-> w4,
                 again |-> CASE t4.state = "ESTABLISHED" ->
                                    window_size(t4) > 0 /\ a4 > 0
                             [] t4.state \in ClosingStates ->
                                    window_size(t4) > 0 /\ a4 > -1
                             [] OTHER -> FALSE]

-----------------------------------------------------------------------------
(* The bridge's tcp_callback set and kill_map (ptrtd-tcp.c)               *)

\* Seeded fault: kill_map forgetting to remove the read event.
kill_map_keep_read(w) ==
    LET w1 == IF w.m.e_fd_write # NoEvent THEN RemEv(w, w.m.e_fd_write) ELSE w
    IN  [w1 EXCEPT !.m = NoMap]

\* kill_map: close the socket, remove the events the map's handles point
\* to, free the map.
kill_map(w) ==
    LET w1 == IF w.m.e_fd_write # NoEvent THEN RemEv(w, w.m.e_fd_write) ELSE w
        w2 == IF w1.m.e_fd_read THEN RemEv(w1, "fd_read") ELSE w1
    IN  [w2 EXCEPT !.m = NoMap]

\* output_space: arm the socket read callback unless armed.
output_space(w, space) ==
    IF space > 0 /\ ~w.m.e_fd_read
      THEN [AddEv(w, "fd_read") EXCEPT !.m.e_fd_read = TRUE]
      ELSE w

\* can_read (the data_available callback): arm the socket write callback.
can_read(w) ==
    IF w.m.e_fd_write = NoEvent
      THEN [AddEv(w, "fd_write") EXCEPT !.m.e_fd_write = "fd_write"]
      ELSE w

\* closing: unconditionally kill the map, whatever is still buffered.
closing(w) == kill_map(w)

-----------------------------------------------------------------------------
(* Connection close and segment intake (tcp.c)                            *)

\* Seeded fault: tcp_accept that does not arm the sender.
tcp_accept_no_mark(w) == w

tcp_accept(w) == mark_for_if_write(w)

\* tcp_close: hard, or still in SYN_RECVD: RST and free the record; else
\* drop the callbacks, open the window to let the peer drain, and close.
tcp_close(w, hard) ==
    IF hard \/ w.t.state = "SYN_RECVD"
      THEN tcb_delete(RemoveTcbEvents(tcp_send_rst(w)))
      ELSE mark_for_if_write(
             [w EXCEPT !.t.cb = FALSE, !.t.rcv_wnd = DrainWnd,
                       !.t.state = IF @ = "ESTABLISHED" THEN "FIN_WAIT_1"
                                                        ELSE "LAST_ACK"])

\* Seeded fault: a remote close that does not tell the bridge.
tcp_remote_close_silent(w) == tcp_close(w, FALSE)

tcp_remote_close(w) ==
    tcp_close(IF w.t.cb THEN closing(w) ELSE w, FALSE)

\* tcp_recv_data: payload is taken as the next bytes, whatever its seq;
\* rcv_nxt advances by the payload length even when rb_write stores less.
tcp_recv_data(w, s) ==
    LET dlen == Len(s.data)
        wa   == mark_for_if_write([w EXCEPT !.t.rcv_nxt = @ + dlen])
        ib   == RB!rb_write(wa.t.inbuf, s.data)
        w1   == IF dlen = 0 THEN w
                ELSE IF ~wa.t.cb THEN wa
                ELSE can_read([wa EXCEPT !.t.inbuf = ib,
                                         !.t.rcv_wnd = RB!rb_left(ib)])
    IN  IF "FIN" \in s.flags
          THEN mark_for_if_write([w1 EXCEPT !.t.rcv_nxt = @ + 1])
          ELSE w1

\* The part of handle_tcp for an ack that is above snd_una.  The RTT
\* sample it may take (srtt, sdev) only feeds the RTO, whose value the
\* model leaves open.
ack_advance(w, ack) ==
    LET w1 == [w EXCEPT !.t.snd_una = ack,
                        !.t.snd_nxt = IF ack > @ THEN ack ELSE @]
        ob == RB!rb_advance(w1.t.outbuf, ack)
        w2 == IF w1.t.state = "ESTABLISHED"
                THEN output_space([w1 EXCEPT !.t.outbuf = ob], RB!rb_left(ob))
                ELSE w1
        t2 == w2.t
    IN  IF /\ t2.state \in {"ESTABLISHED"} \cup ClosingStates
           /\ t2.e_timeout # NoEvent /\ ack >= t2.timeout_mark
          THEN LET w3 == RemEv(w2, t2.e_timeout)
                   w4 == IF t2.snd_una < t2.snd_nxt THEN set_timeout(w3)
                         ELSE [w3 EXCEPT !.t.e_timeout = NoEvent]
               IN  [w4 EXCEPT !.t.snd_cwnd = @ + MSS]
          ELSE w2

\* Arm the TIME_WAIT timer (tcp_remove after 120 s); the handle is
\* overwritten whatever it pointed to.
enter_time_wait(w) ==
    [AddEv(w, "remove") EXCEPT !.t.state = "TIME_WAIT", !.t.e_timeout = "remove"]

\* The ACK part of handle_tcp; done means handle_tcp returned.
ack_part(w, s) ==
    LET wA == IF s.ack > w.t.snd_una THEN ack_advance(w, s.ack) ELSE w
        tA == wA.t
        finAcked == RB!rb_avail(tA.outbuf, tA.snd_nxt) = -1
    IN  IF tA.snd_una # tA.snd_nxt THEN [w |-> wA, done |-> FALSE]
        ELSE CASE tA.state = "SYN_RECVD" ->
                    [w |-> output_space([wA EXCEPT !.t.state = "ESTABLISHED"],
                                        RB!rb_left(tA.outbuf)),
                     done |-> FALSE]
               [] tA.state = "LAST_ACK" ->
                    [w |-> tcb_delete(RemoveTcbEvents(wA)), done |-> TRUE]
               [] tA.state = "FIN_WAIT_1" ->
                    [w |-> IF finAcked THEN [wA EXCEPT !.t.state = "FIN_WAIT_2"]
                                       ELSE wA,
                     done |-> FALSE]
               [] tA.state = "CLOSING" ->
                    [w |-> IF finAcked THEN enter_time_wait(wA) ELSE wA,
                     done |-> TRUE]
               [] OTHER -> [w |-> wA, done |-> FALSE]

\* The rest of handle_tcp after the ACK part: duplicates force an ACK,
\* the peer's window is taken, and payload/FIN are handled per state.
data_part(w, s) ==
    IF s.seq < w.t.rcv_nxt
      THEN IF w.t.state # "SYN_RECVD"
             THEN mark_for_if_write([w EXCEPT !.t.last_acked = @ - 1])
             ELSE w
      ELSE
        LET t1 == [w.t EXCEPT !.snd_wnd = s.wnd]
            t2 == window_update(t1)
            w2 == IF window_size(t1) <= 0 /\ window_size(t2) > 0
                    THEN mark_for_if_write([w EXCEPT !.t = t2])
                    ELSE [w EXCEPT !.t = t2]
            w3 == tcp_recv_data(w2, s)
            fin == "FIN" \in s.flags
        IN  CASE w2.t.state = "FIN_WAIT_2" ->
                   IF fin THEN enter_time_wait(w3) ELSE w3
              [] w2.t.state = "FIN_WAIT_1" ->
                   IF fin THEN [w3 EXCEPT !.t.state = "CLOSING"] ELSE w3
              [] w2.t.state = "ESTABLISHED" ->
                   IF fin THEN tcp_remote_close([w3 EXCEPT !.t.state = "CLOSE_WAIT"])
                          ELSE w3
              [] OTHER -> w2

\* handle_tcp for a segment that found the connection record.
handle_tcp(w, s) ==
    IF "RST" \in s.flags
      THEN tcb_delete(RemoveTcbEvents(IF w.t.cb THEN closing(w) ELSE w))
      ELSE LET a == IF "ACK" \in s.flags THEN ack_part(w, s)
                                         ELSE [w |-> w, done |-> FALSE]
           IN  IF a.done THEN a.w ELSE data_part(a.w, s)

\* incoming (the incoming_session callback): a map, a non-blocking
\* socket and connect(); "fail" is socket() or connect() failing at once.
incoming(w, res) ==
    LET w1 == [w EXCEPT !.m = [alive |-> TRUE, e_fd_read |-> FALSE,
                                e_fd_write |-> NoEvent]]
    IN  CASE res = "fail"       -> kill_map(tcp_close(w1, FALSE))
          [] res = "inprogress" -> [AddEv(w1, "fd_connect")
                                      EXCEPT !.m.e_fd_write = "fd_connect"]
          [] res = "connected"  -> tcp_accept(w1)

\* Seeded fault: the receive buffer started at irs instead of irs + 1.
listen_syn_inbuf_at_irs(w, s, iss, res) ==
    LET tc == window_update(
                [NoTcb EXCEPT !.state = "SYN_RECVD", !.irs = s.seq,
                   !.rcv_wnd = BufSize, !.read_seq = s.seq + 1,
                   !.rcv_nxt = s.seq + 1,
                   !.inbuf = RB!rb_set(RB!rb_new(BufSize), s.seq),
                   !.snd_nxt = iss, !.snd_una = iss, !.iss = iss,
                   !.rtt_mark = iss - 1, !.rtt_limit = iss + 1,
                   !.outbuf = RB!rb_set(RB!rb_new(BufSize), iss + 1),
                   !.snd_cwnd = 0, !.snd_wnd = s.wnd, !.cb = TRUE])
    IN  incoming([w EXCEPT !.t = tc], res)

\* The LISTEN branch of handle_tcp: a pure SYN makes a record in SYN_RECVD
\* with the given iss and two fresh buffers; anything else is answered
\* with a fabricated RST.
listen_syn(w, s, iss, res) ==
    LET tc == window_update(
                [NoTcb EXCEPT !.state = "SYN_RECVD", !.irs = s.seq,
                   !.rcv_wnd = BufSize, !.read_seq = s.seq + 1,
                   !.rcv_nxt = s.seq + 1,
                   !.inbuf = RB!rb_set(RB!rb_new(BufSize), s.seq + 1),
                   !.snd_nxt = iss, !.snd_una = iss, !.iss = iss,
                   !.rtt_mark = iss - 1, !.rtt_limit = iss + 1,
                   !.outbuf = RB!rb_set(RB!rb_new(BufSize), iss + 1),
                   !.snd_cwnd = 0, !.snd_wnd = s.wnd, !.cb = TRUE])
    IN  incoming([w EXCEPT !.t = tc], res)

-----------------------------------------------------------------------------
(* Application side of the engine and the bridge's fd callbacks           *)

tcp_send(w, d) ==
    LET w1 == [w EXCEPT !.t.outbuf = RB!rb_write(@, d)]
    IN  IF window_size(w1.t) > 0 THEN mark_for_if_write(w1) ELSE w1

\* Seeded fault: tcp_read that does not move read_seq past what it read.
tcp_read_no_advance(w) ==
    LET tc   == w.t
        data == RB!rb_read(tc.inbuf, tc.read_seq,
                           RB!rb_avail(tc.inbuf, tc.read_seq))
    IN  [w |-> w, data |-> data]

\* tcp_read of everything available (the bridge asks for 65536 bytes);
\* a read that unblocks a full buffer forces a window update.
tcp_read(w) ==
    LET tc      == w.t
        blocked == RB!rb_left(tc.inbuf) = 0
        data    == RB!rb_read(tc.inbuf, tc.read_seq,
                              RB!rb_avail(tc.inbuf, tc.read_seq))
        rs      == tc.read_seq + Len(data)
        ib      == RB!rb_advance(tc.inbuf, rs)
        w1      == [w EXCEPT !.t.read_seq = rs, !.t.inbuf = ib,
                             !.t.rcv_wnd = RB!rb_left(ib)]
    IN  [w |-> IF blocked
                 THEN mark_for_if_write([w1 EXCEPT !.t.last_acked = @ - 1])
                 ELSE w1,
         data |-> data]

\* handle_fd_can_read, given what read() returned (<<>> is end of file).
\* keep is the callback's return value.
handle_fd_can_read(w, rd) ==
    IF RB!rb_left(w.t.outbuf) = 0 THEN [w |-> w, keep |-> FALSE]
    ELSE IF rd = <<>>
      THEN [w |-> kill_map(tcp_close([w EXCEPT !.m.e_fd_read = FALSE], FALSE)),
            keep |-> FALSE]
    ELSE LET w1 == tcp_send(w, rd)
         IN  IF RB!rb_left(w1.t.outbuf) = 0
               THEN [w |-> [w1 EXCEPT !.m.e_fd_read = FALSE], keep |-> FALSE]
               ELSE [w |-> w1, keep |-> TRUE]

\* handle_fd_can_write: read all of the receive buffer, then write() it;
\* res/n is write()'s result: ["ok", n bytes], ["error"] or ["eagain"].
\* Bytes beyond n are not written anywhere.
handle_fd_can_write(w, res, n) ==
    LET r  == tcp_read(w)
        w1 == [r.w EXCEPT !.m.e_fd_write = NoEvent]
    IN  CASE res = "eagain"        -> [w |-> w1, keep |-> TRUE, sent |-> <<>>]
          [] res = "ok" /\ n > 0   -> [w |-> w1, keep |-> FALSE,
                                       sent |-> SubSeq(r.data, 1, n)]
          [] OTHER                 -> [w |-> kill_map(tcp_close(w1, FALSE)),
                                       keep |-> FALSE, sent |-> <<>>]

handle_fd_did_connect(w, ok) ==
    LET w1 == [w EXCEPT !.m.e_fd_write = NoEvent]
    IN  IF ok THEN tcp_accept(w1) ELSE kill_map(tcp_close(w1, FALSE))

-----------------------------------------------------------------------------
(* Callbacks the scheduler runs for the engine                            *)

do_tcb_write(w) ==
    IF w.t.state = "SYN_RECVD"
      THEN [tcp_send_syn(w) EXCEPT !.t.e_tcb_send = FALSE]
      ELSE LET r == tcp_send_and_ack(w)
           IN  IF r.again THEN r.w ELSE [r.w EXCEPT !.t.e_tcb_send = FALSE]

\* tcp_timeout: go back to snd_una, exclude the resent range from RTT
\* sampling, collapse the congestion window, and arm the sender.
tcp_timeout(w) ==
    LET tc == w.t
    IN  mark_for_if_write(
          [w EXCEPT !.t = window_update([tc EXCEPT !.e_timeout = NoEvent,
                                          !.snd_nxt = tc.snd_una,
                                          !.rtt_mark = tc.snd_una - 1,
                                          !.snd_cwnd = 0])])

tcp_remove(w) == tcb_delete(RemoveTcbEvents(w))

-----------------------------------------------------------------------------
(* event_loop (event.c): one iteration either fires the earliest timer    *)
(* (the select timed out, or was skipped because the timer is due, or was *)
(* given a zero timeout because an always event is pending) or visits the *)
(* fd list once, calling each callback whose fd select reported ready;    *)
(* then it calls every always callback once.  A callback returning 0 has  *)
(* its event removed; a timer is removed after it fires.  When a timer    *)
(* is due is left open: the model fires it in any iteration.              *)

W0 == [t |-> t, m |-> m, ev |-> ev, out |-> <<>>]

Commit(w) == /\ t' = w.t /\ m' = w.m /\ ev' = w.ev
             /\ toPeer' = toPeer \o w.out

\* Seeded fault: the loop removing the fired event even when its callback
\* already did.
UnlinkAgain(w0, w, k) == [w EXCEPT !.ev[k] = @ - 1]

\* Remove the event of kind k that was just run, unless its callback
\* already unlinked it through a handle.
Unlink(w0, w, k) == IF w.ev[k] < w0.ev[k] THEN w ELSE RemEv(w, k)

FdReady(k) ==
    CASE k = "tun"     -> toRelay # <<>>
      [] k = "fd_read" -> sock.rd < sock.written \/ sock.eof
      [] OTHER         -> TRUE

\* add_fd_event pushes at the head, so the bridge's events, registered
\* after the interface's, are visited before it; the order among the
\* bridge's own events is left open.
FdOrders(R) ==
    LET M == R \ {"tun"}
        perms == {f \in [1..Cardinality(M) -> M] :
                    \A i, j \in DOMAIN f : i # j => f[i] # f[j]}
    IN  {f \o (IF "tun" \in R THEN <<"tun">> ELSE <<>>) : f \in perms}

Select ==
    /\ lp = "wait"
    /\ \E R \in SUBSET {k \in FdKinds : ev[k] > 0 /\ FdReady(k)} \ {{}} :
         \E o \in FdOrders(R) : ready' = o
    /\ lp' = "fd"
    /\ UNCHANGED <<t, m, ev, isn, toPeer, toRelay, sock>>

FireTimer(k) ==
    /\ lp = "wait" /\ ev[k] > 0 /\ t.state # "CLOSED"
    /\ Commit(Unlink(W0, IF k = "rexmit" THEN tcp_timeout(W0)
                                         ELSE tcp_remove(W0), k))
    /\ lp' = "always"
    /\ UNCHANGED <<isn, ready, toRelay, sock>>

\* The segments the interface may hand over next.
Deliverable == IF Reorder THEN DOMAIN toRelay ELSE {1} \cap DOMAIN toRelay

RemoveAt(sq, i) == SubSeq(sq, 1, i - 1) \o SubSeq(sq, i + 1, Len(sq))

\* next_isn: (++isn) << 16; i is the counter before the increment.  The
\* 32-bit wrap after 65536 connections is beyond MaxConns and beyond
\* TLC's integers.
next_isn(i) == (i + 1) * IsnStep

\* tun_read_callback -> handle_packet -> handle_tcp, for one segment.  A
\* segment select reported on the tun fd is in the kernel's queue, so the
\* read succeeds (tuntap_do_read exits the program if it fails).
Tun ==
    \E i \in Deliverable :
      LET s == toRelay[i] IN
      /\ toRelay' = RemoveAt(toRelay, i)
      /\ IF t.state # "CLOSED"
           THEN Commit(handle_tcp(W0, s)) /\ UNCHANGED isn
         ELSE IF s.flags = {"SYN"}
           THEN /\ isn < MaxConns
                /\ isn' = isn + 1
                /\ \E res \in ConnectResults :
                     Commit(listen_syn(W0, s, next_isn(isn), res))
         ELSE Commit(tcp_fabricate_rst(W0, s)) /\ UNCHANGED isn
      /\ UNCHANGED sock

\* The socket's read callback; read() returns between one byte and what
\* fits, or end of file (<<>>): select reported the socket readable and
\* only this callback consumes it, so it has data or is at end of file.
FdRead ==
    LET left == RB!rb_left(t.outbuf)
        rds  == IF left > 0 /\ sock.rd < sock.written
                  THEN {[i \in 1..n |-> sock.rd + i - 1] :
                          n \in 1..MinOf(left, sock.written - sock.rd)}
                  ELSE {<<>>}
    IN  \E rd \in rds :
          LET r == handle_fd_can_read(W0, rd) IN
          /\ Commit(IF r.keep THEN r.w ELSE Unlink(W0, r.w, "fd_read"))
          /\ sock' = [sock EXCEPT !.rd = @ + Len(rd)]
          /\ UNCHANGED <<isn, toRelay>>

\* write() results for a buffer of L bytes.
WriteChoices(L) ==
    (IF "full" \in WriteResults THEN {[res |-> "ok", n |-> L]} ELSE {})
    \cup (IF "partial" \in WriteResults
            THEN {[res |-> "ok", n |-> k] : k \in 1..(L - 1)} ELSE {})
    \cup (IF "error" \in WriteResults /\ sock.eof
            THEN {[res |-> "error", n |-> 0]} ELSE {})
    \cup (IF "eagain" \in WriteResults THEN {[res |-> "eagain", n |-> 0]}
                                       ELSE {})

FdWrite ==
    \E c \in WriteChoices(Len(tcp_read(W0).data)) :
      LET r == handle_fd_can_write(W0, c.res, c.n) IN
      /\ Commit(IF r.keep THEN r.w ELSE Unlink(W0, r.w, "fd_write"))
      /\ sock' = [sock EXCEPT !.recv = @ \o r.sent]
      /\ UNCHANGED <<isn, toRelay>>

FdConnect ==
    \E ok \in {TRUE} \cup (IF "fail" \in ConnectResults THEN {FALSE} ELSE {}) :
      /\ Commit(Unlink(W0, handle_fd_did_connect(W0, ok), "fd_connect"))
      /\ UNCHANGED <<isn, toRelay, sock>>

\* Visit the next fd event of this iteration's list walk; one removed
\* earlier in the walk is no longer linked and is skipped.
FdVisit ==
    /\ lp = "fd" /\ ready # <<>>
    /\ ready' = Tail(ready)
    /\ lp' = IF Tail(ready) = <<>> THEN "always" ELSE "fd"
    /\ LET k == Head(ready) IN
       IF ev[k] = 0 THEN UNCHANGED <<t, m, ev, isn, toPeer, toRelay, sock>>
       ELSE CASE k = "tun"        -> Tun
              [] k = "fd_read"    -> FdRead
              [] k = "fd_write"   -> FdWrite
              [] k = "fd_connect" -> FdConnect

\* The always list: do_tcb_write of the record, if armed.
Always ==
    /\ lp = "always"
    /\ lp' = "wait"
    /\ IF ev["tcb_send"] > 0 /\ t.state # "CLOSED"
         THEN LET w == do_tcb_write(W0)
              IN  Commit(IF w.t.e_tcb_send THEN w
                         ELSE Unlink(W0, w, "tcb_send"))
         ELSE UNCHANGED <<t, m, ev, toPeer>>
    /\ UNCHANGED <<isn, ready, toRelay, sock>>

RelayInit ==
    /\ t = NoTcb /\ m = NoMap
    /\ ev = [k \in EventKinds |-> IF k = "tun" THEN 1 ELSE 0]
    /\ isn = 0 /\ lp = "wait" /\ ready = <<>>

RelayNext == Select \/ FdVisit \/ Always \/ \E k \in TimerKinds : FireTimer(k)
=============================================================================
