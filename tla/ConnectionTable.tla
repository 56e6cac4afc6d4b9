--------------------------- MODULE ConnectionTable ---------------------------
(***************************************************************************)
(* The connection table of tcb.c and the intake of tcp.c's handle_tcp that *)
(* uses it: every segment from the tun interface is routed to a record by  *)
(* tcb_find, a SYN that reaches the listening record creates a new record  *)
(* with tcb_new, and records leave the table through tcb_delete.           *)
(*                                                                         *)
(* A record is its identity (laddr, lport, raddr, rport), its state and an *)
(* id that tells two records with the same identity apart.  The TCP state  *)
(* machine behind a record is TcpRelay's; here a record is LISTEN or       *)
(* SYN_RECVD (standing for any later state too) and may be deleted at any  *)
(* time, standing for the close and TIME_WAIT paths that call tcb_delete.  *)
(*                                                                         *)
(* Addresses are naturals ordered as memcmp orders the 16 bytes; 0 is the  *)
(* all-zero address that a NULL argument is replaced by.  The red-black    *)
(* tree (rbtree.h, not part of this repository) is the set of records it   *)
(* holds: its descent in tcb_find_rb and tcb_insert finds the record that  *)
(* compares equal under tcbcmp whenever tcbcmp orders keys, which the      *)
(* invariant TcbcmpOrdersKeys checks on every table the runs reach.       *)
(***************************************************************************)
EXTENDS Integers, FiniteSets

CONSTANTS
    LAddrs,     \* local (destination) addresses: prefix::a.b.c.d
    RAddrs,     \* remote (source) addresses
    Ports,      \* ports seen in segments
    Null,       \* a NULL address pointer
    MaxRecords, \* bound on the records handle_tcp creates
    Depth       \* stack depth at which tcb_find's recursion overflows

ASSUME Null \notin Nat /\ 0 \notin LAddrs

VARIABLES
    tree,       \* the records in tcblist
    orphans,    \* records tcb_new allocated but tcb_insert refused
    nid,        \* the next record id
    last        \* the last segment and the record handle_tcp routed it to

vars == <<tree, orphans, nid, last>>

\* What tcb_find may return besides a record: NULL, or no return at all
\* (the recursion overflowed the stack).  Both have a record's shape.
Sentinel(i) == [id |-> i, laddr |-> 0, lport |-> 0, raddr |-> 0, rport |-> 0,
                state |-> "NONE"]
NoTcb == Sentinel(-1)
Overflow == Sentinel(-2)
Flags == {"SYN", "RST", "ACK"}

Sign(x) == IF x > 0 THEN 1 ELSE IF x < 0 THEN -1 ELSE 0

\* Seeded fault for tcbcmp: a typo comparing the remote port with the
\* local port.
tcbcmp_typo(a, b) ==
    LET rc1 == b.rport - a.lport
    IN  IF rc1 # 0 THEN rc1
        ELSE IF b.lport # a.lport THEN b.lport - a.lport
        ELSE Sign(a.raddr - b.raddr)

\* tcbcmp: ports compared b - a, then the remote address compared twice;
\* the local address never takes part.
tcbcmp(a, b) ==
    LET rc1 == b.rport - a.rport
        rc2 == b.lport - a.lport
        rc3 == Sign(a.raddr - b.raddr)
    IN  IF rc1 # 0 THEN rc1 ELSE IF rc2 # 0 THEN rc2 ELSE rc3

\* tcb_find_rb: the record of the tree that compares equal to the needle.
tcb_find_rb(T, needle) ==
    IF \E r \in T : tcbcmp(needle, r) = 0
      THEN CHOOSE r \in T : tcbcmp(needle, r) = 0
      ELSE NoTcb

\* Seeded fault: the last fallback keeps the local port.
RECURSIVE find_keep_lport(_, _, _, _, _, _)
find_keep_lport(T, la, lp, ra, rp, d) ==
    LET t == tcb_find_rb(T, [laddr |-> IF la = Null THEN 0 ELSE la,
                             lport |-> lp, rport |-> rp,
                             raddr |-> IF ra = Null THEN 0 ELSE ra])
    IN  IF d = 0 THEN Overflow
        ELSE IF t # NoTcb THEN t
        ELSE IF ra = Null THEN find_keep_lport(T, la, lp, Null, 0, d - 1)
        ELSE IF la = Null THEN find_keep_lport(T, Null, lp, Null, 0, d - 1)
        ELSE IF lp > 0 THEN find_keep_lport(T, Null, lp, Null, 0, d - 1)
        ELSE NoTcb

\* tcb_find: exact lookup, then the fallbacks; the recursion is the C
\* stack, which overflows after Depth calls.
RECURSIVE find(_, _, _, _, _, _)
find(T, la, lp, ra, rp, d) ==
    LET needle == [laddr |-> IF la = Null THEN 0 ELSE la, lport |-> lp,
                   raddr |-> IF ra = Null THEN 0 ELSE ra, rport |-> rp]
        t == tcb_find_rb(T, needle)
    IN  IF d = 0 THEN Overflow
        ELSE IF t # NoTcb THEN t
        ELSE IF ra = Null THEN find(T, la, lp, Null, 0, d - 1)
        ELSE IF la = Null THEN find(T, Null, lp, Null, 0, d - 1)
        ELSE IF lp > 0 THEN find(T, Null, 0, Null, 0, d - 1)
        ELSE NoTcb

tcb_find(T, la, lp, ra, rp) == find(T, la, lp, ra, rp, Depth)

\* tcb_insert: refused when a record compares equal (return 0).
tcb_insert(T, r) ==
    IF \E x \in T : tcbcmp(r, x) = 0 THEN T ELSE T \cup {r}

\* Seeded fault: tcb_new with the local and remote arguments swapped.
tcb_new_swapped(i, la, lp, ra, rp) ==
    [id |-> i, laddr |-> IF ra = Null THEN 0 ELSE ra, lport |-> rp,
     raddr |-> IF la = Null THEN 0 ELSE la, rport |-> lp, state |-> "CLOSED"]

\* tcb_new: allocate, fill the identity, insert; the result of tcb_insert
\* is ignored and the record is returned either way.  i is the address
\* ALLOC returns.
tcb_new(i, la, lp, ra, rp) ==
    [id |-> i, laddr |-> IF la = Null THEN 0 ELSE la, lport |-> lp,
     raddr |-> IF ra = Null THEN 0 ELSE ra, rport |-> rp, state |-> "CLOSED"]

\* tcp_listen(&tcp_map_cb, NULL, 0) in ptrtd_tcp_init.
Listener == [tcb_new(0, Null, 0, Null, 0) EXCEPT !.state = "LISTEN"]

Init ==
    /\ tree = {Listener}
    /\ orphans = {}
    /\ nid = 1
    /\ last = [seg |-> [laddr |-> 0, lport |-> 0, raddr |-> 0, rport |-> 0,
                        flag |-> "ACK"],
               to |-> NoTcb]

\* handle_tcp's intake for a segment from raddr:rport to laddr:lport: no
\* record (RST fabricated), the listener (a SYN creates a SYN_RECVD
\* record, anything else is answered by a RST), an RST for a record
\* (deleted), or any other segment (handled by the record's state).
handle_tcp(la, lp, ra, rp, flag) ==
    LET t   == tcb_find(tree, la, lp, ra, rp)
        seg == [laddr |-> la, lport |-> lp, raddr |-> ra, rport |-> rp,
                flag |-> flag]
    IN  /\ last' = [seg |-> seg, to |-> t]
        /\ CASE t \in {NoTcb, Overflow} ->
                  UNCHANGED <<tree, orphans, nid>>
             [] t.state = "LISTEN" /\ flag = "SYN" ->
                  LET n == [tcb_new(nid, la, lp, ra, rp) EXCEPT !.state = "SYN_RECVD"]
                  IN  /\ nid < MaxRecords
                      /\ nid' = nid + 1
                      /\ tree' = tcb_insert(tree, n)
                      /\ orphans' = IF tree' = tree THEN orphans \cup {n}
                                                    ELSE orphans
             [] t.state = "LISTEN" ->
                  UNCHANGED <<tree, orphans, nid>>
             [] flag = "RST" ->
                  /\ tree' = tree \ {t}
                  /\ UNCHANGED <<orphans, nid>>
             [] OTHER ->
                  UNCHANGED <<tree, orphans, nid>>

\* tcb_delete: normal close or TIME_WAIT expiry of a record.  rb_erase
\* unlinks a node of the tree; the node of a record tcb_insert refused is
\* still zeroed by tcb_new's memset (no parent, no children), and
\* rb_erase of such a node sets the root to its (null) child: the whole
\* tree, the listener included, is lost.
tcb_delete(r) ==
    /\ r.state # "LISTEN"
    /\ tree' = IF r \in tree THEN tree \ {r} ELSE {}
    /\ orphans' = orphans \ {r}
    /\ UNCHANGED <<nid, last>>

Next ==
    \/ \E la \in LAddrs, lp \in Ports, ra \in RAddrs, rp \in Ports,
          flag \in Flags : handle_tcp(la, lp, ra, rp, flag)
    \/ \E r \in tree \cup orphans : tcb_delete(r)

Spec == Init /\ [][Next]_vars

-----------------------------------------------------------------------------
Records == [id : Nat, laddr : LAddrs \cup {0}, lport : Ports,
            raddr : RAddrs \cup {0}, rport : Ports,
            state : {"LISTEN", "SYN_RECVD"}]

TypeOK ==
    /\ tree \subseteq Records /\ orphans \subseteq Records
    /\ nid \in 1..MaxRecords
    /\ last.to \in Records \cup {NoTcb, Overflow}

\* tcbcmp is a total preorder (antisymmetric in sign and transitive) on
\* the records the tree holds and the segment last looked up, so the
\* red-black tree's descent in tcb_insert and tcb_find_rb finds the record
\* that compares equal, if there is one.
Compared == tree \cup {[laddr |-> last.seg.laddr, lport |-> last.seg.lport,
                        raddr |-> last.seg.raddr, rport |-> last.seg.rport]}
TcbcmpOrdersKeys ==
    \A a, b, c \in Compared :
        /\ Sign(tcbcmp(a, b)) = -Sign(tcbcmp(b, a))
        /\ (tcbcmp(a, b) <= 0 /\ tcbcmp(b, c) <= 0) => tcbcmp(a, c) <= 0

\* The fallback chain of tcb_find always ends: the listening record
\* created by ptrtd_tcp_init stays in the table, so the wildcard lookup
\* tcb_find(NULL, 0, NULL, 0) never recurses into itself.  It fails once
\* tcb_delete erases a refused record (see tcb_delete), which a SYN whose
\* key equals the listener's (from :: port 0 to port 0) creates.
LookupTerminates == last.to # Overflow

\* Every segment handle_tcp hands to an established record carries that
\* record's four-tuple (the intake's "exact 4-tuple" lookup).
SegmentReachesItsConnection ==
    last.to \in Records /\ last.to.state # "LISTEN" =>
        /\ last.seg.laddr = last.to.laddr /\ last.seg.lport = last.to.lport
        /\ last.seg.raddr = last.to.raddr /\ last.seg.rport = last.to.rport

\* Every record tcb_new creates for an incoming SYN is in tcblist, so its
\* later segments can find it (fails for the SYN described above).
NoOrphanRecords == orphans = {}
=============================================================================
