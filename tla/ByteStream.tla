----------------------------- MODULE ByteStream -----------------------------
(***************************************************************************)
(* What the relay promises each direction of a connection: a reliable,    *)
(* ordered byte stream that may stop early.  The source hands in bytes    *)
(* 0, 1, .., N-1 (byte k is the value k); the sink receives a prefix of    *)
(* what was handed in, in order, without gaps or repeats, several bytes   *)
(* at a time.  Stopping (a reset, a killed socket) is a behaviour that    *)
(* simply takes no more Deliver steps, so it needs no action.             *)
(***************************************************************************)
EXTENDS Naturals, Sequences

CONSTANT N          \* bytes the source hands in

VARIABLES
    offered,        \* how many bytes the source has handed in
    delivered       \* the bytes the sink has received

Bytes(k) == [i \in 1..k |-> i - 1]

Init == offered = 0 /\ delivered = <<>>

\* The source hands in one or more further bytes.
Offer ==
    /\ \E k \in (offered + 1)..N : offered' = k
    /\ UNCHANGED delivered

\* The sink receives the next bytes of the stream.
Deliver ==
    /\ \E k \in (Len(delivered) + 1)..offered : delivered' = Bytes(k)
    /\ UNCHANGED offered

Spec == Init /\ [][Offer \/ Deliver]_<<offered, delivered>>
=============================================================================
