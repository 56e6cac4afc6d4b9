--------------------------- MODULE MCRelaySystem ---------------------------
(***************************************************************************)
(* Model-checking instance of RelaySystem: the constants of ptrtd-tcp.c    *)
(* and tcp.c, scaled down so that the buffers, windows and segments of a   *)
(* few bytes exercise the same boundaries, and a bound on the segments in *)
(* flight on each direction of the IPv6 path.                             *)
(***************************************************************************)
EXTENDS RelaySystem

\* Segments in flight on each direction of the path.
CONSTANT NetCap

NetBound == Len(toPeer) <= NetCap /\ Len(toRelay) <= NetCap
============================================================================
