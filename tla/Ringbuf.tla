------------------------------ MODULE Ringbuf ------------------------------
(***************************************************************************)
(* The sequence-addressed ring buffer of buffer.c, as operators on a value *)
(* (the connection record owns two of them, see TcpRelay).                 *)
(*                                                                         *)
(* A buffer is a record [size, w_seq, data]: w_seq is struct ringbuf's     *)
(* w_seq, data holds the retained bytes, oldest first, so that r->used is  *)
(* Len(data) and the bytes span sequence numbers [w_seq - used, w_seq).    *)
(* The physical array p and the cursor w_pos are abstracted: a read or a   *)
(* write that wraps around the end of p is the same two memcpy calls as    *)
(* one that does not, and the lazy allocation of p (p = NULL exactly when  *)
(* used = 0) has no effect on what is read.  A byte is any value; when     *)
(* rb_advance moves the start backwards the bytes it claims to retain were *)
(* never written, and they are the model value Stale.                      *)
(*                                                                         *)
(* Sequence numbers are integers; the 32-bit wrap of uint w_seq is outside *)
(* this module (the buffers of one connection never wrap in the bounded    *)
(* runs).  int d = r->w_seq - seq is therefore an ordinary difference that *)
(* may be negative, as it is in the C code for seq ahead of w_seq.         *)
(***************************************************************************)
LOCAL INSTANCE Integers
LOCAL INSTANCE Sequences

CONSTANT Stale

rb_used(r) == Len(r.data)

\* rb_new: size bytes of capacity, nothing retained, w_seq 0.
rb_new(s) == [size |-> s, w_seq |-> 0, data |-> <<>>]

\* rb_set only moves w_seq; it is called on fresh buffers.
rb_set(r, s) == [r EXCEPT !.w_seq = s]

rb_left(r) == r.size - rb_used(r)

\* rb_avail: bytes retained from seq on; 0 if seq is older than what is
\* retained, a negative number if seq is ahead of w_seq.
rb_avail(r, seq) ==
    LET d == r.w_seq - seq
    IN  IF d > rb_used(r) THEN 0 ELSE d

\* rb_advance: keep only the bytes from s on.  used = w_seq - s; a
\* non-positive result empties the buffer and moves w_seq up to s.
rb_advance(r, s) ==
    LET u == r.w_seq - s
        n == rb_used(r)
    IN  IF u <= 0
          THEN [r EXCEPT !.w_seq = s, !.data = <<>>]
          ELSE [r EXCEPT !.data =
                  IF u <= n THEN SubSeq(r.data, n - u + 1, n)
                            ELSE [i \in 1..(u - n) |-> Stale] \o r.data]

\* rb_write: append as much of d as fits (the return value is the change
\* of w_seq).
rb_write(r, d) ==
    LET cnt == IF Len(d) <= rb_left(r) THEN Len(d) ELSE rb_left(r)
    IN  IF Len(d) = 0 THEN r
        ELSE [r EXCEPT !.w_seq = @ + cnt, !.data = @ \o SubSeq(d, 1, cnt)]

\* Seeded fault: rb_read from the oldest retained byte, whatever seq is.
rb_read_from_start(r, seq, max) ==
    LET back == r.w_seq - seq
        m    == IF back < max THEN back ELSE max
    IN  IF back = 0 \/ rb_used(r) < back \/ max = 0 \/ m <= 0 THEN <<>>
        ELSE SubSeq(r.data, 1, m)

\* rb_read: the bytes from seq on, at most max of them; nothing when seq
\* is w_seq, older than what is retained, or max is 0.
rb_read(r, seq, max) ==
    LET back == r.w_seq - seq
        n    == rb_used(r)
        m    == IF back < max THEN back ELSE max
    IN  IF back = 0 \/ n < back \/ max = 0 \/ m <= 0 THEN <<>>
        ELSE SubSeq(r.data, n - back + 1, n - back + m)
=============================================================================
