----------------------------- MODULE MCOsTimer -----------------------------
(* OsTimer with an unsigned int of four bits.  The factor shares a divisor with
   the width, as 1000 does with 2^32: 3 wraps around, 8 becomes zero. *)
EXTENDS OsTimer

MCMicros == {1, 3, 8}
=============================================================================
