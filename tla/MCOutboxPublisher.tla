-------------------------- MODULE MCOutboxPublisher --------------------------
(***************************************************************************)
(* Two publishers and two events.  The lease is longer than the first      *)
(* retry delay and shorter than the longest, as in the code (1 s, 30 s,    *)
(* 60 s), and the clock runs long enough for a lease to run out twice.     *)
(***************************************************************************)
EXTENDS OutboxPublisher, TLC

CONSTANTS p1, p2, e1, e2

Interchangeable == Permutations({p1, p2}) \cup Permutations({e1, e2})
=============================================================================
