----------------------------- MODULE MCJobTimer -----------------------------
(* One room, two workers, a third thread that may run its jobs. *)
EXTENDS JobTimer

CONSTANTS w1, w2, r1, c1, c2, c3
=============================================================================
