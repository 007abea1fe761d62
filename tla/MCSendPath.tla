----------------------------- MODULE MCSendPath -----------------------------
(* One session, its sends and completions on a few threads. *)
EXTENDS SendPath, TLC

CONSTANTS t1, t2, t3, b1, b2, b3, b4
=============================================================================
