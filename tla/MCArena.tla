------------------------------- MODULE MCArena -------------------------------
(* Two clients: a walks and shoots, b may enter at any time. *)
EXTENDS Arena

CONSTANTS a, b
=============================================================================
