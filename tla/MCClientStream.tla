---------------------------- MODULE MCClientStream ----------------------------
(* A few packets with and without payload, delivered in any pieces. *)
EXTENDS ClientStream
=============================================================================
