--------------------------- MODULE MCClientSession ---------------------------
(* A stream of two or three packets to the client, and two packets from it. *)
EXTENDS ClientSession
=============================================================================
