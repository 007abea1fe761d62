---------------------------- MODULE MCPacketStream ----------------------------
(* A small buffer that the stream wraps several times. *)
EXTENDS PacketStream
=============================================================================
