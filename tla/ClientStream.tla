----------------------------- MODULE ClientStream -----------------------------
(***************************************************************************)
(* The client's receive side: RecvWorker (a thread that reads the socket   *)
(* packet by packet, Client/S1/Network/NetworkWorker.cpp) and the queue    *)
(* from which the game thread handles packets (PacketSession.cpp).         *)
(*                                                                         *)
(* A byte is its place in the server's stream.  Each read asks first       *)
(* whether anything is pending, and gives up if not.                       *)
(***************************************************************************)
EXTENDS Integers, Sequences

CONSTANTS HeaderSize,      \* sizeof(FPacketHeader)
          MaxPacket,       \* the largest packet size
          Sizes,           \* the packet sizes the server uses
          MaxStream,       \* the length of the stream in a model
          CutAfterHeader   \* may the network deliver a header, and its payload later

ASSUME SizesAssumption ==
    /\ HeaderSize \in Nat \ {0} /\ MaxPacket \in Nat /\ MaxStream \in Nat
    /\ Sizes \subseteq HeaderSize .. MaxPacket
    /\ CutAfterHeader \in BOOLEAN

VARIABLES sent,             \* the packets the server sent, [at, size]
          arrived,          \* bytes that have reached the client's socket
          taken,            \* bytes the worker has read
          pc,
          need,             \* Size of ReceiveDesiredBytes: bytes it still wants
          packet,           \* OutPacket: where it starts and its size
          recvPacketQueue,  \* RecvPacketQueue
          handled           \* history: packets given to HandlePacket

worker == <<taken, pc, need, packet, recvPacketQueue>>
vars   == <<sent, arrived, worker, handled>>

Framing == INSTANCE PacketFraming

NoPacket == [at |-> 0, size |-> 0]

Init == /\ sent = << >>
        /\ arrived = 0
        /\ taken = 0
        /\ pc = "header"
        /\ need = 0
        /\ packet = NoPacket
        /\ recvPacketQueue = << >>
        /\ handled = << >>

ServerSends(n) == /\ Framing!StreamEnd + n <= MaxStream
                  /\ Framing!Send(n)
                  /\ UNCHANGED <<arrived, worker>>

\* Places in the stream between a header and its payload.
HeaderEnds == {sent[i].at + HeaderSize : i \in {i \in DOMAIN sent : sent[i].size > HeaderSize}}

Arrive(n) == /\ arrived + n <= Framing!StreamEnd
             /\ CutAfterHeader \/ arrived + n \notin HeaderEnds
             /\ arrived' = arrived + n
             /\ UNCHANGED <<sent, worker, handled>>

Pending == arrived - taken

-----------------------------------------------------------------------------
(* RecvWorker::ReceivePacket *)

\* HasPendingData before the header: Run tries again.
AskHeader == /\ pc = "header"
             /\ Pending > 0
             /\ pc' = "readHeader"
             /\ need' = HeaderSize
             /\ packet' = [at |-> taken, size |-> HeaderSize]
             /\ UNCHANGED <<sent, arrived, taken, recvPacketQueue, handled>>

\* Fault: one Recv is taken for the whole header.
ReadHeaderOnce(n) ==
    /\ pc = "readHeader"
    /\ n <= need /\ n <= Pending
    /\ taken' = taken + n
    /\ need' = 0
    /\ pc' = "parse"
    /\ UNCHANGED <<sent, arrived, packet, recvPacketQueue, handled>>

\* One Recv of the blocking loop.
ReadHeader(n) ==
    /\ pc = "readHeader"
    /\ n <= need /\ n <= Pending
    /\ taken' = taken + n
    /\ need' = need - n
    /\ pc' = IF need = n THEN "parse" ELSE pc
    /\ UNCHANGED <<sent, arrived, packet, recvPacketQueue, handled>>

\* PacketSize as read at that place; a place inside of a packet may hold
\* anything.
PacketSizes(at) ==
    LET here == {i \in DOMAIN sent : sent[i].at = at} IN
    IF here # {} THEN {sent[i].size : i \in here} ELSE HeaderSize .. MaxPacket

\* A packet without payload is complete.
Parse == /\ pc = "parse"
         /\ \E size \in PacketSizes(packet.at) :
                /\ packet' = [packet EXCEPT !.size = size]
                /\ need' = size - HeaderSize
                /\ pc' = IF size = HeaderSize THEN "enqueue" ELSE "payload"
         /\ UNCHANGED <<sent, arrived, taken, recvPacketQueue, handled>>

\* HasPendingData before the payload: if nothing is there, ReceivePacket
\* returns false and the header is lost.
AskPayload == /\ pc = "payload"
              /\ pc' = IF Pending > 0 THEN "readPayload" ELSE "header"
              /\ UNCHANGED <<sent, arrived, taken, need, packet, recvPacketQueue, handled>>

\* Fault: ReceivePacket returns what one Recv gave.
ReadPayloadOnce(n) ==
    /\ pc = "readPayload"
    /\ n <= need /\ n <= Pending
    /\ taken' = taken + n
    /\ need' = need - n
    /\ pc' = "enqueue"
    /\ UNCHANGED <<sent, arrived, packet, recvPacketQueue, handled>>

ReadPayload(n) ==
    /\ pc = "readPayload"
    /\ n <= need /\ n <= Pending
    /\ taken' = taken + n
    /\ need' = need - n
    /\ pc' = IF need = n THEN "enqueue" ELSE pc
    /\ UNCHANGED <<sent, arrived, packet, recvPacketQueue, handled>>

\* RecvWorker::Run puts it in the session's queue.
Enqueue == /\ pc = "enqueue"
           /\ recvPacketQueue' = Append(recvPacketQueue, packet)
           /\ pc' = "header"
           /\ UNCHANGED <<sent, arrived, taken, need, packet, handled>>

\* PacketSession::HandleRecvPackets, one turn of its loop, on the game thread.
HandleRecvPacket == /\ recvPacketQueue # << >>
                    /\ handled' = Append(handled, Head(recvPacketQueue))
                    /\ recvPacketQueue' = Tail(recvPacketQueue)
                    /\ UNCHANGED <<sent, arrived, taken, pc, need, packet>>

ReceivePacket == \/ AskHeader \/ Parse \/ AskPayload \/ Enqueue
                 \/ \E n \in 1 .. MaxPacket : ReadHeader(n) \/ ReadPayload(n)

Next == \/ \E n \in Sizes : ServerSends(n)
        \/ \E n \in 1 .. MaxStream : Arrive(n)
        \/ ReceivePacket
        \/ HandleRecvPacket

Spec == Init /\ [][Next]_vars

-----------------------------------------------------------------------------
(* Properties *)

\* Types, and what is still wanted at each place.
TypeOK == /\ arrived \in Nat /\ taken \in 0 .. arrived
          /\ need \in 0 .. MaxPacket
          /\ pc \in {"header", "readHeader", "parse", "payload", "readPayload", "enqueue"}
          /\ pc \in {"parse", "enqueue"} => need = 0
          /\ pc = "enqueue" => taken = packet.at + packet.size

\* "Parse the packet header" (NetworkWorker.cpp): what is parsed as a header
\* is the header of one of the server's packets.
HeaderInStep ==
    pc = "parse" => \E i \in DOMAIN sent : sent[i].at = packet.at
=============================================================================
