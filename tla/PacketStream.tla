----------------------------- MODULE PacketStream -----------------------------
(***************************************************************************)
(* From the bytes of a connection to packets: RecvBuffer, Session's        *)
(* ProcessRecv and PacketSession::OnRecv on the server.  One receive is    *)
(* out at a time (OneReceiver of SessionLife.tla), so that the component   *)
(* is sequential; what is hard is the arithmetic of the two positions.     *)
(*                                                                         *)
(* A byte is its place in the peer's stream.  A cell of the buffer that    *)
(* was never written holds Unwritten.  The peer's packets are well formed, *)
(* as MakeSendBuffer makes them.                                           *)
(***************************************************************************)
EXTENDS Integers, Sequences

CONSTANTS HeaderSize,   \* sizeof(PacketHeader)
          MaxPacket,    \* the largest value of the uint16 size
          BufferSize,   \* BUFFER_SIZE
          BufferCount,  \* BUFFER_COUNT, 10 in the code
          Sizes,        \* packet sizes the peer uses
          MaxStream     \* the length of the stream in a model

ASSUME SizesAssumption ==
    /\ HeaderSize \in Nat \ {0}
    /\ MaxPacket \in Nat /\ BufferSize \in Nat
    /\ HeaderSize <= MaxPacket /\ MaxPacket < BufferSize
    /\ BufferCount \in Nat /\ BufferCount >= 3
    /\ Sizes \subseteq HeaderSize .. MaxPacket
    /\ MaxStream \in Nat

VARIABLES buffer,             \* _buffer: cell -> place in the stream
          readPos, writePos,  \* _readPos, _writePos
          processLen,         \* processLen of OnRecv
          pc,
          received,           \* bytes the kernel has put into the buffer
          sent,               \* the peer's packets so far, [at, size]
          handled             \* history: packets given to OnRecvPacket

vars == <<buffer, readPos, writePos, processLen, pc, received, sent, handled>>

Capacity  == BufferSize * BufferCount
DataSize  == writePos - readPos
FreeSize  == Capacity - writePos
Cells     == 0 .. Capacity - 1
Unwritten == -1

Init == /\ buffer = [c \in Cells |-> Unwritten]
        /\ readPos = 0
        /\ writePos = 0
        /\ processLen = 0
        /\ pc = "recv"
        /\ received = 0
        /\ sent = << >>
        /\ handled = << >>

Framing == INSTANCE PacketFraming

Packets == [at : Nat, size : Sizes]

PeerSends(n) ==
    /\ Framing!StreamEnd + n <= MaxStream
    /\ Framing!Send(n)
    /\ UNCHANGED <<buffer, readPos, writePos, processLen, pc, received>>

-----------------------------------------------------------------------------
(* Session::ProcessRecv *)

\* The kernel fills n bytes at WritePos, at most FreeSize; OnWrite.
Receive(n) ==
    /\ pc = "recv"
    /\ n <= FreeSize /\ received + n <= Framing!StreamEnd
    /\ buffer' = [c \in Cells |-> IF c >= writePos /\ c < writePos + n
                                  THEN received + (c - writePos)
                                  ELSE buffer[c]]
    /\ writePos' = writePos + n
    /\ received' = received + n
    /\ processLen' = 0
    /\ pc' = "loop"
    /\ UNCHANGED <<readPos, sent, handled>>

-----------------------------------------------------------------------------
(* PacketSession::OnRecv *)

\* The size fields that may be read at cell c: the peer's, or anything when
\* the cell is not the start of a packet.
HeaderSizes(c) ==
    LET here == {i \in DOMAIN sent : sent[i].at = buffer[c]} IN
    IF here # {} THEN {sent[i].size : i \in here} ELSE 0 .. MaxPacket

\* The n bytes from cell c, if they are consecutive in the stream.
PacketAt(c, n) == IF \A k \in 0 .. n - 1 : buffer[c + k] = buffer[c] + k
                  THEN [at |-> buffer[c], size |-> n]
                  ELSE [at |-> Unwritten, size |-> n]

\* Fault: the packet is handled as soon as its header is there.
HandlePacketEarly ==
    /\ pc = "loop"
    /\ DataSize - processLen >= HeaderSize
    /\ \E size \in HeaderSizes(readPos + processLen) :
           /\ handled' = Append(handled, PacketAt(readPos + processLen, HeaderSize))
           /\ processLen' = processLen + size
    /\ UNCHANGED <<buffer, readPos, writePos, pc, received, sent>>

HandlePacket ==
    /\ pc = "loop"
    /\ DataSize - processLen >= HeaderSize
    /\ \E size \in HeaderSizes(readPos + processLen) :
           /\ DataSize - processLen >= size
           /\ handled' = Append(handled, PacketAt(readPos + processLen, size))
           /\ processLen' = processLen + size
    /\ UNCHANGED <<buffer, readPos, writePos, pc, received, sent>>

\* Fault: what is left over is thrown away with the packets.
OnReadAll ==
    /\ pc = "loop"
    /\ \/ DataSize - processLen < HeaderSize
       \/ /\ DataSize - processLen >= HeaderSize
          /\ \E size \in HeaderSizes(readPos + processLen) : DataSize - processLen < size
    /\ readPos' = readPos + DataSize
    /\ pc' = "clean"
    /\ UNCHANGED <<buffer, writePos, processLen, received, sent, handled>>

\* The loop is left with part of a packet, or nothing, and OnRead moves
\* over what was handled.
OnRead ==
    /\ pc = "loop"
    /\ \/ DataSize - processLen < HeaderSize
       \/ /\ DataSize - processLen >= HeaderSize
          /\ \E size \in HeaderSizes(readPos + processLen) : DataSize - processLen < size
    /\ readPos' = readPos + processLen
    /\ pc' = "clean"
    /\ UNCHANGED <<buffer, writePos, processLen, received, sent, handled>>

-----------------------------------------------------------------------------
(* RecvBuffer::Clean, then RegisterRecv *)

\* memcpy of the data to the front.
Moved == [c \in Cells |-> IF c < DataSize THEN buffer[readPos + c] ELSE buffer[c]]

\* Fault: the data is moved to the front on every turn.
CleanEager ==
    /\ pc = "clean"
    /\ buffer' = Moved
    /\ readPos' = 0
    /\ writePos' = DataSize
    /\ pc' = "recv"
    /\ UNCHANGED <<processLen, received, sent, handled>>

\* Fault: the positions move and the data does not.
CleanNoCopy ==
    /\ pc = "clean"
    /\ IF DataSize = 0 \/ FreeSize < BufferSize
       THEN readPos' = 0 /\ writePos' = DataSize
       ELSE UNCHANGED <<readPos, writePos>>
    /\ pc' = "recv"
    /\ UNCHANGED <<buffer, processLen, received, sent, handled>>

Clean ==
    /\ pc = "clean"
    /\ \/ DataSize = 0 /\ readPos' = 0 /\ writePos' = 0 /\ UNCHANGED buffer
       \/ /\ DataSize > 0 /\ FreeSize < BufferSize
          /\ buffer' = Moved
          /\ readPos' = 0
          /\ writePos' = DataSize
       \/ DataSize > 0 /\ FreeSize >= BufferSize /\ UNCHANGED <<buffer, readPos, writePos>>
    /\ pc' = "recv"
    /\ UNCHANGED <<processLen, received, sent, handled>>

Server == (\E n \in 1 .. Capacity : Receive(n)) \/ HandlePacket \/ OnRead \/ Clean

Next == Server \/ \E n \in Sizes : PeerSends(n)

Spec == Init /\ [][Next]_vars

\* The receive completes when bytes are there, and the worker runs.
FairSpec == Spec /\ WF_vars(Server)

-----------------------------------------------------------------------------
(* Properties *)

\* Types, and the order of the positions.
TypeOK == /\ buffer \in [Cells -> Int]
          /\ readPos \in Nat /\ writePos \in Nat /\ processLen \in Nat
          /\ readPos <= writePos /\ writePos <= Capacity
          /\ pc \in {"recv", "loop", "clean"}
          /\ pc = "loop" => processLen <= DataSize
          /\ received \in Nat
          /\ sent \in Seq(Packets)
          /\ handled \in Seq([at : Int, size : Nat])

\* Whenever a receive is posted at least BufferSize bytes are free: OnWrite
\* never refuses, and WSARecv never gets an empty buffer, which would look
\* like the end of the connection.
RoomForReceive == pc = "recv" => FreeSize >= BufferSize

\* When the data is moved the ranges of the memcpy do not overlap, which
\* would be undefined behaviour.
CopyDisjoint ==
    [][pc = "clean" /\ DataSize > 0 /\ readPos' # readPos => DataSize <= readPos]_vars

\* The data in the buffer is the latest piece of the stream, without a gap.
InStep == \A c \in readPos .. writePos - 1 : buffer[c] = received - (writePos - c)

\* Over any number of receives, packets and moves the buffer neither fills up
\* nor gets out of step with the stream.
BufferSound == RoomForReceive /\ InStep

\* The handlers see the peer's packets, whole, once, in order, all of them.
ImplementsFraming == Framing!FairSpec
=============================================================================
