----------------------------- MODULE PacketStreamProofs -----------------------------
(***************************************************************************)
(* For every buffer size, packet size and stream: the receive buffer       *)
(* always has room for a whole packet more, the memcpy that compacts it    *)
(* never overlaps, its data stays in step with the peer's stream, and the  *)
(* module implements PacketFraming.                                        *)
(***************************************************************************)
EXTENDS PacketStream, TLAPS

\* What is left over after the packets were handled is less than a packet,
\* and after Clean there is room for BufferSize bytes.
Leftover == /\ pc # "loop" => DataSize < BufferSize
            /\ pc = "recv" => FreeSize >= BufferSize

IInv == TypeOK /\ Leftover /\ InStep

\* All that the proofs need of the product BufferSize * BufferCount.
LEMMA CapacityBound ==
    Capacity \in Nat /\ Capacity >= 3 * BufferSize /\ BufferSize \in Nat \ {0}
<1>1. BufferSize \in Nat /\ BufferSize > 0 /\ BufferCount \in Nat /\ BufferCount >= 3
  BY SizesAssumption
<1>2. BufferSize * BufferCount \in Nat
  BY <1>1
<1>3. BufferSize * BufferCount >= BufferSize * 3
  BY <1>1
<1> QED
  BY <1>1, <1>2, <1>3 DEF Capacity

LEMMA SentPackets ==
    ASSUME TypeOK, NEW i \in DOMAIN sent
    PROVE  sent[i].at \in Nat /\ sent[i].size \in HeaderSize .. MaxPacket
<1>1. sent[i] \in Packets
  BY DEF TypeOK
<1>2. sent[i].at \in Nat /\ sent[i].size \in Sizes
  BY <1>1 DEF Packets
<1> QED
  BY <1>2, SizesAssumption

\* The uint16 in a header cannot exceed MaxPacket, whatever cell it is read from.
LEMMA HeaderRange ==
    ASSUME TypeOK, NEW c, NEW size \in HeaderSizes(c)
    PROVE  size \in 0 .. MaxPacket
<1>1. CASE {i \in DOMAIN sent : sent[i].at = buffer[c]} # {}
  <2>1. PICK i \in DOMAIN sent : size = sent[i].size
    BY <1>1 DEF HeaderSizes
  <2>2. size \in HeaderSize .. MaxPacket
    BY <2>1, SentPackets
  <2> QED
    BY <2>2, SizesAssumption
<1>2. CASE {i \in DOMAIN sent : sent[i].at = buffer[c]} = {}
  BY <1>2 DEF HeaderSizes
<1> QED
  BY <1>1, <1>2

LEMMA StreamEndType ==
    ASSUME TypeOK
    PROVE  Framing!StreamEnd \in Nat
<1>1. CASE sent = << >>
  BY <1>1 DEF Framing!StreamEnd
<1>2. CASE sent # << >>
  <2>1. Len(sent) \in DOMAIN sent
    BY <1>2 DEF TypeOK
  <2>2. sent[Len(sent)].at \in Nat /\ sent[Len(sent)].size \in Nat
    BY <2>1, SentPackets, SizesAssumption
  <2> QED
    BY <1>2, <2>2 DEF Framing!StreamEnd
<1> QED
  BY <1>1, <1>2

LEMMA InitIInv == Init => IInv
BY CapacityBound DEF Init, IInv, TypeOK, Leftover, InStep, Cells, Unwritten, DataSize, FreeSize

LEMMA PeerSendsIInv ==
    ASSUME IInv, NEW n \in Sizes, PeerSends(n)
    PROVE  IInv'
<1>1. [at |-> Framing!StreamEnd, size |-> n] \in Packets
  BY StreamEndType DEF IInv, Packets
<1>2. sent' \in Seq(Packets)
  BY <1>1 DEF IInv, TypeOK, PeerSends, Framing!Send
<1> QED
  BY <1>2 DEF IInv, TypeOK, Leftover, InStep, PeerSends, Framing!Send, DataSize, FreeSize

LEMMA ReceiveIInv ==
    ASSUME IInv, NEW n \in 1 .. Capacity, Receive(n)
    PROVE  IInv'
<1> USE DEF DataSize, FreeSize
<1>1. /\ readPos \in Nat /\ writePos \in Nat /\ received \in Nat /\ n \in Nat
      /\ readPos <= writePos /\ writePos + n <= Capacity
  BY CapacityBound DEF IInv, TypeOK, Receive
<1>2. TypeOK'
  <2>1. \A c \in Cells : c \in Int /\ buffer[c] \in Int
    BY CapacityBound DEF IInv, TypeOK, Cells
  <2>2. buffer' \in [Cells -> Int]
    BY <1>1, <2>1 DEF Receive
  <2> QED
    BY <1>1, <2>2 DEF IInv, TypeOK, Receive
<1>3. Leftover'
  BY DEF Receive, Leftover
<1>4. InStep'
  <2>0. readPos' = readPos /\ writePos' = writePos + n /\ received' = received + n
    BY DEF Receive
  <2> SUFFICES ASSUME NEW c \in readPos .. (writePos + n) - 1
               PROVE  buffer'[c] = (received + n) - ((writePos + n) - c)
    BY <1>1, <2>0 DEF InStep
  <2>1. c \in Cells
    BY <1>1, CapacityBound DEF Cells
  <2>2. CASE c >= writePos
    BY <1>1, <2>1, <2>2 DEF Receive
  <2>3. CASE c < writePos
    <3>1. buffer[c] = received - (writePos - c)
      BY <1>1, <2>3 DEF IInv, InStep
    <3>2. buffer'[c] = buffer[c]
      BY <1>1, <2>1, <2>3 DEF Receive
    <3> QED
      BY <1>1, <3>1, <3>2
  <2> QED
    BY <1>1, <2>2, <2>3
<1> QED
  BY <1>2, <1>3, <1>4 DEF IInv

LEMMA HandlePacketIInv ==
    ASSUME IInv, HandlePacket
    PROVE  IInv'
<1>1. PICK size \in HeaderSizes(readPos + processLen) :
          /\ DataSize - processLen >= size
          /\ handled' = Append(handled, PacketAt(readPos + processLen, size))
          /\ processLen' = processLen + size
  BY DEF HandlePacket
<1>2. size \in Nat
  BY <1>1, HeaderRange, SizesAssumption DEF IInv
<1>3. PacketAt(readPos + processLen, size) \in [at : Int, size : Nat]
  <2>1. readPos + processLen \in Cells
    BY CapacityBound, SizesAssumption DEF IInv, TypeOK, HandlePacket, DataSize, Cells
  <2>2. buffer[readPos + processLen] \in Int
    BY <2>1 DEF IInv, TypeOK
  <2> QED
    BY <1>2, <2>2 DEF PacketAt, Unwritten
<1>4. handled' \in Seq([at : Int, size : Nat])
  BY <1>1, <1>3 DEF IInv, TypeOK
<1> QED
  BY <1>1, <1>2, <1>4 DEF HandlePacket, IInv, TypeOK, Leftover, InStep, DataSize, FreeSize

LEMMA OnReadIInv ==
    ASSUME IInv, OnRead
    PROVE  IInv'
<1> USE DEF DataSize, FreeSize
<1>1. /\ readPos \in Nat /\ writePos \in Nat /\ processLen \in Nat
      /\ processLen <= writePos - readPos
      /\ readPos' = readPos + processLen /\ writePos' = writePos /\ pc' = "clean"
  BY DEF IInv, TypeOK, OnRead
<1>2. DataSize - processLen < BufferSize
  <2>1. CASE DataSize - processLen < HeaderSize
    BY <1>1, <2>1, SizesAssumption
  <2>2. CASE \E size \in HeaderSizes(readPos + processLen) : DataSize - processLen < size
    <3>1. PICK size \in HeaderSizes(readPos + processLen) : DataSize - processLen < size
      BY <2>2
    <3>2. size \in 0 .. MaxPacket
      BY HeaderRange DEF IInv
    <3> QED
      BY <1>1, <3>1, <3>2, SizesAssumption
  <2> QED
    BY <2>1, <2>2 DEF OnRead
<1>3. TypeOK'
  BY <1>1 DEF IInv, TypeOK, OnRead
<1>4. Leftover'
  BY <1>1, <1>2 DEF Leftover
<1>5. InStep'
  BY <1>1 DEF IInv, InStep, OnRead
<1> QED
  BY <1>3, <1>4, <1>5 DEF IInv

LEMMA CleanIInv ==
    ASSUME IInv, Clean
    PROVE  IInv'
<1> USE DEF DataSize, FreeSize
<1>1. /\ readPos \in Nat /\ writePos \in Nat /\ received \in Nat
      /\ readPos <= writePos /\ writePos <= Capacity
      /\ writePos - readPos < BufferSize
  BY DEF IInv, TypeOK, Leftover, Clean
<1>2. CASE DataSize = 0 /\ readPos' = 0 /\ writePos' = 0 /\ UNCHANGED buffer
  BY <1>1, <1>2, CapacityBound DEF IInv, TypeOK, Leftover, InStep, Clean
<1>3. CASE /\ DataSize > 0 /\ FreeSize < BufferSize
           /\ buffer' = Moved
           /\ readPos' = 0
           /\ writePos' = DataSize
  <2>1. Moved \in [Cells -> Int]
    <3> SUFFICES ASSUME NEW c \in Cells, c < DataSize
                 PROVE  buffer[readPos + c] \in Int
      BY DEF Moved, IInv, TypeOK
    <3>1. readPos + c \in Cells
      BY <1>1, CapacityBound DEF Cells
    <3> QED
      BY <3>1 DEF IInv, TypeOK
  <2>2. TypeOK'
    BY <1>1, <1>3, <2>1, CapacityBound DEF IInv, TypeOK, Clean
  <2>3. Leftover'
    BY <1>1, <1>3, CapacityBound DEF Leftover, Clean
  <2>4. InStep'
    <3> SUFFICES ASSUME NEW c \in 0 .. DataSize - 1
                 PROVE  Moved[c] = received - (DataSize - c)
      BY <1>1, <1>3 DEF InStep, Clean
    <3>1. c \in Cells /\ c < DataSize /\ readPos + c \in readPos .. writePos - 1
      BY <1>1, CapacityBound DEF Cells
    <3>2. Moved[c] = buffer[readPos + c]
      BY <3>1 DEF Moved
    <3>3. buffer[readPos + c] = received - (writePos - (readPos + c))
      BY <3>1 DEF IInv, InStep
    <3> QED
      BY <1>1, <3>2, <3>3
  <2> QED
    BY <2>2, <2>3, <2>4 DEF IInv
<1>4. CASE DataSize > 0 /\ FreeSize >= BufferSize /\ UNCHANGED <<buffer, readPos, writePos>>
  BY <1>1, <1>4 DEF IInv, TypeOK, Leftover, InStep, Clean
<1> QED
  BY <1>2, <1>3, <1>4 DEF Clean

LEMMA NextIInv == IInv /\ [Next]_vars => IInv'
<1> SUFFICES ASSUME IInv, [Next]_vars PROVE IInv'
  OBVIOUS
<1>1. CASE \E n \in 1 .. Capacity : Receive(n)
  BY <1>1, ReceiveIInv
<1>2. CASE HandlePacket
  BY <1>2, HandlePacketIInv
<1>3. CASE OnRead
  BY <1>3, OnReadIInv
<1>4. CASE Clean
  BY <1>4, CleanIInv
<1>5. CASE \E n \in Sizes : PeerSends(n)
  BY <1>5, PeerSendsIInv
<1>6. CASE UNCHANGED vars
  BY <1>6 DEF vars, IInv, TypeOK, Leftover, InStep, DataSize, FreeSize
<1> QED
  BY <1>1, <1>2, <1>3, <1>4, <1>5, <1>6 DEF Next, Server

LEMMA AlwaysIInv == Spec => []IInv
BY InitIInv, NextIInv, PTL DEF Spec

\* The positions of RecvBuffer stay in order and inside the buffer.
THEOREM TypeCorrect == Spec => []TypeOK
BY AlwaysIInv, PTL DEF IInv

\* Every receive has BufferSize bytes to fill, so that OnWrite never refuses and
\* WSARecv is never called with an empty buffer; and the data of the buffer is a
\* piece of the peer's stream without a gap, across every move of Clean.
THEOREM AlwaysSound == Spec => []BufferSound
<1>1. IInv => RoomForReceive
  BY DEF IInv, Leftover, RoomForReceive
<1>2. IInv => InStep
  BY DEF IInv
<1>3. IInv => BufferSound
  BY <1>1, <1>2 DEF BufferSound
<1> QED
  BY <1>3, AlwaysIInv, PTL

\* Clean never copies between overlapping ranges.
THEOREM CopiesDisjoint == Spec => CopyDisjoint
<1> DEFINE Disjoint == pc = "clean" /\ DataSize > 0 /\ readPos' # readPos => DataSize <= readPos
<1>1. IInv /\ [Next]_vars => [Disjoint]_vars
  <2> SUFFICES ASSUME IInv, Next, pc = "clean", DataSize > 0, readPos' # readPos
               PROVE  DataSize <= readPos
    OBVIOUS
  <2>1. Clean
    BY DEF Next, Server, Receive, HandlePacket, OnRead, PeerSends
  <2>2. FreeSize < BufferSize /\ DataSize < BufferSize
    BY <2>1 DEF Clean, IInv, Leftover
  <2> QED
    BY <2>2, CapacityBound DEF IInv, TypeOK, DataSize, FreeSize
<1> QED
  BY <1>1, AlwaysIInv, PTL DEF Spec, CopyDisjoint

-----------------------------------------------------------------------------
(***************************************************************************)
(* PacketStream implements PacketFraming: the packets given to             *)
(* OnRecvPacket are the peer's, whole, once, in order, however the stream  *)
(* is cut into receives.                                                   *)
(*                                                                         *)
(* The place in the stream up to which OnRecv has come is always the end   *)
(* of the packets handled (Position).  The buffer is in step, so that the  *)
(* next header read is the one of the next packet sent, and no other       *)
(* packet starts there (Ordered).                                          *)
(***************************************************************************)

\* Where the first k packets end in the stream.
EndOf(k) == IF k = 0 THEN 0 ELSE sent[k].at + sent[k].size

\* The packets sent lie one behind the other.
Ordered == /\ \A i \in 1 .. Len(sent) : sent[i].at = EndOf(i - 1)
           /\ \A i, j \in 1 .. Len(sent) : i < j => EndOf(i) <= sent[j].at

\* What was handled is what was sent first.
Prefix == /\ Len(handled) <= Len(sent)
          /\ \A i \in 1 .. Len(handled) : handled[i] = sent[i]

\* The part of the data that OnRecv has handled and OnRead not yet passed.
Used == IF pc = "loop" THEN processLen ELSE 0

Position == /\ received - (DataSize - Used) = EndOf(Len(handled))
            /\ received <= Framing!StreamEnd

FInv == IInv /\ Ordered /\ Prefix /\ Position

LEMMA Ends ==
    ASSUME TypeOK
    PROVE  /\ Len(sent) \in Nat /\ Len(handled) \in Nat
           /\ DOMAIN sent = 1 .. Len(sent)
           /\ Framing!StreamEnd = EndOf(Len(sent))
           /\ \A i \in 1 .. Len(sent) : /\ sent[i].at \in Nat
                                        /\ sent[i].size \in Nat \ {0}
                                        /\ EndOf(i) = sent[i].at + sent[i].size
           /\ \A i \in 0 .. Len(sent) : EndOf(i) \in Nat
<1>1. /\ Len(sent) \in Nat /\ Len(handled) \in Nat /\ DOMAIN sent = 1 .. Len(sent)
      /\ sent = << >> <=> Len(sent) = 0
  BY DEF TypeOK
<1>2. \A i \in 1 .. Len(sent) : sent[i].at \in Nat /\ sent[i].size \in Nat \ {0}
  BY <1>1, SentPackets, SizesAssumption
<1>3. \A i \in 1 .. Len(sent) : EndOf(i) = sent[i].at + sent[i].size
  BY <1>1 DEF EndOf
<1>4. \A i \in 0 .. Len(sent) : EndOf(i) \in Nat
  BY <1>1, <1>2 DEF EndOf
<1>5. Framing!StreamEnd = EndOf(Len(sent))
  BY <1>1 DEF EndOf, Framing!StreamEnd
<1> QED
  BY <1>1, <1>2, <1>3, <1>4, <1>5

LEMMA InitFInv == Init => FInv /\ Framing!Init
<1> SUFFICES ASSUME Init PROVE FInv /\ Framing!Init
  OBVIOUS
<1>1. sent = << >> /\ handled = << >> /\ Len(sent) = 0 /\ Len(handled) = 0
  BY DEF Init
<1>2. Ordered /\ Prefix
  BY <1>1 DEF Ordered, Prefix
<1>3. Position
  BY <1>1 DEF Init, Position, EndOf, Used, DataSize, Framing!StreamEnd
<1> QED
  BY <1>1, <1>2, <1>3, InitIInv DEF FInv, Framing!Init

-----------------------------------------------------------------------------
(* Steps *)

LEMMA PeerSendsFInv ==
    ASSUME FInv, NEW n \in Sizes, PeerSends(n)
    PROVE  Ordered' /\ Prefix' /\ Position' /\ [Framing!Next]_(Framing!vars)
<1>1. /\ TypeOK /\ n \in Nat \ {0} /\ Len(sent) \in Nat
  BY SizesAssumption, Ends DEF FInv, IInv
<1>2. /\ sent' = Append(sent, [at |-> Framing!StreamEnd, size |-> n])
      /\ UNCHANGED <<readPos, writePos, processLen, pc, received, handled>>
  BY DEF PeerSends, Framing!Send
<1>3. /\ Len(sent') = Len(sent) + 1
      /\ \A i \in 1 .. Len(sent) : sent'[i] = sent[i]
      /\ sent'[Len(sent) + 1].at = EndOf(Len(sent))
      /\ sent'[Len(sent) + 1].size = n
  BY <1>1, <1>2, Ends DEF TypeOK
<1>4. \A i \in 0 .. Len(sent) : EndOf(i)' = EndOf(i)
  BY <1>1, <1>3 DEF EndOf
<1>5. Framing!StreamEnd' = EndOf(Len(sent)) + n
  <2>1. sent' # << >>
    BY <1>1, <1>3
  <2> QED
    BY <1>3, <2>1 DEF Framing!StreamEnd
<1>6. Ordered'
  <2>1. ASSUME NEW i \in 1 .. Len(sent) + 1
        PROVE  sent'[i].at = EndOf(i - 1)'
    <3>1. CASE i \in 1 .. Len(sent)
      BY <1>1, <1>3, <1>4, <3>1 DEF FInv, Ordered
    <3>2. CASE i = Len(sent) + 1
      BY <1>1, <1>3, <1>4, <3>2
    <3> QED
      BY <1>1, <3>1, <3>2
  <2>2. ASSUME NEW i \in 1 .. Len(sent) + 1, NEW j \in 1 .. Len(sent) + 1, i < j
        PROVE  EndOf(i)' <= sent'[j].at
    <3>1. CASE j \in 1 .. Len(sent)
      <4>1. i \in 1 .. Len(sent) /\ i \in 0 .. Len(sent)
        BY <1>1, <2>2, <3>1
      <4>2. EndOf(i) <= sent[j].at
        BY <2>2, <3>1, <4>1 DEF FInv, Ordered
      <4>3. EndOf(i)' = EndOf(i) /\ sent'[j] = sent[j]
        BY <1>3, <1>4, <3>1, <4>1
      <4> QED
        BY <4>2, <4>3
    <3>2. CASE j = Len(sent) + 1
      <4>1. EndOf(i)' = EndOf(i) /\ sent'[j].at = EndOf(Len(sent)) /\ i \in 1 .. Len(sent)
        BY <1>1, <1>3, <1>4, <2>2, <3>2
      <4>2. CASE i = Len(sent)
        BY <1>1, <4>1, <4>2, Ends
      <4>3. CASE i < Len(sent)
        <5>1. EndOf(i) <= sent[Len(sent)].at
          BY <1>1, <4>1, <4>3 DEF FInv, Ordered
        <5>2. Len(sent) \in 1 .. Len(sent)
          BY <1>1, <4>1
        <5>3. sent[Len(sent)].at \in Nat /\ sent[Len(sent)].size \in Nat
          BY <5>2, <1>1, Ends
        <5>4. EndOf(Len(sent)) = sent[Len(sent)].at + sent[Len(sent)].size
          BY <5>2, <1>1, Ends
        <5>5. EndOf(i) \in Nat
          BY <1>1, <4>1, Ends
        <5> QED
          BY <4>1, <5>1, <5>3, <5>4, <5>5
      <4> QED
        BY <1>1, <4>1, <4>2, <4>3
    <3> QED
      BY <1>1, <3>1, <3>2
  <2> QED
    BY <1>3, <2>1, <2>2 DEF Ordered
<1>7. Prefix'
  BY <1>1, <1>2, <1>3, Ends DEF FInv, Prefix
<1>8. Position'
  <2>1. EndOf(Len(handled))' = EndOf(Len(handled))
    BY <1>1, <1>2, <1>4, Ends DEF FInv, Prefix
  <2>2. EndOf(Len(sent)) + n >= EndOf(Len(sent)) /\ received \in Nat
    <3>1. Len(sent) \in 0 .. Len(sent) /\ n \in Nat
      BY <1>1
    <3>2. EndOf(Len(sent)) \in Nat
      BY <1>1, <3>1, Ends
    <3> QED
      BY <1>1, <3>1, <3>2 DEF TypeOK
  <2>3. received <= EndOf(Len(sent)) + n
    BY <1>1, <2>2, Ends DEF FInv, Position
  <2> QED
    BY <1>2, <1>5, <2>1, <2>3 DEF FInv, Position, DataSize, Used
<1>9. Framing!Next
  BY DEF PeerSends, Framing!Next
<1> QED
  BY <1>6, <1>7, <1>8, <1>9

LEMMA ReceiveFInv ==
    ASSUME FInv, NEW n \in 1 .. Capacity, Receive(n)
    PROVE  Ordered' /\ Prefix' /\ Position' /\ UNCHANGED Framing!vars
<1>1. /\ readPos \in Nat /\ writePos \in Nat /\ received \in Nat /\ n \in Nat /\ pc = "recv"
  BY CapacityBound DEF FInv, IInv, TypeOK, Receive
<1>2. /\ UNCHANGED <<readPos, sent, handled>> /\ writePos' = writePos + n
      /\ received' = received + n /\ processLen' = 0 /\ pc' = "loop"
      /\ received + n <= Framing!StreamEnd
  BY DEF Receive
<1>3. Ordered' /\ Prefix'
  BY <1>2 DEF FInv, Ordered, Prefix, EndOf
<1>4. Position'
  <2>1. received - (writePos - readPos) = EndOf(Len(handled))
    BY <1>1 DEF FInv, Position, Used, DataSize
  <2>2. received' - ((writePos' - readPos') - processLen') = received - (writePos - readPos)
    BY <1>1, <1>2
  <2>3. (received <= Framing!StreamEnd)' /\ EndOf(Len(handled))' = EndOf(Len(handled))
    BY <1>2 DEF Framing!StreamEnd, EndOf
  <2> QED
    BY <1>2, <2>1, <2>2, <2>3 DEF Position, Used, DataSize
<1> QED
  BY <1>2, <1>3, <1>4 DEF Framing!vars

\* The packet that OnRecv takes is the next one sent.
LEMMA NextPacket ==
    ASSUME FInv, pc = "loop", DataSize - processLen >= HeaderSize
    PROVE  /\ Len(handled) < Len(sent)
           /\ HeaderSizes(readPos + processLen) = {sent[Len(handled) + 1].size}
           /\ sent[Len(handled) + 1].size <= DataSize - processLen =>
                 PacketAt(readPos + processLen, sent[Len(handled) + 1].size)
                     = sent[Len(handled) + 1]
<1> DEFINE c == readPos + processLen
           i == Len(handled) + 1
<1>1. /\ TypeOK /\ readPos \in Nat /\ writePos \in Nat /\ processLen \in Nat /\ received \in Nat
      /\ HeaderSize \in Nat /\ HeaderSize > 0 /\ writePos - c >= HeaderSize /\ c \in Nat
      /\ c \in readPos .. writePos - 1
      /\ Len(handled) \in Nat /\ Len(sent) \in Nat /\ Len(handled) <= Len(sent)
  BY SizesAssumption, Ends DEF FInv, IInv, TypeOK, DataSize, Prefix
<1>2. /\ buffer[c] = EndOf(Len(handled)) /\ EndOf(Len(handled)) < received
  <2>1. buffer[c] = received - (writePos - c)
    BY <1>1 DEF FInv, IInv, InStep
  <2>2. received - ((writePos - readPos) - processLen) = EndOf(Len(handled))
    BY DEF FInv, Position, Used, DataSize
  <2> QED
    BY <1>1, <2>1, <2>2
<1>3. Len(handled) < Len(sent)
  <2>1. received <= EndOf(Len(sent))
    BY <1>1, Ends DEF FInv, Position
  <2>2. EndOf(Len(handled)) \in Nat /\ EndOf(Len(sent)) \in Nat
    BY <1>1, Ends
  <2>3. Len(handled) # Len(sent)
    BY <1>1, <1>2, <2>1, <2>2
  <2> QED
    BY <1>1, <2>3
<1>4. /\ i \in 1 .. Len(sent) /\ sent[i].at = buffer[c]
      /\ \A j \in 1 .. Len(sent) : sent[j].at = buffer[c] => j = i
  <2>1. i \in 1 .. Len(sent) /\ i - 1 = Len(handled)
    BY <1>1, <1>3
  <2>2. sent[i].at = buffer[c]
    BY <1>2, <2>1 DEF FInv, Ordered
  <2>3. ASSUME NEW j \in 1 .. Len(sent), NEW k \in 1 .. Len(sent), j < k
        PROVE  sent[j].at # sent[k].at
    <3>1. EndOf(j) <= sent[k].at
      BY <2>3 DEF FInv, Ordered
    <3>2. sent[j].at \in Nat /\ sent[k].at \in Nat
      BY Ends, <1>1
    <3>3. sent[j].size \in Nat \ {0} /\ EndOf(j) = sent[j].at + sent[j].size
      BY Ends, <1>1
    <3> QED
      BY <3>1, <3>2, <3>3
  <2>4. ASSUME NEW j \in 1 .. Len(sent), sent[j].at = buffer[c]
        PROVE  j = i
    <3>1. ~(j < i) /\ ~(i < j)
      BY <2>1, <2>2, <2>3, <2>4
    <3> QED
      BY <1>1, <2>1, <3>1
  <2> QED
    BY <2>1, <2>2, <2>4
<1>5. HeaderSizes(c) = {sent[i].size}
  <2>1. {j \in DOMAIN sent : sent[j].at = buffer[c]} = {i}
    BY <1>1, <1>4, Ends
  <2> QED
    BY <2>1 DEF HeaderSizes
<1>6. ASSUME sent[i].size <= DataSize - processLen
      PROVE  PacketAt(c, sent[i].size) = sent[i]
  <2>1. sent[i].size \in Nat \ {0} /\ sent[i].size <= writePos - c
    BY <1>1, <1>4, <1>6, Ends DEF DataSize
  <2>2. \A k \in 0 .. sent[i].size - 1 : buffer[c + k] = buffer[c] + k
    <3> SUFFICES ASSUME NEW k \in 0 .. sent[i].size - 1 PROVE buffer[c + k] = buffer[c] + k
      OBVIOUS
    <3>1. c + k \in readPos .. writePos - 1
      BY <1>1, <2>1
    <3>2. buffer[c + k] = received - (writePos - (c + k)) /\ buffer[c] = received - (writePos - c)
      BY <1>1, <3>1 DEF FInv, IInv, InStep
    <3> QED
      BY <1>1, <2>1, <3>2
  <2>3. PacketAt(c, sent[i].size) = [at |-> sent[i].at, size |-> sent[i].size]
    BY <1>4, <2>2 DEF PacketAt
  <2>4. sent[i] \in Packets
    BY <1>1, <1>4, Ends DEF TypeOK
  <2> QED
    BY <2>3, <2>4 DEF Packets
<1> QED
  BY <1>3, <1>5, <1>6

LEMMA HandlePacketFInv ==
    ASSUME FInv, HandlePacket
    PROVE  Ordered' /\ Prefix' /\ Position' /\ [Framing!Next]_(Framing!vars)
<1> DEFINE i == Len(handled) + 1
<1>1. /\ TypeOK /\ readPos \in Nat /\ writePos \in Nat /\ processLen \in Nat /\ received \in Nat
      /\ Len(handled) \in Nat /\ Len(sent) \in Nat
  BY Ends DEF FInv, IInv, TypeOK
<1>2. /\ i \in 1 .. Len(sent)
      /\ handled' = Append(handled, sent[i]) /\ processLen' = processLen + sent[i].size
      /\ UNCHANGED <<buffer, readPos, writePos, pc, received, sent>> /\ pc = "loop"
  BY <1>1, NextPacket DEF HandlePacket
<1>3. /\ Len(handled') = i /\ handled'[i] = sent[i]
      /\ \A j \in 1 .. Len(handled) : handled'[j] = handled[j]
  BY <1>1, <1>2 DEF TypeOK
<1>4. Ordered'
  BY <1>2 DEF FInv, Ordered, EndOf
<1>5. Prefix'
  BY <1>1, <1>2, <1>3 DEF FInv, Prefix
<1>6. Position'
  <2>1. EndOf(i) = EndOf(i - 1) + sent[i].size /\ sent[i].size \in Nat
    BY <1>1, <1>2, Ends DEF FInv, Ordered
  <2>2. received - ((writePos - readPos) - processLen) = EndOf(i - 1)
    BY <1>1, <1>2 DEF FInv, Position, Used, DataSize
  <2>3. received - ((writePos - readPos) - (processLen + sent[i].size)) = EndOf(i)
    BY <1>1, <2>1, <2>2
  <2>4. EndOf(Len(handled))' = EndOf(i)
    BY <1>2, <1>3 DEF EndOf
  <2> QED
    BY <1>2, <2>3, <2>4 DEF FInv, Position, Used, DataSize, Framing!StreamEnd
<1>7. Framing!Handle
  BY <1>1, <1>2 DEF Framing!Handle
<1> QED
  BY <1>4, <1>5, <1>6, <1>7 DEF Framing!Next

LEMMA OnReadFInv ==
    ASSUME FInv, OnRead
    PROVE  Ordered' /\ Prefix' /\ Position' /\ UNCHANGED Framing!vars
<1>1. /\ readPos \in Nat /\ writePos \in Nat /\ processLen \in Nat /\ received \in Nat
      /\ pc = "loop" /\ pc' = "clean" /\ readPos' = readPos + processLen
      /\ UNCHANGED <<writePos, processLen, received, sent, handled>>
  BY DEF FInv, IInv, TypeOK, OnRead
<1>2. Ordered' /\ Prefix'
  BY <1>1 DEF FInv, Ordered, Prefix, EndOf
<1>3. received - ((writePos - (readPos + processLen)) - 0) = EndOf(Len(handled))
  BY <1>1 DEF FInv, Position, Used, DataSize
<1>4. Position'
  BY <1>1, <1>3 DEF FInv, Position, Used, DataSize, EndOf, Framing!StreamEnd
<1> QED
  BY <1>1, <1>2, <1>4 DEF Framing!vars

LEMMA CleanFInv ==
    ASSUME FInv, Clean
    PROVE  Ordered' /\ Prefix' /\ Position' /\ UNCHANGED Framing!vars
<1>1. /\ readPos \in Nat /\ writePos \in Nat /\ received \in Nat
      /\ pc = "clean" /\ pc' = "recv"
      /\ UNCHANGED <<processLen, received, sent, handled>>
  BY DEF FInv, IInv, TypeOK, Clean
<1>2. writePos' - readPos' = writePos - readPos
  BY <1>1 DEF Clean, DataSize
<1>3. Ordered' /\ Prefix'
  BY <1>1 DEF FInv, Ordered, Prefix, EndOf
<1>4. Position'
  BY <1>1, <1>2 DEF FInv, Position, Used, DataSize, EndOf, Framing!StreamEnd
<1> QED
  BY <1>1, <1>3, <1>4 DEF Framing!vars

LEMMA NextFInv ==
    ASSUME FInv, [Next]_vars
    PROVE  FInv' /\ [Framing!Next]_(Framing!vars)
<1>1. IInv'
  BY NextIInv DEF FInv
<1>2. CASE \E n \in 1 .. Capacity : Receive(n)
  BY <1>1, <1>2, ReceiveFInv DEF FInv
<1>3. CASE HandlePacket
  BY <1>1, <1>3, HandlePacketFInv DEF FInv
<1>4. CASE OnRead
  BY <1>1, <1>4, OnReadFInv DEF FInv
<1>5. CASE Clean
  BY <1>1, <1>5, CleanFInv DEF FInv
<1>6. CASE \E n \in Sizes : PeerSends(n)
  BY <1>1, <1>6, PeerSendsFInv DEF FInv
<1>7. CASE UNCHANGED vars
  BY <1>1, <1>7 DEF vars, FInv, Ordered, Prefix, Position, Used, DataSize, EndOf,
     Framing!StreamEnd, Framing!vars
<1> QED
  BY <1>2, <1>3, <1>4, <1>5, <1>6, <1>7 DEF Next, Server

\* OnRecvPacket is called with the peer's packets, whole, once, in order,
\* whatever the receives (PacketSession::OnRecv); that it is called with all
\* of them is liveness and is checked by TLC.
THEOREM KeepsFraming == Spec => Framing!Spec
<1>1. FInv /\ [Next]_vars => FInv'
  BY NextFInv
<1>2. FInv /\ [Next]_vars => [Framing!Next]_(Framing!vars)
  BY NextFInv
<1> QED
  BY InitFInv, <1>1, <1>2, PTL DEF Spec, Framing!Spec
=============================================================================
