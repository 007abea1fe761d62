------------------------- MODULE ClientSessionProofs -------------------------
(***************************************************************************)
(* Theorems about ClientSession, for every size of packets and headers,    *)
(* any number of packets in both directions, Sends that fail and a release *)
(* at any moment.                                                          *)
(***************************************************************************)
EXTENDS ClientSession, SequenceTheorems, TLAPS

-----------------------------------------------------------------------------
(* Types *)

Frame == [at : Nat, size : Nat]
Packets == [at : Nat, size : Sizes]

\* Only what was sent arrives.
StreamTyped == /\ sent \in Seq(Packets)
               /\ handled \in Seq(Frame) /\ recvPacketQueue \in Seq(Frame)
               /\ packet \in Frame
               /\ arrived <= Framing!StreamEnd

\* What is wanted is what is missing of the header, of the packet.
Wanted == /\ pc = "readHeader" => taken + need = packet.at + HeaderSize
          /\ pc = "parse" => taken = packet.at + HeaderSize
          /\ pc \in {"payload", "readPayload"} => taken + need = packet.at + packet.size

\* SendWorker has a packet while it is in SendDesiredBytes.
SendTyped == /\ at \in [Workers -> {"run", "send", "unpin", "ended", "astray"}]
             /\ out \in 0 .. MaxOut /\ sending \in 0 .. MaxOut
             /\ sending # 0 <=> at["send"] = "send"
             /\ sending = 0 => size = 0
             /\ sendPacketQueue \in Seq(1 .. MaxOut)
             /\ finished \in Seq(1 .. MaxOut) /\ cut \in Seq(1 .. MaxOut)
             /\ written \in [1 .. MaxOut -> Nat]

RecvInv == TypeOK /\ StreamTyped /\ Wanted

LEMMA Streams ==
    ASSUME StreamTyped
    PROVE  /\ Len(sent) \in Nat /\ Len(handled) \in Nat /\ Len(recvPacketQueue) \in Nat
           /\ DOMAIN sent = 1 .. Len(sent)
           /\ \A i \in 1 .. Len(sent) : /\ sent[i] \in Packets
                                        /\ sent[i].at \in Nat
                                        /\ sent[i].size \in HeaderSize .. MaxPacket
           /\ packet.at \in Nat /\ packet.size \in Nat
           /\ Framing!StreamEnd \in Nat
           /\ Framing!StreamEnd > 0 => HeaderSize <= MaxPacket
<1>1. /\ Len(sent) \in Nat /\ Len(handled) \in Nat /\ Len(recvPacketQueue) \in Nat
      /\ DOMAIN sent = 1 .. Len(sent) /\ sent = << >> <=> Len(sent) = 0
  BY DEF StreamTyped
<1>2. \A i \in 1 .. Len(sent) : sent[i] \in Packets
  BY DEF StreamTyped
<1>3. \A i \in 1 .. Len(sent) : sent[i].at \in Nat /\ sent[i].size \in HeaderSize .. MaxPacket
  BY <1>2, SizesAssumption DEF Packets
<1>4. Framing!StreamEnd \in Nat /\ (Framing!StreamEnd > 0 => HeaderSize <= MaxPacket)
  <2>1. CASE sent = << >>
    BY <2>1 DEF Framing!StreamEnd
  <2>2. CASE sent # << >>
    <3>1. Len(sent) \in 1 .. Len(sent)
      BY <1>1, <2>2
    <3> QED
      BY <1>3, <2>2, <3>1, SizesAssumption DEF Framing!StreamEnd
  <2> QED
    BY <2>1, <2>2
<1> QED
  BY <1>1, <1>2, <1>3, <1>4 DEF StreamTyped, Frame

LEMMA ServerSendsInv ==
    ASSUME RecvInv, NEW n \in Sizes, ServerSends(n)
    PROVE  RecvInv' /\ Framing!StreamEnd' = Framing!StreamEnd + n
<1>1. n \in Nat /\ arrived \in Nat
  BY SizesAssumption DEF RecvInv, TypeOK
<1>2. /\ sent' = Append(sent, [at |-> Framing!StreamEnd, size |-> n])
      /\ UNCHANGED <<arrived, taken, pc, need, packet, recvPacketQueue, handled>>
  BY DEF ServerSends, Framing!Send, worker
<1>3. sent' \in Seq(Packets) /\ Len(sent') = Len(sent) + 1
      /\ sent'[Len(sent) + 1] = [at |-> Framing!StreamEnd, size |-> n]
  <2>1. [at |-> Framing!StreamEnd, size |-> n] \in Packets
    BY Streams DEF RecvInv, Packets
  <2> QED
    BY <1>2, <2>1, Streams, AppendProperties DEF RecvInv, StreamTyped
<1>4. Framing!StreamEnd' = Framing!StreamEnd + n
  <2>1. sent' # << >>
    BY <1>3, Streams DEF RecvInv
  <2> QED
    BY <1>3, <2>1 DEF Framing!StreamEnd
<1>5. arrived <= Framing!StreamEnd + n
  BY <1>1, Streams DEF RecvInv, StreamTyped
<1> QED
  BY <1>2, <1>3, <1>4, <1>5 DEF RecvInv, TypeOK, StreamTyped, Wanted

LEMMA ArriveInv ==
    ASSUME RecvInv, NEW n \in 1 .. MaxStream, Arrive(n)
    PROVE  RecvInv'
<1>1. /\ n \in Nat /\ arrived \in Nat /\ taken \in Nat /\ taken <= arrived
      /\ arrived' = arrived + n
      /\ UNCHANGED <<sent, taken, pc, need, packet, recvPacketQueue, handled>>
  BY SizesAssumption DEF RecvInv, TypeOK, Arrive, worker
<1>2. (arrived <= Framing!StreamEnd)'
  BY <1>1 DEF Arrive, Framing!StreamEnd
<1> QED
  BY <1>1, <1>2 DEF RecvInv, TypeOK, StreamTyped, Wanted

LEMMA ReadingInv ==
    ASSUME RecvInv,
           \/ AskHeader \/ Parse \/ AskPayload
           \/ \E n \in 1 .. MaxPacket : ReadHeader(n) \/ ReadPayload(n)
    PROVE  /\ RecvInv' /\ UNCHANGED <<sent, arrived, recvPacketQueue, handled>>
<1>1. /\ arrived \in Nat /\ taken \in Nat /\ need \in Nat /\ taken <= arrived
      /\ HeaderSize \in Nat \ {0} /\ MaxPacket \in Nat
      /\ packet.at \in Nat /\ packet.size \in Nat /\ packet \in Frame
      /\ Framing!StreamEnd \in Nat /\ arrived <= Framing!StreamEnd
      /\ need <= MaxPacket
  BY SizesAssumption, Streams DEF RecvInv, TypeOK, StreamTyped
<1>2. UNCHANGED <<sent, arrived, recvPacketQueue, handled>>
  BY DEF AskHeader, Parse, AskPayload, ReadHeader, ReadPayload
<1>3. (arrived <= Framing!StreamEnd)'
  BY <1>1, <1>2 DEF Framing!StreamEnd
<1>4. ASSUME packet' \in Frame, TypeOK', Wanted' PROVE RecvInv'
  BY <1>2, <1>3, <1>4 DEF RecvInv, StreamTyped
<1>5. CASE AskHeader
  <2>1. HeaderSize <= MaxPacket
    BY <1>1, <1>5, Streams DEF AskHeader, Pending, RecvInv
  <2> QED
    BY <1>1, <1>4, <1>5, <2>1 DEF AskHeader, TypeOK, Wanted, RecvInv, Frame
<1>6. CASE Parse
  <2>1. PICK n \in PacketSizes(packet.at) :
          /\ packet' = [packet EXCEPT !.size = n]
          /\ need' = n - HeaderSize
          /\ pc' = IF n = HeaderSize THEN "enqueue" ELSE "payload"
    BY <1>6 DEF Parse
  <2>2. n \in HeaderSize .. MaxPacket
    <3> DEFINE here == {i \in DOMAIN sent : sent[i].at = packet.at}
    <3>1. CASE here # {}
      BY <2>1, <3>1, Streams DEF PacketSizes, RecvInv
    <3>2. CASE here = {}
      BY <2>1, <3>2 DEF PacketSizes
    <3> QED
      BY <3>1, <3>2
  <2>3. packet' \in Frame /\ packet'.at = packet.at /\ packet'.size = n
    BY <1>1, <2>1, <2>2 DEF Frame
  <2> QED
    BY <1>1, <1>4, <1>6, <2>1, <2>2, <2>3 DEF Parse, TypeOK, Wanted, RecvInv
<1>7. CASE AskPayload
  BY <1>1, <1>4, <1>7 DEF AskPayload, TypeOK, Wanted, RecvInv
<1>8. ASSUME NEW n \in 1 .. MaxPacket, ReadHeader(n) PROVE RecvInv'
  BY <1>1, <1>4, <1>8 DEF ReadHeader, TypeOK, Wanted, RecvInv, Pending
<1>9. ASSUME NEW n \in 1 .. MaxPacket, ReadPayload(n) PROVE RecvInv'
  BY <1>1, <1>4, <1>9 DEF ReadPayload, TypeOK, Wanted, RecvInv, Pending
<1> QED
  BY <1>2, <1>5, <1>6, <1>7, <1>8, <1>9

LEMMA EnqueueInv == ASSUME RecvInv, Enqueue PROVE RecvInv'
  BY DEF RecvInv, Enqueue, TypeOK, StreamTyped, Wanted, Framing!StreamEnd

LEMMA HandleInv == ASSUME RecvInv, HandleRecvPacket PROVE RecvInv'
<1>1. Head(recvPacketQueue) \in Frame /\ Tail(recvPacketQueue) \in Seq(Frame)
  BY HeadTailProperties DEF RecvInv, StreamTyped, HandleRecvPacket
<1> QED
  BY <1>1 DEF RecvInv, HandleRecvPacket, TypeOK, StreamTyped, Wanted, Framing!StreamEnd

-----------------------------------------------------------------------------
(* Steps of the session *)

RecvVars == <<sent, arrived, taken, pc, need, packet, recvPacketQueue, handled>>

LEMMA SameRecv == ASSUME RecvInv, UNCHANGED RecvVars PROVE RecvInv'
  BY DEF RecvVars, RecvInv, TypeOK, StreamTyped, Wanted, Framing!StreamEnd

\* The queue of received packets may be emptied.
LEMMA EmptiedRecv ==
    ASSUME RecvInv, recvPacketQueue' = << >> \/ UNCHANGED recvPacketQueue,
           UNCHANGED <<sent, arrived, taken, pc, need, packet, handled>>
    PROVE  RecvInv'
<1>1. << >> \in Seq(Frame)
  OBVIOUS
<1> QED
  BY <1>1 DEF RecvInv, TypeOK, StreamTyped, Wanted, Framing!StreamEnd

\* SessionInv without the receive side.
Side == /\ held \in BOOLEAN /\ pins \subseteq Workers
        /\ teardown \in {"none", "begun", "stoppedRecv", "freedRecv", "stoppedSend", "done"}
        /\ running \in [Workers -> BOOLEAN]
        /\ at["recv"] \in {"run", "ended", "astray"}
        /\ at["send"] \in {"run", "send", "unpin", "ended", "astray"}
        /\ size \in 0 .. OutSize
        /\ "send" \in pins <=> at["send"] \in {"send", "unpin"}
        /\ "recv" \in pins => at["recv"] = "run"
        /\ Alive <=> held \/ pins # {}
        /\ SendTyped

SessionInv == RecvInv /\ Side

SideVars == <<held, pins, teardown, workers, sendSide>>

LEMMA SameSide == ASSUME Side, UNCHANGED SideVars PROVE Side'
  BY DEF Side, SideVars, workers, sendSide, SendTyped, Alive

\* What dropping a reference does: nothing more, or the end of the session,
\* which finds SendWorker without a packet.
LEMMA DropKinds ==
    ASSUME Side, NEW h \in BOOLEAN, NEW p \in SUBSET Workers, Drop(h, p)
    PROVE  /\ held' = h /\ pins' = p
           /\ \/ /\ h \/ p # {} \/ ~Alive
                 /\ UNCHANGED <<teardown, sendPacketQueue, recvPacketQueue, cut>>
              \/ /\ ~h /\ p = {} /\ Alive
                 /\ teardown' = "begun" /\ cut' = cut \o sendPacketQueue
                 /\ sendPacketQueue' = << >> /\ recvPacketQueue' = << >>
  BY DEF Drop

LEMMA DropSide ==
    ASSUME Side, NEW h \in BOOLEAN, NEW p \in SUBSET Workers, Drop(h, p),
           at' \in [Workers -> {"run", "send", "unpin", "ended", "astray"}],
           at'["recv"] = at["recv"],
           at'["send"] \in {"run", "send", "unpin", "ended", "astray"},
           "send" \in p <=> at'["send"] \in {"send", "unpin"},
           at'["send"] = "send" <=> at["send"] = "send",
           "recv" \in p => at["recv"] = "run",
           h \/ p # {} => Alive,
           UNCHANGED <<running, out, sending, size, written, finished>>
    PROVE  Side'
<1>1. /\ cut \in Seq(1 .. MaxOut) /\ sendPacketQueue \in Seq(1 .. MaxOut)
      /\ << >> \in Seq(1 .. MaxOut)
      /\ cut \o sendPacketQueue \in Seq(1 .. MaxOut)
  BY ConcatProperties DEF Side, SendTyped
<1>2. /\ held' = h /\ pins' = p
      /\ \/ /\ h \/ p # {} \/ ~Alive
            /\ UNCHANGED <<teardown, sendPacketQueue, cut>>
         \/ /\ ~h /\ p = {} /\ Alive
            /\ teardown' = "begun" /\ cut' = cut \o sendPacketQueue
            /\ sendPacketQueue' = << >>
  BY DropKinds
<1>3. Alive' <=> h \/ p # {}
  BY <1>2 DEF Alive
<1>4. SendTyped'
  BY <1>1, <1>2 DEF Side, SendTyped
<1> QED
  BY <1>2, <1>3, <1>4 DEF Side

LEMMA ReleaseInv == ASSUME SessionInv, Release PROVE SessionInv'
<1>1. RecvInv /\ Side
  BY DEF SessionInv
<1>2. RecvInv'
  BY <1>1, EmptiedRecv DEF Release, Drop
<1>3. Side'
  BY <1>1, DropSide DEF Release, Side, SendTyped, workers, Alive
<1> QED
  BY <1>2, <1>3 DEF SessionInv

LEMMA SendUnpinInv == ASSUME SessionInv, SendUnpin PROVE SessionInv'
<1>1. RecvInv /\ Side
  BY DEF SessionInv
<1>2. RecvInv'
  BY <1>1, EmptiedRecv DEF SendUnpin, Drop
<1>3. /\ at["send"] = "unpin" /\ at' = [at EXCEPT !["send"] = "run"]
      /\ at \in [Workers -> {"run", "send", "unpin", "ended", "astray"}]
      /\ "send" \in Workers /\ "recv" \in Workers
  BY <1>1 DEF SendUnpin, Side, SendTyped, Workers
<1>4. /\ at' \in [Workers -> {"run", "send", "unpin", "ended", "astray"}]
      /\ at'["send"] = "run" /\ at'["recv"] = at["recv"]
  BY <1>3
<1>5. pins \ {"send"} \in SUBSET Workers /\ held \in BOOLEAN
  BY <1>1 DEF Side
<1>6. Side'
  BY <1>1, <1>3, <1>4, <1>5, DropSide DEF SendUnpin, Side, workers
<1> QED
  BY <1>2, <1>6 DEF SessionInv

LEMMA RecvUnpinInv == ASSUME SessionInv, RecvUnpin PROVE SessionInv'
<1>1. RecvInv /\ Side
  BY DEF SessionInv
<1>2. RecvInv'
  BY <1>1, EmptiedRecv DEF RecvUnpin, Drop
<1>3. Side'
  <2>1. pins \ {"recv"} \in SUBSET Workers /\ held \in BOOLEAN
    BY <1>1 DEF Side
  <2> QED
    BY <1>1, <2>1, DropSide DEF RecvUnpin, Side, SendTyped, workers
<1> QED
  BY <1>2, <1>3 DEF SessionInv

LEMMA DisconnectInv == ASSUME SessionInv, Disconnect PROVE SessionInv'
<1>1. RecvInv /\ Side
  BY DEF SessionInv
<1>2. RecvInv'
  BY <1>1, SameRecv DEF Disconnect, RecvVars, vars, worker
<1>3. /\ ~Alive /\ ~Alive' /\ UNCHANGED <<held, pins, at, sendSide>>
      /\ teardown' \in {"stoppedRecv", "freedRecv", "stoppedSend", "done"}
      /\ running' \in [Workers -> BOOLEAN]
  BY <1>1 DEF Disconnect, Alive, Side
<1>4. Side'
  BY <1>1, <1>3 DEF Side, SendTyped, sendSide
<1> QED
  BY <1>2, <1>4 DEF SessionInv

LEMMA LeaveLoopInv == ASSUME SessionInv, NEW w \in Workers, LeaveLoop(w) PROVE SessionInv'
<1>1. RecvInv /\ Side
  BY DEF SessionInv
<1>2. RecvInv'
  BY <1>1, SameRecv DEF LeaveLoop, RecvVars, vars, worker
<1>3. Side'
  <2>1. PICK to \in {"ended", "astray"} : at' = [at EXCEPT ![w] = to]
    BY DEF LeaveLoop
  <2>2. at[w] = "run" /\ (w = "recv" => "recv" \notin pins) /\ UNCHANGED <<running, session, sendSide>>
    BY DEF LeaveLoop
  <2> QED
    BY <1>1, <2>1, <2>2 DEF Side, SendTyped, sendSide, session, Workers, Alive
<1> QED
  BY <1>2, <1>3 DEF SessionInv

LEMMA ReceiveFreedInv == ASSUME SessionInv, ReceiveFreed PROVE SessionInv'
<1>1. RecvInv /\ Side
  BY DEF SessionInv
<1>2. RecvInv'
  BY <1>1, SameRecv DEF ReceiveFreed, RecvVars, vars, worker
<1>3. Side'
  BY <1>1 DEF ReceiveFreed, Side, SendTyped, sendSide, session, Workers, Alive
<1> QED
  BY <1>2, <1>3 DEF SessionInv

LEMMA SendPinInv == ASSUME SessionInv, SendPin PROVE SessionInv'
<1>1. RecvInv /\ Side
  BY DEF SessionInv
<1>2. RecvInv'
  BY <1>1, SameRecv DEF SendPin, RecvVars, vars, worker
<1>3. /\ at["send"] = "run" /\ Alive /\ pins' = pins \cup {"send"}
      /\ UNCHANGED <<held, running, teardown, out, written, finished, cut>>
  BY DEF SendPin, Loops
<1>4. ASSUME sendPacketQueue = << >> PROVE Side'
  BY <1>1, <1>3, <1>4 DEF SendPin, Side, SendTyped, Workers, Alive
<1>5. ASSUME sendPacketQueue # << >> PROVE Side'
  <2>1. Head(sendPacketQueue) \in 1 .. MaxOut /\ Tail(sendPacketQueue) \in Seq(1 .. MaxOut)
    BY <1>1, <1>5, HeadTailProperties DEF Side, SendTyped
  <2>2. /\ at' = [at EXCEPT !["send"] = "send"]
        /\ sending' = Head(sendPacketQueue) /\ size' = OutSize
        /\ sendPacketQueue' = Tail(sendPacketQueue)
    BY <1>5 DEF SendPin
  <2>3. sending' \in 0 .. MaxOut /\ sending' # 0 /\ size' \in 0 .. OutSize
    BY <2>1, <2>2, OutAssumption
  <2> QED
    BY <1>1, <1>3, <2>1, <2>2, <2>3 DEF Side, SendTyped, Workers, Alive
<1> QED
  BY <1>2, <1>4, <1>5 DEF SessionInv, Side

LEMMA SendBytesInv == ASSUME SessionInv, NEW n \in 1 .. OutSize, SendBytes(n) PROVE SessionInv'
<1>1. RecvInv /\ Side
  BY DEF SessionInv
<1>2. RecvInv'
  BY <1>1, SameRecv DEF SendBytes, RecvVars, vars, worker
<1>3. /\ sending \in 1 .. MaxOut /\ n \in Nat /\ size \in Nat /\ n <= size /\ size <= OutSize
      /\ written \in [1 .. MaxOut -> Nat]
  BY <1>1, OutAssumption DEF SendBytes, Side, SendTyped
<1>4. written' \in [1 .. MaxOut -> Nat] /\ size' \in 0 .. OutSize
  BY <1>3, OutAssumption DEF SendBytes
<1> QED
  BY <1>1, <1>2, <1>3, <1>4 DEF SessionInv, SendBytes, Side, SendTyped, workers, session, Alive

LEMMA SendPacketEndsInv == ASSUME SessionInv, SendPacketEnds PROVE SessionInv'
<1>1. RecvInv /\ Side
  BY DEF SessionInv
<1>2. RecvInv'
  BY <1>1, SameRecv DEF SendPacketEnds, RecvVars, vars, worker
<1>3. sending \in 1 .. MaxOut
  BY <1>1 DEF SendPacketEnds, Side, SendTyped
<1>4. finished' \in Seq(1 .. MaxOut) /\ cut' \in Seq(1 .. MaxOut)
  <2>1. finished \in Seq(1 .. MaxOut) /\ cut \in Seq(1 .. MaxOut)
    BY <1>1 DEF Side, SendTyped
  <2>2. Append(finished, sending) \in Seq(1 .. MaxOut) /\ Append(cut, sending) \in Seq(1 .. MaxOut)
    BY <1>3, <2>1, AppendProperties
  <2> QED
    BY <2>1, <2>2 DEF SendPacketEnds
<1>5. /\ at["send"] = "send" /\ at' = [at EXCEPT !["send"] = "unpin"]
      /\ sending' = 0 /\ size' = 0
      /\ UNCHANGED <<running, held, pins, teardown, out, sendPacketQueue, written>>
  BY DEF SendPacketEnds, session
<1>6. Side'
  BY <1>1, <1>4, <1>5, OutAssumption DEF Side, SendTyped, Workers, Alive
<1> QED
  BY <1>2, <1>6 DEF SessionInv

LEMMA SendPacketInv == ASSUME SessionInv, SendPacket PROVE SessionInv'
<1>1. RecvInv /\ Side
  BY DEF SessionInv
<1>2. RecvInv'
  BY <1>1, SameRecv DEF SendPacket, RecvVars, vars, worker
<1>3. out + 1 \in 1 .. MaxOut /\ Append(sendPacketQueue, out + 1) \in Seq(1 .. MaxOut)
  BY <1>1, OutAssumption, AppendProperties DEF SendPacket, Side, SendTyped
<1> QED
  BY <1>1, <1>2, <1>3, OutAssumption DEF SessionInv, SendPacket, Side, SendTyped, workers, session, Alive

LEMMA RecvPinInv == ASSUME SessionInv, RecvPin PROVE SessionInv'
<1>1. RecvInv /\ Side
  BY DEF SessionInv
<1>2. RecvInv'
  BY <1>1 DEF RecvPin, RecvInv, TypeOK, StreamTyped, Wanted, Framing!StreamEnd
<1>3. Side'
  BY <1>1 DEF RecvPin, Side, SendTyped, sendSide, workers, Alive, Workers
<1> QED
  BY <1>2, <1>3 DEF SessionInv

\* Steps of ClientStream that leave the rest of the session alone.
LEMMA StreamStepInv ==
    ASSUME SessionInv, Network \/ Receive \/ RecvEnqueue \/ HandleRecvPackets
    PROVE  SessionInv'
<1>1. RecvInv /\ Side
  BY DEF SessionInv
<1>2. Side'
  BY <1>1, SameSide DEF SideVars, session, Network, Receive, RecvEnqueue, HandleRecvPackets
<1>3. RecvInv'
  BY <1>1, ServerSendsInv, ArriveInv, ReadingInv, EnqueueInv, HandleInv
     DEF Network, Receive, RecvEnqueue, HandleRecvPackets
<1> QED
  BY <1>2, <1>3 DEF SessionInv

LEMMA InitSessionInv == SessionInit => SessionInv
<1> SUFFICES ASSUME SessionInit PROVE SessionInv
  OBVIOUS
<1>1. RecvInv
  BY SizesAssumption DEF SessionInit, Init, RecvInv, TypeOK, StreamTyped, Wanted, NoPacket, Frame,
     Framing!StreamEnd
<1>2. Side
  BY OutAssumption DEF SessionInit, Side, SendTyped, Alive, Workers
<1> QED
  BY <1>1, <1>2 DEF SessionInv

LEMMA NextSessionInv == SessionInv /\ [SessionNext]_all => SessionInv'
<1> SUFFICES ASSUME SessionInv, [SessionNext]_all PROVE SessionInv'
  OBVIOUS
<1>1. CASE UNCHANGED all
  BY <1>1, SameRecv, SameSide DEF SessionInv, all, RecvVars, SideVars, vars, worker, session
<1>2. CASE SessionNext
  BY <1>2, StreamStepInv, SendPacketInv, ReleaseInv, DisconnectInv, SendPinInv, SendBytesInv,
     SendPacketEndsInv, SendUnpinInv, RecvPinInv, RecvUnpinInv, ReceiveFreedInv, LeaveLoopInv
     DEF SessionNext, SendRun, RecvRun
<1> QED
  BY <1>1, <1>2

LEMMA AlwaysSessionInv == SessionSpec => []SessionInv
  BY InitSessionInv, NextSessionInv, PTL DEF SessionSpec

\* The session lives as long as the game or a worker holds it, and the workers
\* hold it exactly where they use its queues, whatever thread drops the last
\* reference.
THEOREM SessionTypeCorrect == SessionSpec => []SessionTypeOK
<1>1. SessionInv => SessionTypeOK
  BY DEF SessionInv, RecvInv, Side, SessionTypeOK
<1> QED
  BY <1>1, AlwaysSessionInv, PTL

-----------------------------------------------------------------------------
(***************************************************************************)
(* The server's packets                                                    *)
(*                                                                         *)
(* What RecvWorker has taken out of the stream and the game thread has not *)
(* handled is in the queue, so that the packet being read is the one after *)
(* those (InStep).  That the header is not lost rests on NotCut: no bytes  *)
(* arrive that end between a header and its payload.                       *)
(***************************************************************************)

\* Where the first k packets end in the stream.
EndOf(k) == IF k = 0 THEN 0 ELSE sent[k].at + sent[k].size

\* The packets sent lie one behind the other.
Ordered == /\ \A i \in 1 .. Len(sent) : sent[i].at = EndOf(i - 1)
           /\ \A i, j \in 1 .. Len(sent) : i < j => EndOf(i) <= sent[j].at

Got == Len(handled) + Len(recvPacketQueue)

\* What was handled, and then what is in the queue, is what was sent first.
Prefix == /\ Got <= Len(sent)
          /\ \A i \in 1 .. Len(handled) : handled[i] = sent[i]
          /\ \A i \in 1 .. Len(recvPacketQueue) : recvPacketQueue[i] = sent[Len(handled) + i]

\* Where the packet starts that is being read, or will be next.
Place == IF pc = "header" THEN taken ELSE packet.at

InStep == Alive =>
    /\ Place = EndOf(Got)
    /\ pc = "payload" => taken \in HeaderEnds
    /\ pc \in {"payload", "readPayload", "enqueue"} => Got < Len(sent) /\ packet = sent[Got + 1]

NotCut == arrived \notin HeaderEnds

Follows == Ordered /\ Prefix /\ InStep /\ NotCut

FInv == SessionInv /\ Follows

LEMMA Ends ==
    ASSUME StreamTyped
    PROVE  /\ Framing!StreamEnd = EndOf(Len(sent))
           /\ \A i \in 1 .. Len(sent) : /\ EndOf(i) = sent[i].at + sent[i].size
                                        /\ sent[i].at < EndOf(i)
           /\ \A i \in 0 .. Len(sent) : EndOf(i) \in Nat
<1>1. \A i \in 1 .. Len(sent) : EndOf(i) = sent[i].at + sent[i].size
  BY Streams DEF EndOf
<1>2. \A i \in 0 .. Len(sent) : EndOf(i) \in Nat
  BY Streams, SizesAssumption DEF EndOf
<1>3. Framing!StreamEnd = EndOf(Len(sent))
  BY Streams DEF EndOf, Framing!StreamEnd, StreamTyped
<1>4. ASSUME NEW i \in 1 .. Len(sent) PROVE sent[i].at < EndOf(i)
  <2>1. sent[i].at \in Nat /\ sent[i].size \in HeaderSize .. MaxPacket
    BY Streams
  <2>2. HeaderSize \in Nat /\ HeaderSize > 0 /\ EndOf(i) = sent[i].at + sent[i].size
    BY <1>1, SizesAssumption
  <2> QED
    BY <2>1, <2>2
<1> QED
  BY <1>1, <1>2, <1>3, <1>4

LEMMA InitFInv == SessionInit => FInv /\ Framing!Init
<1> SUFFICES ASSUME SessionInit PROVE FInv /\ Framing!Init
  OBVIOUS
<1>1. /\ sent = << >> /\ handled = << >> /\ recvPacketQueue = << >>
      /\ Len(sent) = 0 /\ Len(handled) = 0 /\ Len(recvPacketQueue) = 0
      /\ pc = "header" /\ taken = 0 /\ arrived = 0
  BY DEF SessionInit, Init
<1>2. Ordered /\ Prefix
  BY <1>1 DEF Ordered, Prefix, Got
<1>3. InStep /\ NotCut
  BY <1>1 DEF InStep, NotCut, HeaderEnds, Place, EndOf, Got
<1> QED
  BY <1>1, <1>2, <1>3, InitSessionInv DEF FInv, Follows, Framing!Init

LEMMA ServerSendsFollows ==
    ASSUME FInv, NEW n \in Sizes, ServerSends(n), UNCHANGED session
    PROVE  Follows' /\ Framing!Send(n)
<1>1. /\ RecvInv /\ StreamTyped /\ n \in HeaderSize .. MaxPacket /\ Len(sent) \in Nat
      /\ Len(handled) \in Nat /\ Len(recvPacketQueue) \in Nat
      /\ HeaderSize \in Nat \ {0} /\ arrived \in Nat
  BY SizesAssumption, Streams DEF FInv, SessionInv, RecvInv, TypeOK
<1>2. /\ sent' = Append(sent, [at |-> Framing!StreamEnd, size |-> n])
      /\ UNCHANGED <<arrived, taken, pc, need, packet, recvPacketQueue, handled, teardown>>
  BY DEF ServerSends, Framing!Send, worker, session
<1>3. /\ Len(sent') = Len(sent) + 1
      /\ \A i \in 1 .. Len(sent) : sent'[i] = sent[i]
      /\ sent'[Len(sent) + 1].at = EndOf(Len(sent))
      /\ sent'[Len(sent) + 1].size = n
  BY <1>1, <1>2, Ends DEF StreamTyped
<1>4. \A i \in 0 .. Len(sent) : EndOf(i)' = EndOf(i)
  BY <1>1, <1>3 DEF EndOf
<1>5. Ordered'
  <2>1. ASSUME NEW i \in 1 .. Len(sent) + 1
        PROVE  sent'[i].at = EndOf(i - 1)'
    <3>1. CASE i \in 1 .. Len(sent)
      BY <1>1, <1>3, <1>4, <3>1 DEF FInv, Follows, Ordered
    <3>2. CASE i = Len(sent) + 1
      BY <1>1, <1>3, <1>4, <3>2
    <3> QED
      BY <1>1, <3>1, <3>2
  <2>2. ASSUME NEW i \in 1 .. Len(sent) + 1, NEW j \in 1 .. Len(sent) + 1, i < j
        PROVE  EndOf(i)' <= sent'[j].at
    <3>1. CASE j \in 1 .. Len(sent)
      <4>1. i \in 1 .. Len(sent) /\ i \in 0 .. Len(sent)
        BY <1>1, <2>2, <3>1
      <4>2. EndOf(i) <= sent[j].at
        BY <2>2, <3>1, <4>1 DEF FInv, Follows, Ordered
      <4>3. EndOf(i)' = EndOf(i) /\ sent'[j] = sent[j]
        BY <1>3, <1>4, <3>1, <4>1
      <4> QED
        BY <4>2, <4>3
    <3>2. CASE j = Len(sent) + 1
      <4>1. EndOf(i)' = EndOf(i) /\ sent'[j].at = EndOf(Len(sent)) /\ i \in 1 .. Len(sent)
        BY <1>1, <1>3, <1>4, <2>2, <3>2
      <4>2. CASE i = Len(sent)
        BY <1>1, <4>1, <4>2, Ends
      <4>3. CASE i < Len(sent)
        <5>1. EndOf(i) <= sent[Len(sent)].at
          BY <1>1, <4>1, <4>3 DEF FInv, Follows, Ordered
        <5>2. /\ sent[Len(sent)].at < EndOf(Len(sent)) /\ EndOf(i) \in Nat
              /\ EndOf(Len(sent)) \in Nat /\ sent[Len(sent)].at \in Nat
          BY <1>1, <4>1, Ends, Streams
        <5> QED
          BY <4>1, <5>1, <5>2
      <4> QED
        BY <1>1, <4>1, <4>2, <4>3
    <3> QED
      BY <1>1, <3>1, <3>2
  <2> QED
    BY <1>3, <2>1, <2>2 DEF Ordered
<1>6. /\ Got' = Got /\ Got \in Nat /\ Got <= Len(sent)
      /\ \A i \in 1 .. Len(recvPacketQueue) : Len(handled) + i \in 1 .. Len(sent)
      /\ \A i \in 1 .. Len(handled) : i \in 1 .. Len(sent)
  BY <1>1, <1>2 DEF FInv, Follows, Prefix, Got
<1>7. Prefix'
  BY <1>1, <1>2, <1>3, <1>6 DEF FInv, Follows, Prefix
<1>8. HeaderEnds \subseteq HeaderEnds'
  BY <1>1, <1>3, Streams DEF HeaderEnds, FInv, SessionInv, StreamTyped
<1>9. InStep'
  <2>1. EndOf(Got)' = EndOf(Got)
    BY <1>4, <1>6
  <2>2. Got < Len(sent) => sent'[Got + 1] = sent[Got + 1] /\ Got < Len(sent')
    BY <1>1, <1>3, <1>6
  <2> QED
    BY <1>2, <1>6, <1>8, <2>1, <2>2 DEF FInv, Follows, InStep, Place, Alive
<1>10. NotCut'
  <2>1. arrived <= EndOf(Len(sent)) /\ EndOf(Len(sent)) \in Nat
    BY <1>1, Ends DEF StreamTyped
  <2>2. ASSUME NEW i \in 1 .. Len(sent) + 1, sent'[i].size > HeaderSize
        PROVE  arrived # sent'[i].at + HeaderSize
    <3>1. CASE i \in 1 .. Len(sent)
      BY <1>1, <1>3, <2>2, <3>1, Streams DEF FInv, Follows, NotCut, HeaderEnds
    <3>2. CASE i = Len(sent) + 1
      BY <1>1, <1>3, <2>1, <3>2
    <3> QED
      BY <1>1, <3>1, <3>2
  <2>3. DOMAIN sent' = 1 .. Len(sent) + 1
    BY <1>1, <1>2 DEF StreamTyped
  <2> QED
    BY <1>2, <2>2, <2>3 DEF NotCut, HeaderEnds
<1>11. Framing!Send(n)
  BY DEF ServerSends
<1> QED
  BY <1>5, <1>7, <1>9, <1>10, <1>11 DEF Follows

LEMMA ArriveFollows ==
    ASSUME FInv, ~CutAfterHeader, NEW n \in 1 .. MaxStream, Arrive(n), UNCHANGED session
    PROVE  Follows' /\ UNCHANGED Framing!vars
<1>1. /\ UNCHANGED <<sent, taken, pc, need, packet, recvPacketQueue, handled, teardown>>
      /\ arrived' \notin HeaderEnds
  BY DEF Arrive, worker, session
<1>2. Ordered' /\ Prefix' /\ InStep'
  BY <1>1 DEF FInv, Follows, Ordered, Prefix, InStep, EndOf, Got, Place, Alive, HeaderEnds
<1>3. NotCut'
  BY <1>1 DEF NotCut, HeaderEnds
<1> QED
  BY <1>1, <1>2, <1>3 DEF Follows, Framing!vars

\* The header that is parsed is the one of the packet after those in the queue.
LEMMA NextPacket ==
    ASSUME FInv, Alive, pc = "parse"
    PROVE  /\ Got < Len(sent) /\ Got + 1 \in 1 .. Len(sent)
           /\ packet.at = sent[Got + 1].at
           /\ PacketSizes(packet.at) = {sent[Got + 1].size}
<1>1. /\ RecvInv /\ StreamTyped /\ Len(sent) \in Nat /\ Got \in Nat /\ Got <= Len(sent)
      /\ HeaderSize \in Nat \ {0} /\ arrived \in Nat /\ taken \in Nat /\ taken <= arrived
      /\ packet.at \in Nat
  BY SizesAssumption, Streams DEF FInv, SessionInv, RecvInv, TypeOK, Got, Follows, Prefix
<1>2. packet.at = EndOf(Got) /\ taken = packet.at + HeaderSize /\ arrived <= EndOf(Len(sent))
  BY <1>1, Ends DEF FInv, Follows, InStep, Place, RecvInv, Wanted, StreamTyped
<1>3. Got < Len(sent)
  BY <1>1, <1>2
<1>4. /\ Got + 1 \in 1 .. Len(sent) /\ sent[Got + 1].at = packet.at
  BY <1>1, <1>2, <1>3 DEF FInv, Follows, Ordered
<1>5. ASSUME NEW j \in 1 .. Len(sent), NEW k \in 1 .. Len(sent), j < k
      PROVE  sent[j].at # sent[k].at
  <2>1. EndOf(j) <= sent[k].at
    BY <1>5 DEF FInv, Follows, Ordered
  <2>2. sent[j].at \in Nat /\ sent[k].at \in Nat
    BY <1>1, Streams
  <2>3. sent[j].at < EndOf(j)
    BY <1>1, Ends
  <2>4. EndOf(j) \in Nat
    BY <1>1, Ends
  <2> QED
    BY <2>1, <2>2, <2>3, <2>4
<1>6. ASSUME NEW j \in 1 .. Len(sent), sent[j].at = packet.at
      PROVE  j = Got + 1
  <2>1. ~(j < Got + 1) /\ ~(Got + 1 < j)
    BY <1>4, <1>5, <1>6
  <2> QED
    BY <1>1, <2>1
<1>7. {j \in DOMAIN sent : sent[j].at = packet.at} = {Got + 1}
  BY <1>1, <1>4, <1>6, Streams
<1> QED
  BY <1>3, <1>4, <1>7 DEF PacketSizes

LEMMA ReadingFollows ==
    ASSUME FInv, UNCHANGED session,
           \/ AskHeader \/ Parse \/ AskPayload
           \/ \E n \in 1 .. MaxPacket : ReadHeader(n) \/ ReadPayload(n)
    PROVE  Follows' /\ UNCHANGED Framing!vars
<1>1. /\ RecvInv /\ UNCHANGED <<sent, arrived, recvPacketQueue, handled, teardown>>
      /\ arrived \in Nat /\ taken \in Nat /\ taken <= arrived /\ HeaderSize \in Nat
  BY ReadingInv, SizesAssumption DEF FInv, SessionInv, session, RecvInv, TypeOK
<1>2. Ordered' /\ Prefix' /\ NotCut' /\ Alive' = Alive
  BY <1>1 DEF FInv, Follows, Ordered, Prefix, NotCut, EndOf, Got, HeaderEnds, Alive
<1>3. Got' = Got /\ EndOf(Got)' = EndOf(Got) /\ HeaderEnds' = HeaderEnds
  BY <1>1 DEF EndOf, Got, HeaderEnds
<1>4. ASSUME Alive PROVE InStep'
  <2>1. CASE AskHeader
    BY <1>1, <1>3, <1>4, <2>1 DEF AskHeader, InStep, Place, FInv, Follows
  <2>2. CASE Parse
    <3>1. /\ Got < Len(sent) /\ Got + 1 \in 1 .. Len(sent)
          /\ packet.at = sent[Got + 1].at
          /\ PacketSizes(packet.at) = {sent[Got + 1].size}
          /\ pc = "parse" /\ taken = packet.at + HeaderSize
      BY <1>1, <1>4, <2>2, NextPacket DEF Parse, RecvInv, Wanted
    <3>2. /\ packet' = [packet EXCEPT !.size = sent[Got + 1].size]
          /\ pc' = IF sent[Got + 1].size = HeaderSize THEN "enqueue" ELSE "payload"
          /\ taken' = taken
      BY <2>2, <3>1 DEF Parse
    <3>3. packet \in Frame /\ sent[Got + 1] \in Packets /\ sent[Got + 1].size \in HeaderSize .. MaxPacket
      BY <1>1, <3>1, Streams DEF RecvInv, StreamTyped
    <3>4. packet' = sent[Got + 1]
      BY <3>1, <3>2, <3>3 DEF Frame, Packets
    <3>5. pc' = "payload" => taken \in HeaderEnds
      <4>1. Got + 1 \in DOMAIN sent /\ taken = sent[Got + 1].at + HeaderSize
        BY <1>1, <3>1, Streams DEF RecvInv
      <4>2. pc' = "payload" => sent[Got + 1].size # HeaderSize
        BY <3>2
      <4>3. sent[Got + 1].size \in Nat /\ sent[Got + 1].size >= HeaderSize
        BY <3>3, SizesAssumption
      <4> QED
        BY <1>1, <4>1, <4>2, <4>3 DEF HeaderEnds
    <3>6. Place = EndOf(Got)
      BY <1>4 DEF FInv, Follows, InStep
    <3>7. Place' = EndOf(Got)
      BY <3>1, <3>2, <3>4, <3>6 DEF Place
    <3> QED
      BY <1>1, <1>3, <3>1, <3>2, <3>4, <3>5, <3>7 DEF InStep
  <2>3. CASE AskPayload
    <3>1. Pending > 0
      BY <1>1, <1>4, <2>3 DEF AskPayload, FInv, Follows, InStep, NotCut, Pending
    <3> QED
      BY <1>1, <1>3, <1>4, <2>3, <3>1 DEF AskPayload, InStep, Place, FInv, Follows
  <2>4. CASE \E n \in 1 .. MaxPacket : ReadHeader(n)
    BY <1>1, <1>3, <1>4, <2>4 DEF ReadHeader, InStep, Place, FInv, Follows
  <2>5. CASE \E n \in 1 .. MaxPacket : ReadPayload(n)
    BY <1>1, <1>3, <1>4, <2>5 DEF ReadPayload, InStep, Place, FInv, Follows
  <2> QED
    BY <2>1, <2>2, <2>3, <2>4, <2>5
<1> QED
  BY <1>1, <1>2, <1>4 DEF Follows, InStep, Framing!vars

LEMMA EnqueueFollows ==
    ASSUME FInv, RecvEnqueue
    PROVE  Follows' /\ UNCHANGED Framing!vars
<1>1. /\ RecvInv /\ StreamTyped /\ Alive /\ pc = "enqueue" /\ pc' = "header"
      /\ recvPacketQueue' = Append(recvPacketQueue, packet)
      /\ UNCHANGED <<sent, arrived, taken, handled, teardown>>
      /\ Len(handled) \in Nat /\ Len(recvPacketQueue) \in Nat /\ Len(sent) \in Nat
  BY Streams DEF FInv, SessionInv, RecvInv, Side, RecvEnqueue, Enqueue, session
<1>2. /\ Got < Len(sent) /\ packet = sent[Got + 1] /\ packet.at = EndOf(Got)
      /\ taken = packet.at + packet.size
  BY <1>1 DEF FInv, Follows, InStep, Place, RecvInv, TypeOK
<1>3. /\ Len(recvPacketQueue') = Len(recvPacketQueue) + 1
      /\ recvPacketQueue'[Len(recvPacketQueue) + 1] = packet
      /\ \A i \in 1 .. Len(recvPacketQueue) : recvPacketQueue'[i] = recvPacketQueue[i]
  BY <1>1 DEF StreamTyped
<1>4. Got' = Got + 1 /\ Got = Len(handled) + Len(recvPacketQueue)
  BY <1>1, <1>3 DEF Got
<1>5. Prefix'
  <2>1. ASSUME NEW i \in 1 .. Len(recvPacketQueue')
        PROVE  recvPacketQueue'[i] = sent[Len(handled) + i]
    <3>1. CASE i = Len(recvPacketQueue) + 1
      BY <1>1, <1>2, <1>3, <1>4, <3>1
    <3>2. CASE i \in 1 .. Len(recvPacketQueue)
      BY <1>3, <3>2 DEF FInv, Follows, Prefix
    <3> QED
      BY <1>1, <1>3, <3>1, <3>2
  <2> QED
    BY <1>1, <1>2, <1>4, <2>1 DEF FInv, Follows, Prefix
<1>6. EndOf(Got + 1) = taken
  BY <1>1, <1>2, <1>4 DEF EndOf
<1>7. InStep'
  BY <1>1, <1>4, <1>6 DEF InStep, Place, EndOf
<1>8. Ordered' /\ NotCut'
  BY <1>1 DEF FInv, Follows, Ordered, NotCut, EndOf, HeaderEnds
<1> QED
  BY <1>1, <1>5, <1>7, <1>8 DEF Follows, Framing!vars

LEMMA HandleFollows ==
    ASSUME FInv, HandleRecvPackets
    PROVE  Follows' /\ Framing!Handle
<1>1. /\ RecvInv /\ StreamTyped /\ recvPacketQueue # << >>
      /\ handled' = Append(handled, Head(recvPacketQueue))
      /\ recvPacketQueue' = Tail(recvPacketQueue)
      /\ UNCHANGED <<sent, arrived, taken, pc, packet, teardown>>
      /\ Len(handled) \in Nat /\ Len(recvPacketQueue) \in Nat /\ Len(sent) \in Nat
      /\ Len(recvPacketQueue) > 0
  BY Streams DEF FInv, SessionInv, RecvInv, HandleRecvPackets, HandleRecvPacket, session, StreamTyped
<1>2. /\ Len(handled') = Len(handled) + 1
      /\ handled'[Len(handled) + 1] = Head(recvPacketQueue)
      /\ \A i \in 1 .. Len(handled) : handled'[i] = handled[i]
      /\ Head(recvPacketQueue) = recvPacketQueue[1]
      /\ Len(recvPacketQueue') = Len(recvPacketQueue) - 1
      /\ \A i \in 1 .. Len(recvPacketQueue) - 1 : recvPacketQueue'[i] = recvPacketQueue[i + 1]
  BY <1>1, HeadTailProperties DEF StreamTyped
<1>3. Head(recvPacketQueue) = sent[Len(handled) + 1] /\ Len(handled) < Len(sent)
  BY <1>1, <1>2 DEF FInv, Follows, Prefix, Got
<1>4. Got' = Got
  BY <1>1, <1>2 DEF Got
<1>5. Prefix'
  <2>1. \A i \in 1 .. Len(recvPacketQueue') : recvPacketQueue'[i] = sent[Len(handled') + i]
    BY <1>1, <1>2 DEF FInv, Follows, Prefix
  <2>2. \A i \in 1 .. Len(handled') : handled'[i] = sent[i]
    BY <1>1, <1>2, <1>3 DEF FInv, Follows, Prefix
  <2> QED
    BY <1>1, <1>4, <2>1, <2>2 DEF FInv, Follows, Prefix
<1>6. InStep'
  BY <1>1, <1>4 DEF FInv, Follows, InStep, Place, EndOf, Alive, HeaderEnds
<1>7. Ordered' /\ NotCut'
  BY <1>1 DEF FInv, Follows, Ordered, NotCut, EndOf, HeaderEnds
<1>8. Framing!Handle
  BY <1>1, <1>3 DEF Framing!Handle
<1> QED
  BY <1>5, <1>6, <1>7, <1>8 DEF Follows

\* Steps that read and handle nothing.  The queue is emptied only when the
\* session ends.
LEMMA QuietFollows ==
    ASSUME FInv, UNCHANGED <<sent, arrived, handled>>,
           \/ UNCHANGED <<taken, pc, packet, recvPacketQueue>> /\ (Alive' => Alive)
           \/ UNCHANGED recvPacketQueue /\ ~Alive'
           \/ recvPacketQueue' = << >> /\ ~Alive'
    PROVE  Follows' /\ UNCHANGED Framing!vars
<1>1. /\ Len(handled) \in Nat /\ Len(recvPacketQueue) \in Nat /\ Len(sent) \in Nat
  BY Streams DEF FInv, SessionInv, RecvInv
<1>2. Ordered' /\ NotCut'
  BY DEF FInv, Follows, Ordered, NotCut, EndOf, HeaderEnds
<1>3. Prefix'
  <2>1. CASE UNCHANGED recvPacketQueue
    BY <2>1 DEF FInv, Follows, Prefix, Got
  <2>2. CASE recvPacketQueue' = << >>
    <3>1. Len(recvPacketQueue') = 0
      BY <2>2
    <3> QED
      BY <1>1, <3>1 DEF FInv, Follows, Prefix, Got
  <2> QED
    BY <2>1, <2>2
<1>4. InStep'
  BY DEF FInv, Follows, InStep, Place, EndOf, Got, Alive, HeaderEnds
<1> QED
  BY <1>2, <1>3, <1>4 DEF Follows, Framing!vars

LEMMA DropFollows ==
    ASSUME FInv, NEW h \in BOOLEAN, NEW p \in SUBSET Workers, Drop(h, p),
           UNCHANGED <<sent, arrived, taken, pc, packet, handled>>
    PROVE  Follows' /\ UNCHANGED Framing!vars
<1>1. \/ UNCHANGED <<teardown, recvPacketQueue>>
      \/ teardown' = "begun" /\ recvPacketQueue' = << >>
  BY DropKinds DEF FInv, SessionInv
<1> QED
  BY <1>1, QuietFollows DEF Alive

LEMMA SendRunFollows == ASSUME FInv, SendRun PROVE Follows' /\ UNCHANGED Framing!vars
<1>1. CASE SendPin \/ (\E n \in 1 .. OutSize : SendBytes(n)) \/ SendPacketEnds
  BY <1>1, QuietFollows DEF SendPin, SendBytes, SendPacketEnds, vars, worker, session, Alive
<1>2. CASE SendUnpin
  <2>1. pins \ {"send"} \in SUBSET Workers /\ held \in BOOLEAN
    BY DEF FInv, SessionInv, Side
  <2> QED
    BY <1>2, <2>1, DropFollows DEF SendUnpin
<1> QED
  BY <1>1, <1>2 DEF SendRun

LEMMA NextFInv ==
    ASSUME FInv, ~CutAfterHeader, [SessionNext]_all
    PROVE  FInv' /\ [Framing!Next]_(Framing!vars)
<1>1. SessionInv'
  BY NextSessionInv DEF FInv
<1>2. /\ held \in BOOLEAN /\ pins \in SUBSET Workers /\ FALSE \in BOOLEAN
      /\ pins \ {"recv"} \in SUBSET Workers
  BY DEF FInv, SessionInv, Side
<1>3. CASE Network
  BY <1>1, <1>3, ServerSendsFollows, ArriveFollows DEF Network, FInv, Framing!Next
<1>4. CASE Receive
  BY <1>1, <1>4, ReadingFollows DEF Receive, FInv
<1>5. CASE RecvEnqueue
  BY <1>1, <1>5, EnqueueFollows DEF FInv
<1>6. CASE HandleRecvPackets
  BY <1>1, <1>6, HandleFollows DEF FInv, Framing!Next
<1>7. CASE RecvPin
  BY <1>1, <1>7, QuietFollows DEF RecvPin, FInv, Alive
<1>8. CASE RecvUnpin
  BY <1>1, <1>2, <1>8, DropFollows DEF RecvUnpin, FInv
<1>9. CASE Release
  BY <1>1, <1>2, <1>9, DropFollows DEF Release, FInv
<1>10. CASE SendRun
  BY <1>1, <1>10, SendRunFollows DEF FInv
<1>11. CASE Disconnect
  BY <1>1, <1>11, QuietFollows DEF Disconnect, vars, worker, FInv, Alive
<1>12. CASE SendPacket \/ ReceiveFreed \/ \E w \in Workers : LeaveLoop(w)
  BY <1>1, <1>12, QuietFollows DEF SendPacket, ReceiveFreed, LeaveLoop, vars, worker, session, FInv, Alive
<1>13. CASE UNCHANGED all
  BY <1>1, <1>13, QuietFollows DEF all, vars, worker, session, FInv, Alive
<1> QED
  BY <1>3, <1>4, <1>5, <1>6, <1>7, <1>8, <1>9, <1>10, <1>11, <1>12, <1>13
     DEF SessionNext, RecvRun

\* Unless a header arrives alone (finding 1) the server's packets are handled
\* whole, once and in order, up to the end of the session and whatever the
\* workers do around it.
THEOREM SessionKeepsFraming == ~CutAfterHeader => (SessionSpec => KeepsFraming)
<1> SUFFICES ASSUME ~CutAfterHeader PROVE SessionSpec => KeepsFraming
  OBVIOUS
<1>1. FInv /\ [SessionNext]_all => FInv'
  BY NextFInv
<1>2. FInv /\ [SessionNext]_all => [Framing!Next]_(Framing!vars)
  BY NextFInv
<1> QED
  BY InitFInv, <1>1, <1>2, PTL DEF SessionSpec, KeepsFraming, Framing!Spec

\* The property that finding 1 refutes: as long as the session lives what is
\* parsed as a header is one, when none arrives alone.
THEOREM HeaderStaysInStep == ~CutAfterHeader => (SessionSpec => [](Alive => HeaderInStep))
<1> SUFFICES ASSUME ~CutAfterHeader PROVE SessionSpec => [](Alive => HeaderInStep)
  OBVIOUS
<1>1. FInv /\ [SessionNext]_all => FInv'
  BY NextFInv
<1>2. FInv => (Alive => HeaderInStep)
  <2> SUFFICES ASSUME FInv, Alive, pc = "parse"
               PROVE  \E i \in DOMAIN sent : sent[i].at = packet.at
    BY DEF HeaderInStep
  <2>1. DOMAIN sent = 1 .. Len(sent)
    BY Streams DEF FInv, SessionInv, RecvInv
  <2> QED
    BY <2>1, NextPacket
<1> QED
  BY InitFInv, <1>1, <1>2, PTL DEF SessionSpec

-----------------------------------------------------------------------------
(***************************************************************************)
(* The client's packets                                                    *)
(*                                                                         *)
(* They are numbered in the order in which they were given to SendPacket.  *)
(* The last ones are in the queue and the one before them, if any, is with *)
(* SendWorker; the rest are sent or given up (Numbered).  The bytes on the *)
(* wire follow from that (Bytes).                                          *)
(***************************************************************************)

One(p) == IF p = 0 THEN << >> ELSE <<p>>

Waiting == One(sending) \o sendPacketQueue

\* How many have left: they are the first ones.
Gone == out - Len(sendPacketQueue) - (IF sending = 0 THEN 0 ELSE 1)

Numbered ==
    /\ Gone >= 0
    /\ sending # 0 => sending = Gone + 1
    /\ \A i \in 1 .. Len(sendPacketQueue) : sendPacketQueue[i] = out - Len(sendPacketQueue) + i
    /\ \A i \in 1 .. Len(finished) : finished[i] <= Gone
    /\ \A i \in 1 .. Len(cut) : cut[i] <= Gone

\* A packet that was sent is whole on the wire, of one that SendWorker has the
\* rest is missing, and of one in the queue all.
Bytes ==
    /\ \A i \in 1 .. Len(finished) : written[finished[i]] = OutSize
    /\ sending # 0 => written[sending] + size = OutSize
    /\ \A n \in 1 .. MaxOut : n > out - Len(sendPacketQueue) => written[n] = 0

CInv == Side /\ Numbered /\ Bytes

LEMMA Queues ==
    ASSUME Side
    PROVE  /\ out \in Nat /\ out <= MaxOut /\ sending \in Nat /\ sending <= MaxOut
           /\ Len(sendPacketQueue) \in Nat /\ Len(finished) \in Nat /\ Len(cut) \in Nat
           /\ \A i \in 1 .. Len(sendPacketQueue) : sendPacketQueue[i] \in 1 .. MaxOut
           /\ \A i \in 1 .. Len(finished) : finished[i] \in 1 .. MaxOut
           /\ \A i \in 1 .. Len(cut) : cut[i] \in 1 .. MaxOut
           /\ finished \in Seq(1 .. MaxOut) /\ cut \in Seq(1 .. MaxOut)
           /\ sendPacketQueue \in Seq(1 .. MaxOut)
           /\ size \in Nat /\ size <= OutSize /\ MaxOut \in Nat /\ OutSize \in Nat /\ OutSize > 0
<1>1. /\ finished \in Seq(1 .. MaxOut) /\ cut \in Seq(1 .. MaxOut)
      /\ sendPacketQueue \in Seq(1 .. MaxOut)
      /\ size \in Nat /\ size <= OutSize /\ MaxOut \in Nat /\ OutSize \in Nat /\ OutSize > 0
      /\ out \in Nat /\ out <= MaxOut /\ sending \in Nat /\ sending <= MaxOut
  BY OutAssumption DEF Side, SendTyped
<1>2. \A s \in Seq(1 .. MaxOut) : Len(s) \in Nat /\ \A i \in 1 .. Len(s) : s[i] \in 1 .. MaxOut
  BY ElementOfSeq, LenProperties
<1> QED
  BY <1>1, <1>2

\* All packets that were finished are received whole.
LEMMA AllReceived == ASSUME CInv PROVE Received = finished
<1>1. finished \in Seq(1 .. MaxOut) /\ DOMAIN finished = 1 .. Len(finished)
  BY Queues DEF CInv
<1>2. \A i \in DOMAIN finished :
          (IF written[finished[i]] = OutSize THEN finished[i] ELSE 0) = finished[i]
  BY <1>1 DEF CInv, Bytes
<1>3. Received = [i \in DOMAIN finished |-> finished[i]]
  BY <1>2 DEF Received
<1> QED
  BY <1>1, <1>3

LEMMA WaitingIs ==
    ASSUME Side
    PROVE  /\ Waiting \in Seq(1 .. MaxOut) /\ One(sending) \in Seq(1 .. MaxOut)
           /\ sending = 0 => Waiting = sendPacketQueue
           /\ sending # 0 => Waiting = <<sending>> \o sendPacketQueue
<1>1. sendPacketQueue \in Seq(1 .. MaxOut) /\ sending \in 0 .. MaxOut /\ MaxOut \in Nat
  BY OutAssumption DEF Side, SendTyped
<1>2. One(sending) \in Seq(1 .. MaxOut)
  <2>1. CASE sending = 0
    BY <2>1 DEF One
  <2>2. CASE sending # 0
    <3>1. sending \in 1 .. MaxOut
      BY <1>1, <2>2
    <3> QED
      BY <2>2, <3>1 DEF One
  <2> QED
    BY <2>1, <2>2
<1>3. << >> \o sendPacketQueue = sendPacketQueue
  BY <1>1, ConcatEmptySeq
<1>4. One(sending) \o sendPacketQueue \in Seq(1 .. MaxOut)
  BY <1>1, <1>2, ConcatProperties
<1> QED
  BY <1>2, <1>3, <1>4 DEF Waiting, One

\* The three kinds of step.
Stays == UNCHANGED <<Waiting, finished, cut>>

Accepts == \E b \in 1 .. MaxOut : /\ b = out + 1 /\ out' = b
                                  /\ Waiting' = Append(Waiting, b)
                                  /\ UNCHANGED <<finished, cut>>

Transfers == \E n \in 1 .. Len(Waiting) : \E k \in 0 .. n :
                /\ Waiting' = SubSeq(Waiting, n + 1, Len(Waiting))
                /\ finished' = finished \o SubSeq(Waiting, 1, k)
                /\ cut' = cut \o SubSeq(Waiting, k + 1, n)

LEMMA OneMore ==
    ASSUME NEW S, NEW s \in Seq(S), NEW t \in Seq(S), NEW x \in S
    PROVE  s \o Append(t, x) = Append(s \o t, x)
<1>1. <<x>> \in Seq(S)
  OBVIOUS
<1>2. Append(t, x) = t \o <<x>> /\ Append(s \o t, x) = (s \o t) \o <<x>>
  BY ConcatProperties, AppendIsConcat
<1> QED
  BY <1>1, <1>2, ConcatAssociative

LEMMA FirstAndRest ==
    ASSUME NEW S, NEW x \in S, NEW t \in Seq(S)
    PROVE  /\ Len(<<x>> \o t) = Len(t) + 1
           /\ SubSeq(<<x>> \o t, 2, Len(<<x>> \o t)) = t
           /\ SubSeq(<<x>> \o t, 1, 1) = <<x>>
           /\ SubSeq(<<x>> \o t, 1, 0) = << >> /\ SubSeq(<<x>> \o t, 2, 1) = << >>
<1>0. PICK w : w = <<x>> \o t
  OBVIOUS
<1>1. /\ <<x>> \in Seq(S) /\ Len(<<x>>) = 1 /\ <<x>>[1] = x /\ Len(t) \in Nat
  OBVIOUS
<1>2. /\ w \in Seq(S) /\ Len(w) = Len(t) + 1 /\ w[1] = x
      /\ \A i \in 1 .. Len(t) : w[i + 1] = t[i]
  BY <1>0, <1>1, ConcatProperties
<1>3. SubSeq(w, 2, Len(w)) = t
  <2>1. /\ SubSeq(w, 2, Len(w)) \in Seq(S)
        /\ Len(SubSeq(w, 2, Len(w))) = Len(t)
        /\ \A i \in 1 .. Len(t) : SubSeq(w, 2, Len(w))[i] = w[i + 1]
    BY <1>1, <1>2, SubSeqProperties
  <2> QED
    BY <1>2, <2>1, SeqEqual
<1>4. SubSeq(w, 1, 1) = <<x>>
  <2>1. /\ SubSeq(w, 1, 1) \in Seq(S) /\ Len(SubSeq(w, 1, 1)) = 1
        /\ SubSeq(w, 1, 1)[1] = w[1]
    BY <1>1, <1>2, SubSeqProperties
  <2>2. \A i \in 1 .. 1 : i = 1
    OBVIOUS
  <2>3. \A i \in 1 .. Len(SubSeq(w, 1, 1)) : SubSeq(w, 1, 1)[i] = <<x>>[i]
    BY <1>1, <1>2, <2>1, <2>2
  <2> QED
    BY <1>1, <2>1, <2>3, SeqEqual
<1>5. SubSeq(w, 1, 0) = << >> /\ SubSeq(w, 2, 1) = << >>
  BY <1>1, <1>2, SubSeqEmpty
<1> QED
  BY <1>0, <1>2, <1>3, <1>4, <1>5

SendVars == <<out, sendPacketQueue, sending, size, written, finished, cut>>

LEMMA SameSend ==
    ASSUME CInv, UNCHANGED SendVars
    PROVE  Numbered' /\ Bytes' /\ Stays
  BY DEF SendVars, CInv, Numbered, Bytes, Gone, Stays, Waiting

LEMMA SendPacketSends ==
    ASSUME CInv, SendPacket
    PROVE  Numbered' /\ Bytes' /\ Accepts
<1> DEFINE n == Len(sendPacketQueue)
<1>1. /\ Side /\ out + 1 \in 1 .. MaxOut
      /\ out' = out + 1 /\ sendPacketQueue' = Append(sendPacketQueue, out + 1)
      /\ UNCHANGED <<sending, size, written, finished, cut>>
  BY Queues DEF CInv, SendPacket
<1>2. /\ Len(sendPacketQueue') = Len(sendPacketQueue) + 1
      /\ sendPacketQueue'[Len(sendPacketQueue) + 1] = out + 1
      /\ \A i \in 1 .. Len(sendPacketQueue) : sendPacketQueue'[i] = sendPacketQueue[i]
  BY <1>1, Queues
<1>3. Gone' = Gone /\ Gone \in Int
  <2>1. out \in Nat /\ Len(sendPacketQueue) \in Nat
    BY <1>1, Queues
  <2>2. out' = out + 1 /\ Len(sendPacketQueue') = Len(sendPacketQueue) + 1 /\ sending' = sending
    BY <1>1, <1>2
  <2> QED
    BY <2>1, <2>2 DEF Gone
<1>4. Numbered'
  <2>1. ASSUME NEW i \in 1 .. n + 1
        PROVE  sendPacketQueue'[i] = out + 1 - (n + 1) + i
    <3>1. n \in Nat /\ out \in Nat /\ i \in Nat
      BY <1>1, Queues
    <3>2. CASE i = n + 1
      BY <1>2, <3>1, <3>2
    <3>3. CASE i \in 1 .. n
      <4>1. sendPacketQueue'[i] = out - n + i
        BY <1>2, <3>3 DEF CInv, Numbered
      <4> QED
        BY <3>1, <4>1
    <3> QED
      BY <3>1, <3>2, <3>3
  <2>2. \A i \in 1 .. Len(sendPacketQueue') : sendPacketQueue'[i] = out' - Len(sendPacketQueue') + i
    <3>1. n \in Nat /\ out \in Nat
      BY <1>1, Queues
    <3> QED
      BY <1>1, <1>2, <2>1, <3>1
  <2>3. UNCHANGED <<Gone, sending, finished, cut>>
    BY <1>1, <1>3
  <2> QED
    BY <2>2, <2>3 DEF CInv, Numbered
<1>5. Bytes'
  BY <1>1, <1>2, Queues DEF CInv, Bytes
<1>6. Waiting' = Append(Waiting, out + 1)
  <2>1. One(sending) \in Seq(1 .. MaxOut)
    BY <1>1, WaitingIs
  <2> QED
    <3>1. sendPacketQueue \in Seq(1 .. MaxOut)
      BY <1>1, Queues
    <3>2. One(sending) \o Append(sendPacketQueue, out + 1) = Append(One(sending) \o sendPacketQueue, out + 1)
      BY <1>1, <2>1, <3>1, OneMore
    <3> QED
      BY <1>1, <3>2 DEF Waiting
<1> QED
  BY <1>1, <1>4, <1>5, <1>6 DEF Accepts

LEMMA SendPinSends ==
    ASSUME CInv, SendPin, Side'
    PROVE  Numbered' /\ Bytes' /\ Stays
<1> DEFINE n == Len(sendPacketQueue)
<1>1. CASE sendPacketQueue = << >>
  BY <1>1, SameSend DEF SendPin, SendVars
<1>2. CASE sendPacketQueue # << >>
  <2>1. /\ Side /\ sending = 0 /\ UNCHANGED <<out, written, finished, cut>>
        /\ sending' = Head(sendPacketQueue) /\ size' = OutSize
        /\ sendPacketQueue' = Tail(sendPacketQueue)
    BY <1>2 DEF CInv, SendPin, Loops, Side, SendTyped
  <2>2. /\ Head(sendPacketQueue) = sendPacketQueue[1] /\ Len(sendPacketQueue) > 0
        /\ Head(sendPacketQueue) \in 1 .. MaxOut
        /\ Len(sendPacketQueue') = Len(sendPacketQueue) - 1
        /\ \A i \in 1 .. Len(sendPacketQueue) - 1 : sendPacketQueue'[i] = sendPacketQueue[i + 1]
        /\ sendPacketQueue = <<Head(sendPacketQueue)>> \o Tail(sendPacketQueue)
    BY <1>2, <2>1, Queues, HeadTailProperties, HeadTailAppend
  <2>3. Gone' = Gone /\ sending' = Gone + 1 /\ Gone = out - Len(sendPacketQueue)
    BY <2>1, <2>2, Queues DEF CInv, Numbered, Gone
  <2>4. Numbered'
    <3>1. ASSUME NEW i \in 1 .. n - 1
          PROVE  sendPacketQueue'[i] = out - (n - 1) + i
      <4>1. n \in Nat /\ out \in Nat /\ i \in Nat /\ i + 1 \in 1 .. n
        BY <2>1, Queues
      <4>2. sendPacketQueue[i + 1] = out - n + (i + 1)
        BY <4>1 DEF CInv, Numbered
      <4> QED
        BY <2>2, <4>1, <4>2
    <3>2. Len(sendPacketQueue') = n - 1 /\ out' = out
      BY <2>1, <2>2
    <3>3. \A i \in 1 .. Len(sendPacketQueue') : sendPacketQueue'[i] = out' - Len(sendPacketQueue') + i
      BY <3>1, <3>2
    <3>4. /\ \A i \in 1 .. Len(finished') : finished'[i] <= Gone'
          /\ \A i \in 1 .. Len(cut') : cut'[i] <= Gone'
      BY <2>1, <2>2, <2>3 DEF CInv, Numbered
    <3> QED
      BY <2>1, <2>2, <2>3, <3>3, <3>4 DEF CInv, Numbered
  <2>5. Bytes'
    <3>1. written[sending'] = 0
      <4>1. sending' \in 1 .. MaxOut /\ out \in Nat /\ n \in Nat /\ sending' > out - n
        BY <2>1, <2>2, <2>3, Queues
      <4> QED
        BY <4>1 DEF CInv, Bytes
    <3>2. written'[sending'] + size' = OutSize
      BY <2>1, <3>1, Queues
    <3>3. ASSUME NEW k \in 1 .. MaxOut, k > out' - Len(sendPacketQueue') PROVE written'[k] = 0
      <4>1. out \in Nat /\ n \in Nat /\ k > out - n + 1
        BY <2>1, <2>2, <3>3, Queues
      <4> QED
        BY <2>1, <4>1 DEF CInv, Bytes
    <3> QED
      BY <2>1, <3>2, <3>3 DEF CInv, Bytes
  <2>6. Stays
    <3>1. Waiting = sendPacketQueue
      BY <2>1, WaitingIs
    <3>2. Waiting' = <<sending'>> \o sendPacketQueue'
      <4>1. sending' # 0
        BY <2>1, <2>2, Queues
      <4> QED
        BY <4>1 DEF Waiting, One
    <3> QED
      BY <2>1, <2>2, <3>1, <3>2 DEF Stays
  <2> QED
    BY <2>4, <2>5, <2>6
<1> QED
  BY <1>1, <1>2

LEMMA SendBytesSends ==
    ASSUME CInv, NEW n \in 1 .. OutSize, SendBytes(n)
    PROVE  Numbered' /\ Bytes' /\ Stays
<1>1. /\ Side /\ sending # 0 /\ n <= size /\ n \in Nat
      /\ written' = [written EXCEPT ![sending] = @ + n] /\ size' = size - n
      /\ UNCHANGED <<out, sendPacketQueue, sending, finished, cut>>
      /\ written \in [1 .. MaxOut -> Nat] /\ sending \in 1 .. MaxOut
  BY Queues DEF CInv, SendBytes, Side, SendTyped
<1>2. Numbered' /\ Stays
  BY <1>1 DEF CInv, Numbered, Gone, Stays, Waiting
<1>3. /\ written'[sending] = written[sending] + n
      /\ \A m \in 1 .. MaxOut : m # sending => written'[m] = written[m]
  BY <1>1
<1>4. sending = Gone + 1 /\ Gone = out - Len(sendPacketQueue) - 1 /\ Gone \in Int
      /\ out \in Nat /\ Len(sendPacketQueue) \in Nat
  BY <1>1, Queues DEF CInv, Numbered, Gone
<1>5. ASSUME NEW i \in 1 .. Len(finished) PROVE written'[finished[i]] = OutSize
  <2>0. finished[i] <= Gone /\ finished[i] \in 1 .. MaxOut
    BY <1>1, Queues DEF CInv, Numbered
  <2>1. finished[i] # sending
    BY <1>4, <2>0
  <2> QED
    BY <1>1, <1>3, <2>0, <2>1 DEF CInv, Bytes
<1>6. written'[sending] + size' = OutSize
  <2>1. written[sending] + size = OutSize /\ written[sending] \in Nat /\ size \in Nat
    BY <1>1, Queues DEF CInv, Bytes
  <2> QED
    BY <1>1, <1>3, <2>1
<1>7. ASSUME NEW m \in 1 .. MaxOut, m > out - Len(sendPacketQueue) PROVE written'[m] = 0
  <2>1. m # sending
    BY <1>4, <1>7
  <2> QED
    BY <1>3, <1>7, <2>1 DEF CInv, Bytes
<1>8. Bytes'
  BY <1>1, <1>5, <1>6, <1>7 DEF Bytes
<1> QED
  BY <1>2, <1>8

LEMMA SendPacketEndsSends ==
    ASSUME CInv, SendPacketEnds
    PROVE  Numbered' /\ Bytes' /\ Transfers
<1> DEFINE s == sending  q == sendPacketQueue
<1>1. /\ Side /\ s # 0 /\ s \in 1 .. MaxOut /\ sending' = 0
      /\ UNCHANGED <<out, sendPacketQueue, written>>
      /\ \/ size = 0 /\ finished' = Append(finished, s) /\ UNCHANGED cut
         \/ size > 0 /\ cut' = Append(cut, s) /\ UNCHANGED finished
  BY Queues DEF CInv, SendPacketEnds, Side, SendTyped
<1>2. Gone' = Gone + 1 /\ s = Gone + 1 /\ Gone \in Int
  BY <1>1, Queues DEF CInv, Numbered, Gone
<1>3. \/ /\ size = 0 /\ Len(finished') = Len(finished) + 1 /\ finished'[Len(finished) + 1] = s
         /\ \A i \in 1 .. Len(finished) : finished'[i] = finished[i]
         /\ UNCHANGED cut
      \/ /\ Len(cut') = Len(cut) + 1 /\ cut'[Len(cut) + 1] = s
         /\ \A i \in 1 .. Len(cut) : cut'[i] = cut[i]
         /\ UNCHANGED finished
  <2>1. finished \in Seq(1 .. MaxOut) /\ cut \in Seq(1 .. MaxOut) /\ s \in 1 .. MaxOut
    BY <1>1, Queues
  <2> DEFINE f == Append(finished, s)  c == Append(cut, s)
  <2>2. /\ Len(f) = Len(finished) + 1 /\ f[Len(finished) + 1] = s
        /\ \A i \in 1 .. Len(finished) : f[i] = finished[i]
    BY <2>1, AppendProperties
  <2>3. /\ Len(c) = Len(cut) + 1 /\ c[Len(cut) + 1] = s
        /\ \A i \in 1 .. Len(cut) : c[i] = cut[i]
    BY <2>1, AppendProperties
  <2> QED
    BY <1>1, <2>2, <2>3
<1>4. Numbered'
  <2>1. ASSUME NEW i \in 1 .. Len(finished') PROVE finished'[i] <= Gone'
    <3>1. Len(finished) \in Nat /\ (i \in 1 .. Len(finished) => finished[i] <= Gone /\ finished[i] \in Nat)
      BY <1>1, Queues DEF CInv, Numbered
    <3> QED
      BY <1>2, <1>3, <3>1
  <2>2. ASSUME NEW i \in 1 .. Len(cut') PROVE cut'[i] <= Gone'
    <3>1. Len(cut) \in Nat /\ (i \in 1 .. Len(cut) => cut[i] <= Gone /\ cut[i] \in Nat)
      BY <1>1, Queues DEF CInv, Numbered
    <3> QED
      BY <1>2, <1>3, <3>1
  <2>3. Gone' >= 0
    BY <1>2 DEF CInv, Numbered
  <2> QED
    BY <1>1, <2>1, <2>2, <2>3 DEF CInv, Numbered
<1>5. Bytes'
  <2>1. size = 0 => written[s] = OutSize
    <3>1. written[s] + size = OutSize /\ written[s] \in Nat
      BY <1>1 DEF CInv, Bytes, Side, SendTyped
    <3> QED
      BY <1>1, <3>1, Queues
  <2>2. \A i \in 1 .. Len(finished) : written[finished[i]] = OutSize
    BY DEF CInv, Bytes
  <2>3. ASSUME NEW i \in 1 .. Len(finished') PROVE written[finished'[i]] = OutSize
    <3>1. Len(finished) \in Nat
      BY <1>1, Queues
    <3>2. \/ i \in 1 .. Len(finished) /\ finished'[i] = finished[i]
          \/ size = 0 /\ finished'[i] = s
      BY <1>3, <3>1
    <3> QED
      BY <2>1, <2>2, <3>2
  <2> QED
    BY <1>1, <2>3 DEF CInv, Bytes
<1>6. Transfers
  <2>1. Waiting = <<s>> \o q /\ Waiting' = << >> \o q
    BY <1>1, WaitingIs DEF Waiting, One
  <2>2. q \in Seq(1 .. MaxOut) /\ << >> \o q = q
    BY <1>1, Queues, ConcatEmptySeq
  <2>3. /\ Len(Waiting) \in Nat /\ 1 \in 1 .. Len(Waiting)
        /\ Waiting' = SubSeq(Waiting, 1 + 1, Len(Waiting))
        /\ SubSeq(Waiting, 1, 1) = <<s>> /\ SubSeq(Waiting, 0 + 1, 1) = <<s>>
        /\ SubSeq(Waiting, 1, 0) = << >> /\ SubSeq(Waiting, 1 + 1, 1) = << >>
    <3>1. s \in 1 .. MaxOut /\ Len(q) \in Nat
      BY <1>1, <2>2
    <3>2. /\ Len(<<s>> \o q) = Len(q) + 1
          /\ SubSeq(<<s>> \o q, 2, Len(<<s>> \o q)) = q
          /\ SubSeq(<<s>> \o q, 1, 1) = <<s>>
          /\ SubSeq(<<s>> \o q, 1, 0) = << >> /\ SubSeq(<<s>> \o q, 2, 1) = << >>
      BY <2>2, <3>1, FirstAndRest
    <3>3. 1 + 1 = 2 /\ 0 + 1 = 1
      OBVIOUS
    <3> QED
      BY <2>1, <2>2, <3>1, <3>2, <3>3
  <2>4. /\ finished \o << >> = finished /\ cut \o << >> = cut
        /\ finished \o <<s>> = Append(finished, s) /\ cut \o <<s>> = Append(cut, s)
    BY <1>1, Queues, ConcatEmptySeq, AppendIsConcat
  <2> DEFINE T(n, k) == /\ Waiting' = SubSeq(Waiting, n + 1, Len(Waiting))
                        /\ finished' = finished \o SubSeq(Waiting, 1, k)
                        /\ cut' = cut \o SubSeq(Waiting, k + 1, n)
  <2>5. T(1, 1) \/ T(1, 0)
    BY <1>1, <2>3, <2>4
  <2>6. 1 \in 0 .. 1 /\ 0 \in 0 .. 1
    OBVIOUS
  <2> QED
    BY <2>3, <2>5, <2>6 DEF Transfers
<1> QED
  BY <1>4, <1>5, <1>6

\* The end of the session takes what is in the queue.
LEMMA DropSends ==
    ASSUME CInv, NEW h \in BOOLEAN, NEW p \in SUBSET Workers, Drop(h, p),
           h \/ p # {} \/ ~Alive \/ sending = 0,
           UNCHANGED <<out, sending, size, written, finished>>
    PROVE  Numbered' /\ Bytes' /\ (Stays \/ Transfers)
<1> DEFINE q == sendPacketQueue
<1>1. CASE UNCHANGED <<sendPacketQueue, cut>>
  BY <1>1, SameSend DEF SendVars
<1>2. CASE /\ sending = 0 /\ cut' = cut \o sendPacketQueue /\ sendPacketQueue' = << >>
  <2>1. /\ Side /\ sending' = 0 /\ Len(sendPacketQueue') = 0
        /\ q \in Seq(1 .. MaxOut) /\ cut \in Seq(1 .. MaxOut)
    BY <1>2, Queues DEF CInv
  <2>2. /\ Len(cut') = Len(cut) + Len(q)
        /\ \A i \in 1 .. Len(cut) : cut'[i] = cut[i]
        /\ \A i \in 1 .. Len(q) : cut'[Len(cut) + i] = q[i]
    BY <1>2, <2>1, ConcatProperties
  <2>3. Gone' = out /\ Gone = out - Len(q)
    BY <1>2, <2>1, Queues DEF Gone
  <2>4. Numbered'
    <3>1. ASSUME NEW i \in 1 .. Len(cut') PROVE cut'[i] <= out
      <4>1. CASE i \in 1 .. Len(cut)
        <5>1. cut[i] <= Gone /\ cut[i] \in Nat /\ out \in Nat /\ Len(q) \in Nat
          BY <2>1, <4>1, Queues DEF CInv, Numbered
        <5> QED
          BY <2>2, <2>3, <4>1, <5>1
      <4>2. CASE i \notin 1 .. Len(cut)
        <5>0. Len(cut) \in Nat /\ Len(q) \in Nat
          BY <2>1
        <5>1. PICK j \in 1 .. Len(q) : i = Len(cut) + j
          <6>1. i - Len(cut) \in 1 .. Len(q) /\ i = Len(cut) + (i - Len(cut))
            BY <2>2, <4>2, <5>0
          <6> QED
            BY <6>1
        <5>2. cut'[i] = out - Len(q) + j
          BY <2>2, <5>1 DEF CInv, Numbered
        <5> QED
          BY <2>1, <5>1, <5>2, Queues
      <4> QED
        BY <4>1, <4>2
    <3>2. \A i \in 1 .. Len(finished) : finished[i] <= out
      BY <2>1, <2>3, Queues DEF CInv, Numbered
    <3> QED
      BY <2>1, <2>3, <3>1, <3>2, Queues DEF Numbered
  <2>5. Bytes'
    BY <2>1, Queues DEF CInv, Bytes
  <2>6. Waiting = q /\ Waiting' = << >>
    BY <1>2, <2>1, WaitingIs, ConcatEmptySeq DEF Waiting, One
  <2>7. CASE q = << >>
    <3>1. cut \o << >> = cut
      BY <2>1, ConcatEmptySeq
    <3> QED
      BY <1>2, <2>4, <2>5, <2>6, <2>7, <3>1 DEF Stays
  <2>8. CASE q # << >>
    <3>1. Len(q) \in 1 .. Len(q) /\ 0 \in 0 .. Len(q)
      BY <2>1, <2>8, Queues
    <3>2. /\ SubSeq(q, Len(q) + 1, Len(q)) = << >>
          /\ SubSeq(q, 1, 0) = << >>
          /\ SubSeq(q, 0 + 1, Len(q)) = q
          /\ finished \o << >> = finished
      BY <2>1, <3>1, Queues, SubSeqEmpty, SubSeqFull, ConcatEmptySeq
    <3> QED
      BY <1>2, <2>4, <2>5, <2>6, <3>1, <3>2 DEF Transfers
  <2> QED
    BY <2>7, <2>8
<1> QED
  BY <1>1, <1>2, DropKinds DEF CInv

LEMMA NextCInv ==
    ASSUME SessionInv, CInv, SessionInv', [SessionNext]_all
    PROVE  CInv' /\ (Stays \/ Accepts \/ Transfers)
<1>1. /\ Side /\ Side' /\ held \in BOOLEAN /\ pins \in SUBSET Workers /\ FALSE \in BOOLEAN
      /\ pins \ {"recv"} \in SUBSET Workers /\ pins \ {"send"} \in SUBSET Workers
  BY DEF SessionInv, Side
<1>2. CASE SendPacket
  BY <1>1, <1>2, SendPacketSends DEF CInv
<1>3. CASE SendPin
  BY <1>1, <1>3, SendPinSends DEF CInv
<1>4. CASE \E n \in 1 .. OutSize : SendBytes(n)
  BY <1>1, <1>4, SendBytesSends DEF CInv
<1>5. CASE SendPacketEnds
  BY <1>1, <1>5, SendPacketEndsSends DEF CInv
<1>6. CASE SendUnpin
  <2>1. sending = 0
    BY <1>1, <1>6 DEF SendUnpin, Side, SendTyped
  <2> QED
    BY <1>1, <1>6, <2>1, DropSends DEF SendUnpin, CInv
<1>7. CASE RecvUnpin
  <2>1. pins \ {"recv"} # {} \/ sending = 0
    BY <1>1 DEF Side, SendTyped
  <2> QED
    BY <1>1, <1>7, <2>1, DropSends DEF RecvUnpin, CInv
<1>8. CASE Release
  <2>1. pins # {} \/ sending = 0
    BY <1>1 DEF Side, SendTyped
  <2> QED
    BY <1>1, <1>8, <2>1, DropSends DEF Release, CInv
<1>9. CASE \/ Network \/ HandleRecvPackets \/ Disconnect \/ Receive \/ RecvPin \/ RecvEnqueue
           \/ ReceiveFreed \/ (\E w \in Workers : LeaveLoop(w)) \/ UNCHANGED all
  <2>1. UNCHANGED SendVars
    BY <1>9 DEF Network, HandleRecvPackets, Disconnect, Receive, RecvPin, RecvEnqueue, ReceiveFreed,
       LeaveLoop, all, sendSide, SendVars
  <2> QED
    BY <1>1, <2>1, SameSend DEF CInv
<1> QED
  BY <1>2, <1>3, <1>4, <1>5, <1>6, <1>7, <1>8, <1>9 DEF SessionNext, SendRun, RecvRun

LEMMA InitCInv == SessionInit => CInv /\ Channel!Init
<1> SUFFICES ASSUME SessionInit PROVE CInv /\ Channel!Init
  OBVIOUS
<1>1. /\ Side /\ sendPacketQueue = << >> /\ finished = << >> /\ cut = << >> /\ out = 0
      /\ sending = 0 /\ size = 0 /\ written = [n \in 1 .. MaxOut |-> 0]
      /\ Len(sendPacketQueue) = 0 /\ Len(finished) = 0 /\ Len(cut) = 0
  BY InitSessionInv DEF SessionInit, SessionInv
<1>2. CInv
  BY <1>1 DEF CInv, Numbered, Bytes, Gone
<1>3. Received = << >>
  BY <1>1, <1>2, AllReceived
<1> QED
  BY <1>1, <1>2, <1>3 DEF Channel!Init

LEMMA StepIsChannel ==
    ASSUME CInv, CInv', Stays \/ Accepts \/ Transfers
    PROVE  [Channel!Next]_(Channel!vars)
<1>1. Received = finished
  BY AllReceived
<1>2. Received' = finished'
  <2>1. finished' \in Seq(1 .. MaxOut)
    BY DEF CInv, Side, SendTyped
  <2>2. DOMAIN finished' = 1 .. Len(finished')
    BY <2>1
  <2>3. \A i \in DOMAIN finished' :
            (IF written'[finished'[i]] = OutSize THEN finished'[i] ELSE 0) = finished'[i]
    BY <2>2 DEF CInv, Bytes
  <2>4. Received' = [i \in DOMAIN finished' |-> finished'[i]]
    BY <2>3 DEF Received
  <2> QED
    BY <2>1, <2>4
<1>3. CASE Stays
  BY <1>1, <1>2, <1>3 DEF Stays, Waiting, One, Channel!vars
<1>4. CASE Accepts
  <2>1. PICK b \in 1 .. MaxOut : /\ b = out + 1
                                 /\ Waiting' = Append(Waiting, b)
                                 /\ UNCHANGED <<finished, cut>>
    BY <1>4 DEF Accepts
  <2>2. b \notin Channel!ToSet(finished) /\ b \notin Channel!ToSet(cut)
    <3>1. Side /\ Gone <= out
      BY Queues DEF CInv, Gone
    <3>2. /\ DOMAIN finished = 1 .. Len(finished) /\ DOMAIN cut = 1 .. Len(cut)
          /\ \A i \in 1 .. Len(finished) : finished[i] # b
          /\ \A i \in 1 .. Len(cut) : cut[i] # b
      <4>1. Gone \in Int /\ out \in Nat /\ Gone < b
        BY <2>1, <3>1, Queues DEF Gone
      <4>2. \A i \in 1 .. Len(finished) : finished[i] <= Gone /\ finished[i] \in Nat
        BY <3>1, Queues DEF CInv, Numbered
      <4>3. \A i \in 1 .. Len(cut) : cut[i] <= Gone /\ cut[i] \in Nat
        BY <3>1, Queues DEF CInv, Numbered
      <4>4. DOMAIN finished = 1 .. Len(finished) /\ DOMAIN cut = 1 .. Len(cut)
        BY <3>1, Queues
      <4> QED
        BY <4>1, <4>2, <4>3, <4>4
    <3> QED
      BY <3>1, <3>2, Queues DEF Channel!ToSet
  <2>3. b \notin Channel!ToSet(Waiting)
    <3>1. Side /\ sendPacketQueue \in Seq(1 .. MaxOut) /\ Len(sendPacketQueue) \in Nat
      BY Queues DEF CInv
    <3>2. \A i \in 1 .. Len(sendPacketQueue) : sendPacketQueue[i] # b
      BY <2>1, <3>1, Queues DEF CInv, Numbered
    <3>3. CASE sending = 0
      BY <3>1, <3>2, <3>3, WaitingIs DEF Channel!ToSet
    <3>4. CASE sending # 0
      <4>1. sending # b /\ sending \in 1 .. MaxOut
        BY <2>1, <3>1, <3>4, Queues DEF CInv, Numbered, Gone
      <4>2. /\ Waiting = <<sending>> \o sendPacketQueue /\ <<sending>> \in Seq(1 .. MaxOut)
            /\ Len(<<sending>>) = 1 /\ <<sending>>[1] = sending
        BY <3>1, <3>4, <4>1, WaitingIs
      <4>3. /\ Len(Waiting) = 1 + Len(sendPacketQueue) /\ Waiting[1] = sending
            /\ \A i \in 1 .. Len(sendPacketQueue) : Waiting[i + 1] = sendPacketQueue[i]
            /\ DOMAIN Waiting = 1 .. Len(Waiting)
        BY <3>1, <4>2, ConcatProperties
      <4>4. ASSUME NEW i \in 1 .. Len(Waiting) PROVE Waiting[i] # b
        <5>1. i = 1 \/ (i - 1 \in 1 .. Len(sendPacketQueue) /\ i = (i - 1) + 1)
          BY <3>1, <4>3
        <5> QED
          BY <3>2, <4>1, <4>3, <5>1
      <4> QED
        BY <4>3, <4>4 DEF Channel!ToSet
    <3> QED
      BY <3>3, <3>4
  <2>4. Channel!Accept(b)
    BY <1>1, <1>2, <2>1, <2>2, <2>3 DEF Channel!Accept, Channel!Seen, Waiting, One
  <2> QED
    BY <2>1, <2>4 DEF Channel!Next
<1>5. CASE Transfers
  <2>0. PICK n \in 1 .. Len(Waiting) : \E k \in 0 .. n :
                /\ Waiting' = SubSeq(Waiting, n + 1, Len(Waiting))
                /\ finished' = finished \o SubSeq(Waiting, 1, k)
                /\ cut' = cut \o SubSeq(Waiting, k + 1, n)
    BY <1>5 DEF Transfers
  <2>1. PICK k \in 0 .. n :
                /\ Waiting' = SubSeq(Waiting, n + 1, Len(Waiting))
                /\ finished' = finished \o SubSeq(Waiting, 1, k)
                /\ cut' = cut \o SubSeq(Waiting, k + 1, n)
    BY <2>0
  <2>2. Channel!Transfer(n, k)
    BY <1>1, <1>2, <2>1 DEF Channel!Transfer, Waiting, One
  <2>3. n \in 1 .. Len((IF sending = 0 THEN << >> ELSE <<sending>>) \o sendPacketQueue)
    BY DEF Waiting, One
  <2> QED
    BY <2>1, <2>2, <2>3 DEF Channel!Next
<1> QED
  BY <1>3, <1>4, <1>5

\* What is given to SendPacket reaches the wire whole, once, in order; what is
\* missing was given up by SendWorker or found in the queue by the end of the
\* session, and then nothing overtakes it.
THEOREM SessionSendsInOrder == SessionSpec => SendsInOrder
<1>1. SessionInv /\ CInv /\ SessionInv' /\ [SessionNext]_all => CInv'
  BY NextCInv
<1>2. SessionInv /\ CInv /\ SessionInv' /\ CInv' /\ [SessionNext]_all => [Channel!Next]_(Channel!vars)
  BY NextCInv, StepIsChannel
<1> QED
  BY InitCInv, AlwaysSessionInv, <1>1, <1>2, PTL DEF SessionSpec, SendsInOrder, Channel!Spec
=============================================================================
