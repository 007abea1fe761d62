---------------------------- MODULE ClientSession ----------------------------
(***************************************************************************)
(* The client's connection as a whole: PacketSession, its two workers and  *)
(* the references to it.  The game thread queues packets and handles those *)
(* that were received; SendWorker writes the queued ones to the socket;    *)
(* RecvWorker is that of ClientStream.tla.  The network manager holds the  *)
(* session, the workers hold it only while they use its queues, and it is  *)
(* destroyed by whichever thread drops the last reference.                 *)
(*                                                                         *)
(* A worker object is freed by that, whatever its thread does then.  A     *)
(* thread that reads a freed worker is "astray": it may do anything, and   *)
(* nothing is said of it.                                                  *)
(***************************************************************************)
EXTENDS ClientStream

CONSTANTS MaxOut,      \* packets the game thread sends
          OutSize      \* their size, in bytes

ASSUME OutAssumption == MaxOut \in Nat /\ OutSize \in Nat \ {0}

VARIABLES held,             \* GameServerSession holds the session
          pins,             \* workers that hold it: SessionRef.Pin()
          teardown,         \* what ~PacketSession has done so far
          running,          \* Running of each worker
          at,               \* where SendWorker's thread is; "run" for RecvWorker's
          out,              \* packets given to SendPacket
          sendPacketQueue,  \* SendPacketQueue
          sending, size,    \* SendDesiredBytes: the packet, and its Size
          written,          \* history: bytes of each packet on the wire
          finished, cut     \* history: packets sent, and packets given up

workers  == <<running, at>>
sendSide == <<out, sendPacketQueue, sending, size, written, finished, cut>>
session  == <<held, pins, teardown>>
all      == <<vars, workers, sendSide, session>>

Workers == {"recv", "send"}

Alive == teardown = "none"

\* The worker object exists: ~PacketSession frees first the one, then the other.
Freed(w) == teardown \in {"done"} \cup (IF w = "recv" THEN {"freedRecv", "stoppedSend"} ELSE {})

SessionInit ==
    /\ Init
    /\ held = TRUE /\ pins = {} /\ teardown = "none"
    /\ running = [w \in Workers |-> TRUE]
    /\ at = [w \in Workers |-> "run"]
    /\ out = 0 /\ sendPacketQueue = << >>
    /\ sending = 0 /\ size = 0
    /\ written = [n \in 1 .. MaxOut |-> 0]
    /\ finished = << >> /\ cut = << >>

-----------------------------------------------------------------------------
(* References *)

\* A packet that nobody can send any more is lost with its queue.
Drop(newHeld, newPins) ==
    /\ held' = newHeld /\ pins' = newPins
    /\ IF newHeld \/ newPins # {} \/ ~Alive
       THEN UNCHANGED <<teardown, sendPacketQueue, recvPacketQueue, cut>>
       ELSE /\ teardown' = "begun"
            /\ cut' = cut \o sendPacketQueue
            /\ sendPacketQueue' = << >> /\ recvPacketQueue' = << >>

\* The game instance ends, and the network manager with it.
Release == /\ held
           /\ Drop(FALSE, pins)
           /\ UNCHANGED <<sent, arrived, taken, pc, need, packet, handled, workers,
                          out, sending, size, written, finished>>

\* ~PacketSession: Disconnect tells each worker to stop and drops it.
Disconnect ==
    /\ \/ /\ teardown = "begun" /\ teardown' = "stoppedRecv"
          /\ running' = [running EXCEPT !["recv"] = FALSE]
       \/ /\ teardown = "stoppedRecv" /\ teardown' = "freedRecv" /\ UNCHANGED running
       \/ /\ teardown = "freedRecv" /\ teardown' = "stoppedSend"
          /\ running' = [running EXCEPT !["send"] = FALSE]
       \/ /\ teardown = "stoppedSend" /\ teardown' = "done" /\ UNCHANGED running
    /\ UNCHANGED <<vars, held, pins, at, sendSide>>

-----------------------------------------------------------------------------
(* SendWorker::Run *)

\* while (Running): the thread ends, or reads a worker that is no more.
LeaveLoop(w) ==
    /\ at[w] = "run"
    /\ w = "recv" => pc = "header" /\ w \notin pins
    /\ ~running[w]
    /\ \E to \in {"ended"} \cup (IF Freed(w) THEN {"astray"} ELSE {}) :
          at' = [at EXCEPT ![w] = to]
    /\ UNCHANGED <<vars, running, session, sendSide>>

Loops(w) == at[w] = "run" /\ running[w] /\ ~Freed(w)

\* Pin, and Dequeue.
SendPin ==
    /\ Loops("send") /\ Alive
    /\ pins' = pins \cup {"send"}
    /\ IF sendPacketQueue = << >>
       THEN /\ at' = [at EXCEPT !["send"] = "unpin"]
            /\ UNCHANGED <<sending, size, sendPacketQueue>>
       ELSE /\ at' = [at EXCEPT !["send"] = "send"]
            /\ sending' = Head(sendPacketQueue) /\ size' = OutSize
            /\ sendPacketQueue' = Tail(sendPacketQueue)
    /\ UNCHANGED <<vars, running, held, teardown, out, written, finished, cut>>

\* Fault: one Send is taken for the whole packet.
SendBytesOnce(n) ==
    /\ at["send"] = "send" /\ n <= size
    /\ written' = [written EXCEPT ![sending] = @ + n]
    /\ size' = 0
    /\ UNCHANGED <<vars, workers, session, out, sendPacketQueue, sending, finished, cut>>

\* One Send of SendDesiredBytes.
SendBytes(n) ==
    /\ at["send"] = "send" /\ n <= size
    /\ written' = [written EXCEPT ![sending] = @ + n]
    /\ size' = size - n
    /\ UNCHANGED <<vars, workers, session, out, sendPacketQueue, sending, finished, cut>>

\* Fault: Run ends when a Send fails.
SendPacketStops ==
    /\ at["send"] = "send"
    /\ \/ size = 0 /\ finished' = Append(finished, sending) /\ UNCHANGED cut
          /\ at' = [at EXCEPT !["send"] = "unpin"]
       \/ size > 0 /\ cut' = Append(cut, sending) /\ UNCHANGED finished
          /\ at' = [at EXCEPT !["send"] = "ended"]
    /\ sending' = 0 /\ size' = 0
    /\ UNCHANGED <<vars, running, session, out, sendPacketQueue, written>>

\* The whole packet is sent, or a Send fails; Run does not look at which.
SendPacketEnds ==
    /\ at["send"] = "send"
    /\ \/ size = 0 /\ finished' = Append(finished, sending) /\ UNCHANGED cut
       \/ size > 0 /\ cut' = Append(cut, sending) /\ UNCHANGED finished
    /\ sending' = 0 /\ size' = 0
    /\ at' = [at EXCEPT !["send"] = "unpin"]
    /\ UNCHANGED <<vars, running, session, out, sendPacketQueue, written>>

\* Fault: the reference stays until the next turn finds a packet.
SendUnpinNot ==
    /\ at["send"] = "unpin"
    /\ at' = [at EXCEPT !["send"] = "run"]
    /\ UNCHANGED <<vars, running, session, sendSide>>

\* The end of the scope of Session: this may be the last reference.
SendUnpin ==
    /\ at["send"] = "unpin"
    /\ Drop(held, pins \ {"send"})
    /\ at' = [at EXCEPT !["send"] = "run"]
    /\ UNCHANGED <<sent, arrived, taken, pc, need, packet, handled, running,
                   out, sending, size, written, finished>>

-----------------------------------------------------------------------------
(* RecvWorker::Run *)

\* A turn of ReceivePacket that does not touch the session.
Receive ==
    /\ at["recv"] = "run" /\ "recv" \notin pins
    /\ IF pc = "header" THEN Loops("recv") ELSE ~Freed("recv")
    /\ AskHeader \/ Parse \/ AskPayload \/ \E n \in 1 .. MaxPacket : ReadHeader(n) \/ ReadPayload(n)
    /\ UNCHANGED <<workers, sendSide, session>>

\* The worker is freed while its thread is inside of ReceivePacket.
ReceiveFreed ==
    /\ at["recv"] = "run" /\ "recv" \notin pins
    /\ pc # "header" /\ Freed("recv")
    /\ at' = [at EXCEPT !["recv"] = "astray"]
    /\ UNCHANGED <<vars, running, session, sendSide>>

\* Without a session the packet is dropped.
RecvPin ==
    /\ at["recv"] = "run" /\ pc = "enqueue" /\ "recv" \notin pins /\ ~Freed("recv")
    /\ IF Alive
       THEN pins' = pins \cup {"recv"} /\ UNCHANGED pc
       ELSE pc' = "header" /\ UNCHANGED pins
    /\ UNCHANGED <<sent, arrived, taken, need, packet, recvPacketQueue, handled,
                   workers, sendSide, held, teardown>>

RecvEnqueue ==
    /\ "recv" \in pins /\ Enqueue
    /\ UNCHANGED <<workers, sendSide, session>>

RecvUnpin ==
    /\ "recv" \in pins /\ pc = "header"
    /\ Drop(held, pins \ {"recv"})
    /\ UNCHANGED <<sent, arrived, taken, pc, need, packet, handled, workers,
                   out, sending, size, written, finished>>

-----------------------------------------------------------------------------
(* The game thread, which is also the one that releases the session *)

SendPacket ==
    /\ held /\ out < MaxOut
    /\ out' = out + 1
    /\ sendPacketQueue' = Append(sendPacketQueue, out + 1)
    /\ UNCHANGED <<vars, workers, session, sending, size, written, finished, cut>>

HandleRecvPackets == /\ held /\ HandleRecvPacket
                     /\ UNCHANGED <<workers, sendSide, session>>

Network == /\ \/ \E n \in Sizes : ServerSends(n)
              \/ \E n \in 1 .. MaxStream : Arrive(n)
           /\ UNCHANGED <<workers, sendSide, session>>

SendRun == SendPin \/ (\E n \in 1 .. OutSize : SendBytes(n)) \/ SendPacketEnds \/ SendUnpin

RecvRun == Receive \/ RecvPin \/ RecvEnqueue \/ RecvUnpin

SessionNext == \/ Network \/ SendPacket \/ HandleRecvPackets \/ Release \/ Disconnect
               \/ SendRun \/ RecvRun \/ ReceiveFreed
               \/ \E w \in Workers : LeaveLoop(w)

\* The network delivers and takes, each thread runs; nobody has to send or to
\* end the game.
SessionSpec == /\ SessionInit /\ [][SessionNext]_all
               /\ WF_all((\E n \in 1 .. MaxStream : Arrive(n)) /\ UNCHANGED <<workers, sendSide, session>>)
               /\ WF_all(SendRun) /\ WF_all(RecvRun) /\ WF_all(HandleRecvPackets)
               /\ WF_all(Disconnect)

-----------------------------------------------------------------------------
(* Properties *)

\* Types; the workers' references are those they use, on whichever thread the
\* last one goes, and the session lives as long as there is one: SendWorker in
\* SendDesiredBytes and RecvWorker at Enqueue find its queues.
SessionTypeOK ==
    /\ TypeOK
    /\ held \in BOOLEAN /\ pins \subseteq Workers
    /\ teardown \in {"none", "begun", "stoppedRecv", "freedRecv", "stoppedSend", "done"}
    /\ running \in [Workers -> BOOLEAN]
    /\ at["recv"] \in {"run", "ended", "astray"}
    /\ at["send"] \in {"run", "send", "unpin", "ended", "astray"}
    /\ size \in 0 .. OutSize
    /\ "send" \in pins <=> at["send"] \in {"send", "unpin"}
    /\ "recv" \in pins => at["recv"] = "run"
    /\ Alive <=> held \/ pins # {}

\* The server's packets reach the handlers whole, once, in order, whatever the
\* game thread and SendWorker do, and up to the end of the session.
KeepsFraming == Framing!Spec

\* Packets given to SendPacket reach the wire whole, once, in order; only one
\* that a Send failed on, or that the end of the session found in the queue,
\* is missing.  A packet that is not whole on the wire is none.
Received == [i \in DOMAIN finished |-> IF written[finished[i]] = OutSize THEN finished[i] ELSE 0]
Channel == INSTANCE FifoChannel WITH
    Buffers <- 1 .. MaxOut,
    waiting <- (IF sending = 0 THEN << >> ELSE <<sending>>) \o sendPacketQueue,
    wire <- Received,
    lost <- cut
SendsInOrder == Channel!Spec

\* As long as nobody releases the session all that the server sent is handled
\* and all that the game thread queued leaves.
AllDelivered == []held => <>[](handled = sent /\ Len(finished) + Len(cut) = out)

\* The workers do not keep the session: once released it is destroyed, and no
\* worker is left running.
ReleasedIsDestroyed == ~held ~> teardown = "done" /\ \A w \in Workers : ~running[w]
=============================================================================
