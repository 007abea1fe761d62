------------------------------ MODULE SendPath ------------------------------
(***************************************************************************)
(* The send side of Session (Server/Core/Session.cpp): Send, RegisterSend, *)
(* ProcessSend, HandleError and Disconnect, run by any number of threads   *)
(* on one connected session, against the overlapped sends of the kernel.   *)
(*                                                                         *)
(* The session's mutex (WRITE_LOCK) protects _sendQueue; _sendEvent, with  *)
(* the buffers of the overlapped send, is protected by nothing but the     *)
(* flag _sendRegistered.  One action per access to shared state.           *)
(***************************************************************************)
EXTENDS Naturals, Sequences, SequencesExt

CONSTANTS Threads,  \* threads that send or take completions: workers, rooms
          Buffers,  \* the send buffers, each sent once: the bound of a model
          Failures, \* what WSASend may answer: {} or subset of FailureKinds
          None

FailureKinds == {"reset",   \* WSAECONNRESET, WSAECONNABORTED
                 "other"}   \* any other error, as WSAENOBUFS

ASSUME FailuresAssumption == Failures \subseteq FailureKinds
ASSUME NoneAssumption == None \notin Threads /\ None \notin Buffers

VARIABLES connected,       \* _connected
          sendQueue,       \* _sendQueue
          sendRegistered,  \* _sendRegistered
          sendBuffers,     \* _sendEvent.sendBuffers
          owner,           \* _sendEvent.owner # nullptr
          lock,            \* the thread that holds the session's mutex
          pc, arg,         \* place and buffer argument of each thread
          result,          \* what the failed WSASend of a thread answered
          kernel,          \* the overlapped send, see KernelStates
          wire, lost,      \* history: buffers the peer got, buffers dropped
          accepted,        \* history: buffers pushed to _sendQueue, in order
          ignored          \* history: a failed WSASend did not end the connection

session == <<connected, sendQueue, sendRegistered, sendBuffers, owner, lock>>
history == <<wire, lost, accepted, ignored>>
vars    == <<session, pc, arg, result, kernel, history>>

KernelStates == {"none", "flying",  \* WSASend returned, nothing reported yet
                 "sent",            \* completion queued, numOfBytes > 0
                 "aborted"}         \* completion queued, numOfBytes = 0

PCs == {"idle", "lockSend", "register", "wsaSend", "error", "clear", "lockProcess"}

Init == /\ connected = TRUE
        /\ sendQueue = << >>
        /\ sendRegistered = FALSE
        /\ sendBuffers = << >>
        /\ owner = FALSE
        /\ lock = None
        /\ pc = [t \in Threads |-> "idle"]
        /\ arg = [t \in Threads |-> None]
        /\ result = [t \in Threads |-> None]
        /\ kernel = "none"
        /\ wire = << >>
        /\ lost = << >>
        /\ accepted = << >>
        /\ ignored = FALSE

Goto(t, p) == pc' = [pc EXCEPT ![t] = p]

\* Disconnect: DisconnectEx lets a send that is out end when the kernel likes;
\* who is first to call it matters to SessionLife.tla.
Disconnect == connected' = FALSE

-----------------------------------------------------------------------------
(* Session::Send *)

Sent == ToSet(accepted) \cup {arg[t] : t \in Threads}

\* IsConnected is read without the lock; a false answer drops the buffer.
Send(t, b) ==
    /\ pc[t] = "idle"
    /\ connected
    /\ b \notin Sent
    /\ arg' = [arg EXCEPT ![t] = b]
    /\ Goto(t, "lockSend")
    /\ UNCHANGED <<session, result, kernel, history>>

\* Fault: the answer of exchange is not looked at.
SendPushAlways(t) ==
    /\ pc[t] = "lockSend"
    /\ lock = None
    /\ sendQueue' = Append(sendQueue, arg[t])
    /\ accepted' = Append(accepted, arg[t])
    /\ arg' = [arg EXCEPT ![t] = None]
    /\ sendRegistered' = TRUE
    /\ Goto(t, "register") /\ lock' = t
    /\ UNCHANGED <<connected, sendBuffers, owner, result, kernel, wire, lost,
                   ignored>>

SendPush(t) ==
    /\ pc[t] = "lockSend"
    /\ lock = None
    /\ sendQueue' = Append(sendQueue, arg[t])
    /\ accepted' = Append(accepted, arg[t])
    /\ arg' = [arg EXCEPT ![t] = None]
    /\ sendRegistered' = TRUE
    /\ IF sendRegistered
       THEN Goto(t, "idle") /\ UNCHANGED lock
       ELSE Goto(t, "register") /\ lock' = t
    /\ UNCHANGED <<connected, sendBuffers, owner, result, kernel, wire, lost,
                   ignored>>

-----------------------------------------------------------------------------
(* Session::RegisterSend, under the lock in both of its callers *)

\* Fault: the buffers are copied to the event and stay in the queue.
RegisterSendCopy(t) ==
    /\ pc[t] = "register"
    /\ IF connected
       THEN /\ owner' = TRUE
            /\ sendBuffers' = sendBuffers \o sendQueue
            /\ UNCHANGED sendQueue
            /\ Goto(t, "wsaSend")
            /\ UNCHANGED lock
       ELSE /\ lock' = None
            /\ Goto(t, "idle")
            /\ UNCHANGED <<owner, sendBuffers, sendQueue>>
    /\ UNCHANGED <<connected, sendRegistered, arg, result, kernel, history>>

\* Fault: the early return leaves the mutex locked.
RegisterSendLocked(t) ==
    /\ pc[t] = "register"
    /\ IF connected
       THEN /\ owner' = TRUE
            /\ sendBuffers' = sendBuffers \o sendQueue
            /\ sendQueue' = << >>
            /\ Goto(t, "wsaSend")
            /\ UNCHANGED lock
       ELSE /\ UNCHANGED lock
            /\ Goto(t, "idle")
            /\ UNCHANGED <<owner, sendBuffers, sendQueue>>
    /\ UNCHANGED <<connected, sendRegistered, arg, result, kernel, history>>

RegisterSend(t) ==
    /\ pc[t] = "register"
    /\ IF connected
       THEN /\ owner' = TRUE
            /\ sendBuffers' = sendBuffers \o sendQueue
            /\ sendQueue' = << >>
            /\ Goto(t, "wsaSend")
            /\ UNCHANGED lock
       ELSE /\ lock' = None
            /\ Goto(t, "idle")
            /\ UNCHANGED <<owner, sendBuffers, sendQueue>>
    /\ UNCHANGED <<connected, sendRegistered, arg, result, kernel, history>>

\* WSASend starts the overlapped send; the completion may be taken by
\* another thread before this one has released the lock.
WsaSend(t) ==
    /\ pc[t] = "wsaSend"
    /\ kernel' = "flying"
    /\ lock' = None
    /\ Goto(t, "idle")
    /\ UNCHANGED <<connected, sendQueue, sendRegistered, sendBuffers, owner,
                   arg, result, history>>

WsaSendFails(t, f) ==
    /\ pc[t] = "wsaSend"
    /\ result' = [result EXCEPT ![t] = f]
    /\ lost' = lost \o sendBuffers
    /\ ignored' = (ignored \/ f = "other")
    /\ Goto(t, "error")
    /\ UNCHANGED <<session, arg, kernel, wire, accepted>>

\* Fault: no error ends the connection.
HandleErrorIgnored(t) ==
    /\ pc[t] = "error"
    /\ result' = [result EXCEPT ![t] = None]
    /\ Goto(t, "clear")
    /\ UNCHANGED <<connected, sendQueue, sendRegistered, sendBuffers,
                   owner, lock, arg, kernel, history>>

HandleError(t) ==
    /\ pc[t] = "error"
    /\ IF result[t] = "reset" THEN Disconnect ELSE UNCHANGED connected
    /\ result' = [result EXCEPT ![t] = None]
    /\ Goto(t, "clear")
    /\ UNCHANGED <<sendQueue, sendRegistered, sendBuffers, owner, lock, arg, kernel, history>>

ClearAfterError(t) ==
    /\ pc[t] = "clear"
    /\ owner' = FALSE
    /\ sendBuffers' = << >>
    /\ sendRegistered' = FALSE
    /\ lock' = None
    /\ Goto(t, "idle")
    /\ UNCHANGED <<connected, sendQueue, arg, result, kernel, history>>

-----------------------------------------------------------------------------
(* Session::ProcessSend, on the worker that dequeued the completion *)

\* The event is cleared before the lock is taken.
ProcessSend(t) ==
    /\ pc[t] = "idle"
    /\ kernel \in {"sent", "aborted"}
    /\ kernel' = "none"
    /\ owner' = FALSE
    /\ sendBuffers' = << >>
    /\ IF kernel = "aborted"
       THEN Disconnect /\ UNCHANGED pc
       ELSE Goto(t, "lockProcess") /\ UNCHANGED connected
    /\ UNCHANGED <<sendQueue, sendRegistered, lock, arg, result, history>>

\* Fault: the flag is cleared without a look at the queue.
ProcessSendForget(t) ==
    /\ pc[t] = "lockProcess"
    /\ lock = None
    /\ sendRegistered' = FALSE
    /\ Goto(t, "idle")
    /\ UNCHANGED <<connected, sendQueue, lock, sendBuffers, owner, arg,
                   result, kernel, history>>

\* Fault: the flag is never cleared.
ProcessSendKeepFlag(t) ==
    /\ pc[t] = "lockProcess"
    /\ lock = None
    /\ IF sendQueue = << >>
       THEN Goto(t, "idle") /\ UNCHANGED lock
       ELSE lock' = t /\ Goto(t, "register")
    /\ UNCHANGED <<connected, sendQueue, sendRegistered, sendBuffers, owner,
                   arg, result, kernel, history>>

ProcessSendNext(t) ==
    /\ pc[t] = "lockProcess"
    /\ lock = None
    /\ IF sendQueue = << >>
       THEN sendRegistered' = FALSE /\ Goto(t, "idle") /\ UNCHANGED lock
       ELSE lock' = t /\ Goto(t, "register") /\ UNCHANGED sendRegistered
    /\ UNCHANGED <<connected, sendQueue, sendBuffers, owner, arg,
                   result, kernel, history>>

\* Some other path ends the connection: a receive of 0 bytes, an error.
DisconnectElsewhere(t) ==
    /\ pc[t] = "idle"
    /\ connected
    /\ Disconnect
    /\ UNCHANGED <<sendQueue, sendRegistered, sendBuffers, owner, lock, pc, arg,
                   result, kernel, history>>

-----------------------------------------------------------------------------
(* The kernel *)

KernelSends ==
    /\ kernel = "flying"
    /\ kernel' = "sent"
    /\ wire' = wire \o sendBuffers
    /\ UNCHANGED <<session, pc, arg, result, lost, accepted, ignored>>

\* The connection is lost or shut down with the send pending: the peer gets
\* the first buffers at most, and the completion reports 0 bytes.
KernelAborts(k) ==
    /\ kernel = "flying"
    /\ kernel' = "aborted"
    /\ wire' = wire \o SubSeq(sendBuffers, 1, k)
    /\ lost' = lost \o SubSeq(sendBuffers, k + 1, Len(sendBuffers))
    /\ UNCHANGED <<session, pc, arg, result, accepted, ignored>>

Step(t) == \/ SendPush(t) \/ RegisterSend(t)
           \/ WsaSend(t) \/ (\E f \in Failures : WsaSendFails(t, f))
           \/ HandleError(t) \/ ClearAfterError(t)
           \/ ProcessSend(t) \/ ProcessSendNext(t)

Kernel == KernelSends \/ \E k \in 0 .. Len(sendBuffers) : KernelAborts(k)

Next == \/ \E t \in Threads : \/ \E b \in Buffers : Send(t, b)
                              \/ Step(t)
                              \/ DisconnectElsewhere(t)
        \/ Kernel

Spec == Init /\ [][Next]_vars

\* Threads run, a mutex that is free again and again is obtained (the lock is
\* held for bounded work), and an overlapped send ends.
FairSpec == /\ Spec
            /\ \A t \in Threads : WF_vars(Step(t))
            /\ \A t \in Threads : SF_vars(SendPush(t)) /\ SF_vars(ProcessSendNext(t))
            /\ WF_vars(Kernel)

-----------------------------------------------------------------------------
(* Properties *)

\* The program points at which the session's mutex is held.
Holds(t) == pc[t] \in {"register", "wsaSend", "error", "clear"}

\* Types, and the mutex is with the thread whose place says so.
TypeOK ==
    /\ connected \in BOOLEAN /\ sendRegistered \in BOOLEAN /\ owner \in BOOLEAN
    /\ sendQueue \in Seq(Buffers) /\ sendBuffers \in Seq(Buffers)
    /\ lock \in Threads \cup {None}
    /\ \A t \in Threads : Holds(t) <=> lock = t
    /\ pc \in [Threads -> PCs]
    /\ arg \in [Threads -> Buffers \cup {None}]
    /\ result \in [Threads -> FailureKinds \cup {None}]
    /\ kernel \in KernelStates
    /\ wire \in Seq(Buffers) /\ lost \in Seq(Buffers) /\ accepted \in Seq(Buffers)
    /\ ignored \in BOOLEAN

\* Threads that read or write _sendEvent, or are entitled to.
UsesEvent(t) == pc[t] \in {"register", "wsaSend", "error", "clear", "lockProcess"}

\* The send event has one user at a time: the kernel, or one thread, and
\* the flag is set for as long.  The kernel writes into the OVERLAPPED and
\* reads the buffers, ProcessSend clears them without the lock: two users
\* would corrupt a send in flight.  (_sendRegistered, RegisterSend,
\* ProcessSend)
EventExclusive ==
    /\ \A t, u \in Threads : UsesEvent(t) /\ UsesEvent(u) => t = u
    /\ \A t \in Threads : UsesEvent(t) => kernel = "none" /\ sendRegistered
    /\ kernel # "none" => sendRegistered

\* A buffer in the queue of a connected session is somebody's business: a
\* send is out, or a thread is on its way to look at the queue.  Otherwise
\* it would wait for a Send that may never come.
NoStuckQueue ==
    connected /\ sendQueue # << >> =>
        \/ kernel # "none"
        \/ \E t \in Threads : UsesEvent(t)

\* The peer's stream never has a gap, so that its framing stays in step: a
\* connection that dropped a buffer sends nothing more.  The one exception is
\* a WSASend that failed with an error HandleError does not act on.
NoGap == ignored \/ IsPrefix(wire, accepted)

\* With the same exception an accepted buffer leaves, unless the connection
\* ends.  (nobody but the completion of the previous send looks
\* at what was pushed meanwhile)
EveryBufferLeaves ==
    \A b \in Buffers : b \in ToSet(accepted) ~> b \in ToSet(wire) \/ ~connected \/ ignored

\* What of the event is not on the wire or lost yet.
Unsent == IF kernel \in {"sent", "aborted"} \/ (\E t \in Threads : pc[t] \in {"error", "clear"})
          THEN << >> ELSE sendBuffers

\* The peer sees a FIFO channel.
Channel == INSTANCE FifoChannel WITH waiting <- Unsent \o sendQueue
ImplementsChannel == Channel!Spec
=============================================================================
