--------------------------- MODULE SendPathProofs ---------------------------
(***************************************************************************)
(* Theorems about SendPath, for any threads, buffers and failures.         *)
(*                                                                         *)
(* The flag _sendRegistered stands for the right to use the send event.    *)
(* EventExclusive is inductive together with the types.  NoStuckQueue is   *)
(* not: it needs that a flag that is set on a connected session has        *)
(* somebody behind it, and that a failed WSASend, which clears the flag,   *)
(* finds the queue empty because the lock was held since it was emptied.   *)
(***************************************************************************)
EXTENDS SendPath, SequenceTheorems, TLAPS

\* A flag that is set on a connected session belongs to somebody.
FlagHasUser ==
    connected /\ sendRegistered => kernel # "none" \/ \E t \in Threads : UsesEvent(t)

\* What is queued on a connected session is announced by the flag.
QueueHasFlag == connected /\ sendQueue # << >> => sendRegistered

\* From RegisterSend until the lock is released the queue is empty.
Emptied == \A t \in Threads : pc[t] \in {"wsaSend", "error", "clear"} => sendQueue = << >>

\* A thread that waits for the lock in Send has a buffer to push.
ArgThere == \A t \in Threads : pc[t] = "lockSend" => arg[t] \in Buffers

IInv == /\ TypeOK /\ EventExclusive
        /\ FlagHasUser /\ QueueHasFlag /\ Emptied /\ ArgThere

LEMMA InitIInv == Init => IInv
  <1> SUFFICES ASSUME Init PROVE IInv
    OBVIOUS
  <1> USE DEF Init
  <1>1. TypeOK
    <2>1. \A t \in Threads : Holds(t) <=> lock = t
      BY NoneAssumption DEF Holds
    <2>2. connected \in BOOLEAN /\ sendRegistered \in BOOLEAN /\ owner \in BOOLEAN /\ ignored \in BOOLEAN
      OBVIOUS
    <2> QED
      BY <2>1, <2>2 DEF TypeOK, PCs, KernelStates
  <1>2. EventExclusive
    BY DEF EventExclusive, UsesEvent
  <1>3. FlagHasUser /\ QueueHasFlag /\ Emptied /\ ArgThere
    BY DEF FlagHasUser, QueueHasFlag, Emptied, ArgThere
  <1> QED
    BY <1>1, <1>2, <1>3 DEF IInv

\* A thread goes to another place, and the mutex goes with it.
LEMMA Moves ==
    ASSUME TypeOK, NEW t \in Threads, NEW p \in PCs, Goto(t, p), lock \in {t, None},
           lock' = IF p \in {"register", "wsaSend", "error", "clear"} THEN t ELSE None
    PROVE  pc' \in [Threads -> PCs] /\ \A u \in Threads : Holds(u)' <=> lock' = u
  BY NoneAssumption DEF TypeOK, Goto, Holds

LEMMA EndTypes ==
    ASSUME Disconnect
    PROVE  connected' \in BOOLEAN
  BY DEF Disconnect

-----------------------------------------------------------------------------
(* One lemma per action.  Its second step says who uses the send event     *)
(* after the action; the conjuncts about the event follow from it.         *)

\* Send, before the lock.
LEMMA SendIInv ==
    ASSUME IInv, NEW t \in Threads, NEW b \in Buffers, Send(t, b)
    PROVE  IInv'
  <1> USE DEF IInv, Send, Goto, session, history
  <1>1. TypeOK'
    BY NoneAssumption DEF TypeOK, Holds, PCs, KernelStates
  <1>2. \A u \in Threads : UsesEvent(u)' <=> UsesEvent(u)
    BY DEF TypeOK, UsesEvent, EventExclusive, KernelStates
  <1>3. EventExclusive'
    BY <1>2 DEF EventExclusive
  <1>4. FlagHasUser'
    BY <1>2 DEF FlagHasUser, EventExclusive
  <1>5. QueueHasFlag'
    BY DEF QueueHasFlag, TypeOK, EventExclusive
  <1>6. Emptied' /\ ArgThere'
    BY DEF Emptied, ArgThere, TypeOK, Holds
  <1> QED
    BY <1>1, <1>3, <1>4, <1>5, <1>6

\* Send, under the lock: it takes the right to the event with the flag.
LEMMA SendPushIInv ==
    ASSUME IInv, NEW t \in Threads, SendPush(t)
    PROVE  IInv'
  <1> USE DEF IInv, SendPush, Goto
  <1>0. arg[t] \in Buffers /\ \A u \in Threads : ~Holds(u)
    BY NoneAssumption DEF TypeOK, ArgThere
  <1>1. TypeOK'
    <2>1. connected' \in BOOLEAN
      BY DEF TypeOK
    <2>2. pc' \in [Threads -> PCs] /\ \A u \in Threads : Holds(u)' <=> lock' = u
      <3>1. CASE sendRegistered
        BY <1>0, <3>1, Moves DEF TypeOK, PCs, Holds
      <3>2. CASE ~sendRegistered
        BY <1>0, <3>2, Moves DEF TypeOK, PCs, Holds
      <3> QED
        BY <3>1, <3>2
    <2>3. sendQueue' \in Seq(Buffers) /\ sendBuffers' \in Seq(Buffers) /\ accepted' \in Seq(Buffers)
      BY <1>0 DEF TypeOK
    <2>4. sendRegistered' \in BOOLEAN /\ owner' \in BOOLEAN
      BY DEF TypeOK
    <2> QED
      BY <1>0, <2>1, <2>2, <2>3, <2>4 DEF TypeOK, KernelStates
  <1>2. \A u \in Threads : UsesEvent(u)' <=> UsesEvent(u) \/ (u = t /\ ~sendRegistered)
    BY <1>0 DEF TypeOK, UsesEvent, EventExclusive, KernelStates
  <1>3. EventExclusive'
    BY <1>0, <1>2 DEF EventExclusive
  <1>4. FlagHasUser'
    BY <1>0, <1>2 DEF FlagHasUser, EventExclusive
  <1>5. QueueHasFlag'
    BY <1>0 DEF QueueHasFlag, TypeOK, EventExclusive
  <1>6. Emptied' /\ ArgThere'
    BY <1>0 DEF Emptied, ArgThere, TypeOK, Holds
  <1> QED
    BY <1>1, <1>3, <1>4, <1>5, <1>6

\* RegisterSend up to WSASend, or its early return on a closed session.
LEMMA RegisterSendIInv ==
    ASSUME IInv, NEW t \in Threads, RegisterSend(t)
    PROVE  IInv'
  <1> USE DEF IInv, RegisterSend, Goto, history
  <1>0. UsesEvent(t) /\ lock = t
    BY DEF TypeOK, Holds, UsesEvent
  <1>1. TypeOK'
    <2>1. connected' \in BOOLEAN
      BY DEF TypeOK
    <2>2. pc' \in [Threads -> PCs] /\ \A u \in Threads : Holds(u)' <=> lock' = u
      <3>1. CASE connected
        BY <1>0, <3>1, Moves DEF TypeOK, PCs, Holds
      <3>2. CASE ~connected
        BY <1>0, <3>2, Moves DEF TypeOK, PCs, Holds
      <3> QED
        BY <3>1, <3>2
    <2>3. sendQueue' \in Seq(Buffers) /\ sendBuffers' \in Seq(Buffers) /\ accepted' \in Seq(Buffers)
      <3>1. CASE connected
        <4>1. sendQueue' = << >> /\ sendBuffers' = sendBuffers \o sendQueue /\ accepted' = accepted
          BY <3>1
        <4>2. sendQueue \in Seq(Buffers) /\ sendBuffers \in Seq(Buffers) /\ accepted \in Seq(Buffers)
          BY DEF TypeOK
        <4> HIDE DEF IInv, RegisterSend
        <4> QED
          BY <4>1, <4>2
      <3>2. CASE ~connected
        BY <3>2 DEF TypeOK
      <3> QED
        BY <3>1, <3>2
    <2>4. sendRegistered' \in BOOLEAN /\ owner' \in BOOLEAN
      BY DEF TypeOK
    <2> QED
      BY <1>0, <2>1, <2>2, <2>3, <2>4 DEF TypeOK, KernelStates
  <1>2. \A u \in Threads : UsesEvent(u)' <=> u = t /\ connected
    BY <1>0 DEF TypeOK, UsesEvent, EventExclusive, KernelStates
  <1>3. EventExclusive'
    BY <1>0, <1>2 DEF EventExclusive
  <1>4. FlagHasUser'
    BY <1>0, <1>2 DEF FlagHasUser, EventExclusive
  <1>5. QueueHasFlag'
    BY <1>0 DEF QueueHasFlag, TypeOK, EventExclusive
  <1>6. Emptied' /\ ArgThere'
    BY <1>0 DEF Emptied, ArgThere, TypeOK, Holds
  <1> QED
    BY <1>1, <1>3, <1>4, <1>5, <1>6

\* A WSASend that starts: the kernel has the event.
LEMMA WsaSendIInv ==
    ASSUME IInv, NEW t \in Threads, WsaSend(t)
    PROVE  IInv'
  <1> USE DEF IInv, WsaSend, Goto, history
  <1>0. UsesEvent(t) /\ lock = t
    BY DEF TypeOK, Holds, UsesEvent
  <1>1. TypeOK'
    BY <1>0, NoneAssumption DEF TypeOK, Holds, PCs, KernelStates
  <1>2. \A u \in Threads : ~UsesEvent(u)'
    BY <1>0 DEF TypeOK, UsesEvent, EventExclusive, KernelStates
  <1>3. EventExclusive'
    BY <1>0, <1>2 DEF EventExclusive
  <1>4. FlagHasUser'
    BY <1>0, <1>2 DEF FlagHasUser, EventExclusive
  <1>5. QueueHasFlag'
    BY <1>0 DEF QueueHasFlag, TypeOK, EventExclusive
  <1>6. Emptied' /\ ArgThere'
    BY <1>0 DEF Emptied, ArgThere, TypeOK, Holds
  <1> QED
    BY <1>1, <1>3, <1>4, <1>5, <1>6

\* A WSASend that fails: the thread keeps the event.
LEMMA WsaSendFailsIInv ==
    ASSUME IInv, NEW t \in Threads, NEW f \in Failures, WsaSendFails(t, f)
    PROVE  IInv'
  <1> USE DEF IInv, WsaSendFails, Goto, session
  <1>0. UsesEvent(t) /\ lock = t /\ f \in FailureKinds
    BY FailuresAssumption DEF TypeOK, Holds, UsesEvent
  <1>1. TypeOK'
    BY <1>0, NoneAssumption DEF TypeOK, Holds, PCs, KernelStates
  <1>2. \A u \in Threads : UsesEvent(u)' <=> UsesEvent(u)
    BY <1>0 DEF TypeOK, UsesEvent, EventExclusive, KernelStates
  <1>3. EventExclusive'
    BY <1>0, <1>2 DEF EventExclusive
  <1>4. FlagHasUser'
    BY <1>0, <1>2 DEF FlagHasUser, EventExclusive
  <1>5. QueueHasFlag'
    BY <1>0 DEF QueueHasFlag, TypeOK, EventExclusive
  <1>6. Emptied' /\ ArgThere'
    BY <1>0 DEF Emptied, ArgThere, TypeOK, Holds
  <1> QED
    BY <1>1, <1>3, <1>4, <1>5, <1>6

\* HandleError may end the connection.
LEMMA HandleErrorIInv ==
    ASSUME IInv, NEW t \in Threads, HandleError(t)
    PROVE  IInv'
  <1> USE DEF IInv, HandleError, Goto, history, Disconnect
  <1>0. UsesEvent(t) /\ lock = t
    BY DEF TypeOK, Holds, UsesEvent
  <1>1. TypeOK'
    <2>1. connected' \in BOOLEAN
      BY EndTypes DEF TypeOK
    <2>2. pc' \in [Threads -> PCs] /\ \A u \in Threads : Holds(u)' <=> lock' = u
      BY <1>0, Moves DEF TypeOK, PCs, Holds
    <2>3. sendQueue' \in Seq(Buffers) /\ sendBuffers' \in Seq(Buffers) /\ accepted' \in Seq(Buffers)
      BY <1>0 DEF TypeOK
    <2>4. sendRegistered' \in BOOLEAN /\ owner' \in BOOLEAN
      BY DEF TypeOK
    <2> QED
      BY <1>0, <2>1, <2>2, <2>3, <2>4 DEF TypeOK, KernelStates
  <1>2. \A u \in Threads : UsesEvent(u)' <=> UsesEvent(u)
    BY <1>0 DEF TypeOK, UsesEvent, EventExclusive, KernelStates
  <1>3. EventExclusive'
    BY <1>0, <1>2 DEF EventExclusive
  <1>4. FlagHasUser'
    BY <1>0, <1>2 DEF FlagHasUser, EventExclusive
  <1>5. QueueHasFlag'
    BY <1>0 DEF QueueHasFlag, TypeOK, EventExclusive
  <1>6. Emptied' /\ ArgThere'
    BY <1>0 DEF Emptied, ArgThere, TypeOK, Holds
  <1> QED
    BY <1>1, <1>3, <1>4, <1>5, <1>6

\* After an error the flag is cleared; the queue is empty, so that nothing is stuck.
LEMMA ClearAfterErrorIInv ==
    ASSUME IInv, NEW t \in Threads, ClearAfterError(t)
    PROVE  IInv'
  <1> USE DEF IInv, ClearAfterError, Goto, history
  <1>0. UsesEvent(t) /\ lock = t /\ sendQueue = << >>
    BY DEF TypeOK, Holds, UsesEvent, Emptied
  <1>1. TypeOK'
    BY <1>0, NoneAssumption DEF TypeOK, Holds, PCs, KernelStates
  <1>2. \A u \in Threads : ~UsesEvent(u)'
    BY <1>0 DEF TypeOK, UsesEvent, EventExclusive, KernelStates
  <1>3. EventExclusive'
    BY <1>0, <1>2 DEF EventExclusive
  <1>4. FlagHasUser'
    BY <1>0, <1>2 DEF FlagHasUser, EventExclusive
  <1>5. QueueHasFlag'
    BY <1>0 DEF QueueHasFlag, TypeOK, EventExclusive
  <1>6. Emptied' /\ ArgThere'
    BY <1>0 DEF Emptied, ArgThere, TypeOK, Holds
  <1> QED
    BY <1>1, <1>3, <1>4, <1>5, <1>6

\* ProcessSend: the event comes back from the kernel.
LEMMA ProcessSendIInv ==
    ASSUME IInv, NEW t \in Threads, ProcessSend(t)
    PROVE  IInv'
  <1> USE DEF IInv, ProcessSend, Goto, history, Disconnect
  <1>0. sendRegistered /\ lock = None /\ \A u \in Threads : ~UsesEvent(u)
    BY DEF EventExclusive, TypeOK, Holds, UsesEvent
  <1>1. TypeOK'
    <2>1. connected' \in BOOLEAN
      BY EndTypes DEF TypeOK
    <2>2. pc' \in [Threads -> PCs] /\ \A u \in Threads : Holds(u)' <=> lock' = u
      <3>1. CASE kernel = "aborted"
        BY <1>0, <3>1, Moves DEF TypeOK, PCs, Holds
      <3>2. CASE kernel = "sent"
        BY <1>0, <3>2, Moves DEF TypeOK, PCs, Holds
      <3> QED
        BY <3>1, <3>2
    <2>3. sendQueue' \in Seq(Buffers) /\ sendBuffers' \in Seq(Buffers) /\ accepted' \in Seq(Buffers)
      BY <1>0 DEF TypeOK
    <2>4. sendRegistered' \in BOOLEAN /\ owner' \in BOOLEAN
      BY DEF TypeOK
    <2> QED
      BY <1>0, <2>1, <2>2, <2>3, <2>4 DEF TypeOK, KernelStates
  <1>2. \A u \in Threads : UsesEvent(u)' <=> u = t /\ kernel = "sent"
    BY <1>0 DEF TypeOK, UsesEvent, EventExclusive, KernelStates
  <1>3. EventExclusive'
    BY <1>0, <1>2 DEF EventExclusive
  <1>4. FlagHasUser'
    BY <1>0, <1>2 DEF FlagHasUser, EventExclusive
  <1>5. QueueHasFlag'
    BY <1>0 DEF QueueHasFlag, TypeOK, EventExclusive
  <1>6. Emptied' /\ ArgThere'
    BY <1>0 DEF Emptied, ArgThere, TypeOK, Holds
  <1> QED
    BY <1>1, <1>3, <1>4, <1>5, <1>6

\* ProcessSend, under the lock: it gives the flag up, or goes on sending.
LEMMA ProcessSendNextIInv ==
    ASSUME IInv, NEW t \in Threads, ProcessSendNext(t)
    PROVE  IInv'
  <1> USE DEF IInv, ProcessSendNext, Goto, history
  <1>0. UsesEvent(t) /\ \A u \in Threads : ~Holds(u)
    BY NoneAssumption DEF TypeOK, UsesEvent
  <1>1. TypeOK'
    <2>1. connected' \in BOOLEAN
      BY DEF TypeOK
    <2>2. pc' \in [Threads -> PCs] /\ \A u \in Threads : Holds(u)' <=> lock' = u
      <3>1. CASE sendQueue = << >>
        BY <1>0, <3>1, Moves DEF TypeOK, PCs, Holds
      <3>2. CASE sendQueue # << >>
        BY <1>0, <3>2, Moves DEF TypeOK, PCs, Holds
      <3> QED
        BY <3>1, <3>2
    <2>3. sendQueue' \in Seq(Buffers) /\ sendBuffers' \in Seq(Buffers) /\ accepted' \in Seq(Buffers)
      BY <1>0 DEF TypeOK
    <2>4. sendRegistered' \in BOOLEAN /\ owner' \in BOOLEAN
      BY DEF TypeOK
    <2> QED
      BY <1>0, <2>1, <2>2, <2>3, <2>4 DEF TypeOK, KernelStates
  <1>2. \A u \in Threads : UsesEvent(u)' <=> u = t /\ sendQueue # << >>
    BY <1>0 DEF TypeOK, UsesEvent, EventExclusive, KernelStates
  <1>3. EventExclusive'
    BY <1>0, <1>2 DEF EventExclusive
  <1>4. FlagHasUser'
    BY <1>0, <1>2 DEF FlagHasUser, EventExclusive
  <1>5. QueueHasFlag'
    BY <1>0 DEF QueueHasFlag, TypeOK, EventExclusive
  <1>6. Emptied' /\ ArgThere'
    BY <1>0 DEF Emptied, ArgThere, TypeOK, Holds
  <1> QED
    BY <1>1, <1>3, <1>4, <1>5, <1>6

\* The connection ends on another path.
LEMMA DisconnectElsewhereIInv ==
    ASSUME IInv, NEW t \in Threads, DisconnectElsewhere(t)
    PROVE  IInv'
  <1> USE DEF IInv, DisconnectElsewhere, Goto, history, Disconnect
  <1>1. TypeOK'
    <2>1. connected' \in BOOLEAN
      BY EndTypes DEF TypeOK
    <2>2. pc' \in [Threads -> PCs] /\ \A u \in Threads : Holds(u)' <=> lock' = u
      BY Moves DEF TypeOK, PCs, Holds
    <2>3. sendQueue' \in Seq(Buffers) /\ sendBuffers' \in Seq(Buffers) /\ accepted' \in Seq(Buffers)
      BY  DEF TypeOK
    <2>4. sendRegistered' \in BOOLEAN /\ owner' \in BOOLEAN
      BY DEF TypeOK
    <2> QED
      BY <2>1, <2>2, <2>3, <2>4 DEF TypeOK, KernelStates
  <1>2. \A u \in Threads : UsesEvent(u)' <=> UsesEvent(u)
    BY DEF TypeOK, UsesEvent, EventExclusive, KernelStates
  <1>3. EventExclusive'
    BY <1>2 DEF EventExclusive
  <1>4. FlagHasUser'
    BY <1>2 DEF FlagHasUser, EventExclusive
  <1>5. QueueHasFlag'
    BY DEF QueueHasFlag, TypeOK, EventExclusive
  <1>6. Emptied' /\ ArgThere'
    BY DEF Emptied, ArgThere, TypeOK, Holds
  <1> QED
    BY <1>1, <1>3, <1>4, <1>5, <1>6

\* The kernel's steps leave the event with the kernel.
LEMMA KernelIInv ==
    ASSUME IInv, Kernel
    PROVE  IInv'
  <1> USE DEF IInv, session
  <1>1. /\ UNCHANGED <<session, pc, arg, result, accepted, ignored>>
        /\ kernel = "flying" /\ kernel' \in {"sent", "aborted"}
    BY DEF Kernel, KernelSends, KernelAborts
  <1>2. wire' \in Seq(Buffers) /\ lost' \in Seq(Buffers)
    <2>1. CASE KernelSends
      BY <2>1 DEF KernelSends, TypeOK
    <2>2. CASE \E k \in 0 .. Len(sendBuffers) : KernelAborts(k)
      <3>1. PICK k \in 0 .. Len(sendBuffers) : KernelAborts(k)
        BY <2>2
      <3>2. /\ SubSeq(sendBuffers, 1, k) \in Seq(Buffers)
            /\ SubSeq(sendBuffers, k + 1, Len(sendBuffers)) \in Seq(Buffers)
        BY DEF TypeOK
      <3> QED
        BY <3>1, <3>2 DEF KernelAborts, TypeOK
    <2> QED
      BY <2>1, <2>2 DEF Kernel
  <1>3. TypeOK'
    BY <1>1, <1>2 DEF TypeOK, Holds, KernelStates
  <1>4. \A u \in Threads : UsesEvent(u)' <=> UsesEvent(u)
    BY <1>1 DEF UsesEvent
  <1>5. EventExclusive' /\ FlagHasUser'
    BY <1>1, <1>4 DEF EventExclusive, FlagHasUser
  <1>6. QueueHasFlag' /\ Emptied' /\ ArgThere'
    BY <1>1 DEF QueueHasFlag, Emptied, ArgThere
  <1> QED
    BY <1>3, <1>5, <1>6

LEMMA StutterIInv == IInv /\ UNCHANGED vars => IInv'
  BY DEF IInv, vars, session, history, TypeOK, EventExclusive,
         FlagHasUser, QueueHasFlag, Emptied, ArgThere, Holds, UsesEvent

LEMMA NextIInv == IInv /\ [Next]_vars => IInv'
  <1> SUFFICES ASSUME IInv, [Next]_vars PROVE IInv'
    OBVIOUS
  <1>1. ASSUME NEW t \in Threads, NEW b \in Buffers, Send(t, b) PROVE IInv'
    BY <1>1, SendIInv
  <1>2. ASSUME NEW t \in Threads, Step(t) PROVE IInv'
    <2>1. ASSUME NEW f \in Failures, WsaSendFails(t, f) PROVE IInv'
      BY <2>1, WsaSendFailsIInv
    <2> QED
      BY <1>2, <2>1, SendPushIInv, RegisterSendIInv, WsaSendIInv, HandleErrorIInv,
         ClearAfterErrorIInv, ProcessSendIInv, ProcessSendNextIInv DEF Step
  <1>3. ASSUME NEW t \in Threads, DisconnectElsewhere(t) PROVE IInv'
    BY <1>3, DisconnectElsewhereIInv
  <1> QED
    BY <1>1, <1>2, <1>3, KernelIInv, StutterIInv DEF Next

LEMMA AlwaysIInv == Spec => []IInv
  BY InitIInv, NextIInv, PTL DEF Spec

-----------------------------------------------------------------------------
(* Theorems *)

\* The variables keep their types, and the session's mutex is with the
\* thread whose place says so.
THEOREM TypeCorrect == Spec => []TypeOK
  BY AlwaysIInv, PTL DEF IInv

\* _sendEvent, which has no lock, is used by the kernel or by one thread,
\* for any number of threads that send and take completions.
THEOREM OneUser == Spec => []EventExclusive
  BY AlwaysIInv, PTL DEF IInv

\* A buffer in the queue of a connected session is somebody's business.
THEOREM NothingStuck == Spec => []NoStuckQueue
  <1>1. IInv => NoStuckQueue
    BY DEF IInv, FlagHasUser, QueueHasFlag, NoStuckQueue
  <1> QED
    BY <1>1, AlwaysIInv, PTL

-----------------------------------------------------------------------------
(***************************************************************************)
(* SendPath implements FifoChannel, and without an ignored error the       *)
(* peer's stream has no gap.                                               *)
(*                                                                         *)
(* Every step does one of three things to the channel: nothing, accept a   *)
(* buffer, or take some from the front of what waits (StepKinds).  That a  *)
(* transfer never follows a loss rests on Dead: who lost buffers is on the *)
(* way to end the connection, and holds the send event until it has.       *)
(***************************************************************************)

Waiting == Unsent \o sendQueue

\* What a thread is about to push was not accepted before, and is its own.
Fresh == /\ \A t \in Threads : arg[t] # None => arg[t] \notin ToSet(accepted)
         /\ \A t, u \in Threads : arg[t] = arg[u] /\ arg[t] # None => t = u

\* Nothing comes from nowhere.
Known == ToSet(Waiting) \cup ToSet(wire) \cup ToSet(lost) \subseteq ToSet(accepted)

\* Once buffers were lost no send is out or about to be, and the connection
\* has ended or is about to.
Dead == ~ignored /\ lost # << >> =>
            /\ kernel # "flying" /\ \A t \in Threads : pc[t] # "wsaSend"
            /\ \/ ~connected
               \/ kernel = "aborted"
               \/ \E t \in Threads : pc[t] = "error" /\ result[t] = "reset"

\* What was accepted is where it should be, in order.
Flow == ~ignored => accepted = (wire \o lost) \o Waiting

CInv == Fresh /\ Known /\ Dead /\ Flow

\* The three kinds of step.
Stays == UNCHANGED <<Waiting, wire, lost, accepted>>

Accepts == \E b \in Buffers : /\ b \notin ToSet(accepted)
                              /\ accepted' = Append(accepted, b)
                              /\ Waiting' = Append(Waiting, b)
                              /\ UNCHANGED <<wire, lost>>

Transferred(n, k) == /\ Waiting' = SubSeq(Waiting, n + 1, Len(Waiting))
                     /\ wire' = wire \o SubSeq(Waiting, 1, k)
                     /\ lost' = lost \o SubSeq(Waiting, k + 1, n)

Transfers == /\ ignored \/ lost = << >>
             /\ accepted' = accepted
             /\ \E n \in 0 .. Len(Waiting) : \E k \in 0 .. n : Transferred(n, k)

-----------------------------------------------------------------------------
(* Sequences *)

LEMMA ConcatParts ==
    ASSUME NEW S, NEW s \in Seq(S), NEW t \in Seq(S), NEW k \in 0 .. Len(s)
    PROVE  /\ SubSeq(s \o t, Len(s) + 1, Len(s \o t)) = t
           /\ SubSeq(s \o t, 1, k) = SubSeq(s, 1, k)
           /\ SubSeq(s \o t, k + 1, Len(s)) = SubSeq(s, k + 1, Len(s))
           /\ Len(s) \in 0 .. Len(s \o t)
  <1>1. /\ s \o t \in Seq(S) /\ Len(s \o t) = Len(s) + Len(t)
        /\ Len(s) \in Nat /\ Len(t) \in Nat
        /\ \A i \in 1 .. Len(s) + Len(t) :
              (s \o t)[i] = IF i <= Len(s) THEN s[i] ELSE t[i - Len(s)]
        /\ \A i \in 1 .. Len(s) : s[i] \in S
        /\ \A i \in 1 .. Len(t) : t[i] \in S
    BY ConcatProperties, ElementOfSeq, LenProperties
  <1>2. SubSeq(s \o t, Len(s) + 1, Len(s \o t)) = t
    <2> DEFINE u == SubSeq(s \o t, Len(s) + 1, Len(s \o t))
    <2>1. \A i \in Len(s) + 1 .. Len(s \o t) : (s \o t)[i] \in S
      BY <1>1
    <2>2. /\ u \in Seq(S)
          /\ Len(u) = Len(t)
          /\ \A i \in 1 .. Len(t) : u[i] = (s \o t)[Len(s) + i]
      BY <1>1, <2>1, SubSeqProperties
    <2>3. \A i \in 1 .. Len(t) : u[i] = t[i]
      BY <1>1, <2>2
    <2>4. u = t
      <3> HIDE DEF u
      <3> QED
        BY <2>2, <2>3, SeqEqual
    <2> QED
      BY <2>4
  <1>3. ASSUME NEW m \in Nat \ {0}, NEW n \in 0 .. Len(s)
        PROVE  SubSeq(s \o t, m, n) = SubSeq(s, m, n)
    <2> DEFINE u == SubSeq(s \o t, m, n)  v == SubSeq(s, m, n)
    <2>1. \A i \in m .. n : (s \o t)[i] \in S /\ s[i] \in S /\ (s \o t)[i] = s[i]
      BY <1>1
    <2>2. /\ u \in Seq(S) /\ v \in Seq(S)
          /\ Len(u) = Len(v) /\ Len(u) = IF m <= n THEN n - m + 1 ELSE 0
          /\ \A i \in 1 .. n - m + 1 : u[i] = (s \o t)[m + i - 1] /\ v[i] = s[m + i - 1]
      BY <2>1, SubSeqProperties
    <2>3. \A i \in 1 .. Len(u) : u[i] = v[i]
      BY <2>1, <2>2
    <2> HIDE DEF u, v
    <2> QED
      BY <2>2, <2>3, SeqEqual
  <1>4. SubSeq(s \o t, 1, k) = SubSeq(s, 1, k)
    BY <1>3
  <1>5. k + 1 \in Nat \ {0} /\ Len(s) \in 0 .. Len(s)
    BY <1>1
  <1>6. SubSeq(s \o t, k + 1, Len(s)) = SubSeq(s, k + 1, Len(s))
    BY <1>3, <1>5
  <1>7. Len(s) \in 0 .. Len(s \o t)
    BY <1>1
  <1> QED
    BY <1>2, <1>4, <1>6, <1>7

\* The pieces of a transfer, put together again.
LEMMA Pieces ==
    ASSUME NEW S, NEW s \in Seq(S), NEW n \in 0 .. Len(s), NEW k \in 0 .. n
    PROVE  /\ SubSeq(s, 1, k) \in Seq(S) /\ SubSeq(s, k + 1, n) \in Seq(S)
           /\ SubSeq(s, n + 1, Len(s)) \in Seq(S)
           /\ (SubSeq(s, 1, k) \o SubSeq(s, k + 1, n)) \o SubSeq(s, n + 1, Len(s)) = s
  <1>1. Len(s) \in Nat /\ \A i \in 1 .. Len(s) : s[i] \in S
    BY ElementOfSeq, LenProperties
  <1>2. /\ SubSeq(s, 1, k) \in Seq(S) /\ SubSeq(s, k + 1, n) \in Seq(S)
        /\ SubSeq(s, n + 1, Len(s)) \in Seq(S)
    BY <1>1, SubSeqProperties
  <1>3. SubSeq(s, 1, k) \o SubSeq(s, k + 1, n) = SubSeq(s, 1, n)
    BY <1>1, ConcatAdjacentSubSeq
  <1>4. SubSeq(s, 1, n) \o SubSeq(s, n + 1, Len(s)) = SubSeq(s, 1, Len(s))
    <2>1. /\ 1 \in 1 .. Len(s) + 1 /\ n \in 1 - 1 .. Len(s)
          /\ Len(s) \in n .. Len(s)
      BY <1>1
    <2> QED
      BY <2>1, ConcatAdjacentSubSeq
  <1> QED
    BY <1>2, <1>3, <1>4, SubSeqFull

LEMMA Assoc ==
    ASSUME NEW s \in Seq(Buffers), NEW t \in Seq(Buffers), NEW u \in Seq(Buffers)
    PROVE  (s \o t) \o u = s \o (t \o u)
  BY ConcatAssociative

LEMMA SetOfConcat ==
    ASSUME NEW S, NEW s \in Seq(S), NEW t \in Seq(S)
    PROVE  ToSet(s \o t) = ToSet(s) \cup ToSet(t)
  <1>1. /\ DOMAIN s = 1 .. Len(s) /\ DOMAIN t = 1 .. Len(t) /\ Len(s) \in Nat /\ Len(t) \in Nat
        /\ DOMAIN (s \o t) = 1 .. Len(s) + Len(t)
        /\ \A i \in 1 .. Len(s) + Len(t) :
              (s \o t)[i] = IF i <= Len(s) THEN s[i] ELSE t[i - Len(s)]
    BY ConcatProperties, LenProperties
  <1>2. \A i \in 1 .. Len(s) : i \in DOMAIN (s \o t) /\ (s \o t)[i] = s[i]
    BY <1>1
  <1>3. \A i \in 1 .. Len(t) : Len(s) + i \in DOMAIN (s \o t) /\ (s \o t)[Len(s) + i] = t[i]
    BY <1>1
  <1>4. \A i \in DOMAIN (s \o t) : \/ i \in DOMAIN s /\ (s \o t)[i] = s[i]
                                   \/ i - Len(s) \in DOMAIN t /\ (s \o t)[i] = t[i - Len(s)]
    BY <1>1
  <1>5. ASSUME NEW x \in ToSet(s \o t) PROVE x \in ToSet(s) \cup ToSet(t)
    BY <1>4 DEF ToSet
  <1>6. ASSUME NEW x \in ToSet(s) PROVE x \in ToSet(s \o t)
    BY <1>1, <1>2 DEF ToSet
  <1>7. ASSUME NEW x \in ToSet(t) PROVE x \in ToSet(s \o t)
    BY <1>1, <1>3, SMTT(30) DEF ToSet
  <1> QED
    BY <1>5, <1>6, <1>7

LEMMA SetOfAppend ==
    ASSUME NEW S, NEW s \in Seq(S), NEW b \in S
    PROVE  ToSet(Append(s, b)) = ToSet(s) \cup {b}
  <1>1. Append(s, b) = s \o <<b>> /\ <<b>> \in Seq(S)
    BY AppendIsConcat
  <1>2. ToSet(<<b>>) = {b}
    BY DEF ToSet
  <1>3. ToSet(s \o <<b>>) = ToSet(s) \cup ToSet(<<b>>)
    BY <1>1, SetOfConcat, ZenonT(60)
  <1> QED
    BY <1>1, <1>2, <1>3

-----------------------------------------------------------------------------
(* What each action does to the channel *)

LEMMA WaitingType == TypeOK => Unsent \in Seq(Buffers) /\ Waiting \in Seq(Buffers)
  BY DEF TypeOK, Unsent, Waiting

\* Where the send event's buffers count.
LEMMA UnsentIs ==
    ASSUME IInv
    PROVE  /\ kernel \in {"sent", "aborted"} => Unsent = << >>
           /\ \A t \in Threads : pc[t] \in {"error", "clear"} => Unsent = << >>
           /\ kernel = "flying" => Unsent = sendBuffers
           /\ \A t \in Threads : pc[t] \in {"register", "wsaSend"} => Unsent = sendBuffers
  BY DEF IInv, TypeOK, EventExclusive, UsesEvent, Unsent, KernelStates

LEMMA SendPushAccepts ==
    ASSUME IInv, CInv, NEW t \in Threads, SendPush(t)
    PROVE  Accepts
  <1> DEFINE b == arg[t]
  <1>1. b \in Buffers /\ b # None /\ b \notin ToSet(accepted)
    BY NoneAssumption DEF IInv, CInv, ArgThere, Fresh, SendPush
  <1>2. Unsent' = Unsent
    BY DEF SendPush, Unsent, Goto, IInv, TypeOK
  <1>3. Waiting' = Append(Waiting, b)
    <2>1. sendQueue' = Append(sendQueue, b)
      BY DEF SendPush
    <2>2. Unsent \in Seq(Buffers) /\ sendQueue \in Seq(Buffers) /\ <<b>> \in Seq(Buffers)
      BY <1>1, WaitingType DEF IInv, TypeOK
    <2>3. Unsent \o (sendQueue \o <<b>>) = (Unsent \o sendQueue) \o <<b>>
      BY <2>2, ConcatAssociative
    <2>4. /\ Append(sendQueue, b) = sendQueue \o <<b>>
          /\ Append(Unsent \o sendQueue, b) = (Unsent \o sendQueue) \o <<b>>
      <3>1. Unsent \o sendQueue \in Seq(Buffers)
        BY <2>2, ConcatProperties
      <3> QED
        BY <1>1, <2>2, <3>1, AppendIsConcat
    <2> QED
      BY <1>2, <2>1, <2>3, <2>4 DEF Waiting
  <1> QED
    BY <1>1, <1>3 DEF Accepts, SendPush

LEMMA RegisterSendStays ==
    ASSUME IInv, NEW t \in Threads, RegisterSend(t)
    PROVE  Stays
  <1>1. Unsent = sendBuffers /\ kernel = "none" /\ \A u \in Threads : UsesEvent(u) => u = t
    BY UnsentIs DEF RegisterSend, IInv, EventExclusive, UsesEvent
  <1>2. Unsent' = sendBuffers'
    BY <1>1 DEF RegisterSend, Unsent, Goto, IInv, TypeOK, UsesEvent
  <1>3. Waiting' = Waiting
    <2>1. CASE connected
      <3>1. sendBuffers' = sendBuffers \o sendQueue /\ sendQueue' = << >>
        BY <2>1 DEF RegisterSend
      <3>2. sendBuffers \o sendQueue \in Seq(Buffers)
        BY ConcatProperties DEF IInv, TypeOK
      <3>3. (sendBuffers \o sendQueue) \o << >> = sendBuffers \o sendQueue
        BY <3>2, ConcatEmptySeq
      <3> QED
        BY <1>1, <1>2, <3>1, <3>3 DEF Waiting
    <2>2. CASE ~connected
      BY <1>1, <1>2, <2>2 DEF RegisterSend, Waiting
    <2> QED
      BY <2>1, <2>2
  <1> QED
    BY <1>3 DEF Stays, RegisterSend, history

\* The buffers of a send that never started are dropped; nothing was queued
\* behind them, as the lock is held.
LEMMA WsaSendFailsTransfers ==
    ASSUME IInv, CInv, NEW t \in Threads, NEW f \in Failures, WsaSendFails(t, f)
    PROVE  Transfers
  <1>1. Unsent = sendBuffers /\ sendQueue = << >> /\ sendBuffers \in Seq(Buffers)
    BY UnsentIs DEF WsaSendFails, IInv, Emptied, TypeOK
  <1>2. Waiting = sendBuffers
    BY <1>1, ConcatEmptySeq DEF Waiting
  <1>3. Unsent' = << >>
    BY DEF WsaSendFails, Goto, Unsent, IInv, TypeOK
  <1>4. Waiting' = << >>
    <2>1. << >> \o << >> = << >>
      OBVIOUS
    <2> QED
      BY <1>1, <1>3, <2>1 DEF Waiting, WsaSendFails, session
  <1>5. ignored \/ lost = << >>
    BY DEF CInv, Dead, WsaSendFails
  <1>6. /\ SubSeq(Waiting, Len(Waiting) + 1, Len(Waiting)) = << >>
        /\ SubSeq(Waiting, 1, 0) = << >>
        /\ SubSeq(Waiting, 0 + 1, Len(Waiting)) = sendBuffers
        /\ wire \o << >> = wire
        /\ Len(Waiting) \in 0 .. Len(Waiting) /\ 0 \in 0 .. Len(Waiting)
    <2>1. Len(sendBuffers) \in Nat
      BY <1>1, LenProperties
    <2>2. wire \in Seq(Buffers)
      BY DEF IInv, TypeOK
    <2> QED
      BY <1>1, <1>2, <2>1, <2>2, SubSeqEmpty, SubSeqFull, ConcatEmptySeq
  <1>7. wire' = wire \o SubSeq(Waiting, 1, 0) /\ lost' = lost \o SubSeq(Waiting, 0 + 1, Len(Waiting))
    BY <1>6 DEF WsaSendFails
  <1> QED
    BY <1>4, <1>5, <1>6, <1>7 DEF Transfers, Transferred, WsaSendFails

\* The first k buffers of the send arrive, the others are dropped.
LEMMA KernelTransfers ==
    ASSUME IInv, CInv, Kernel
    PROVE  Transfers
  <1>1. Unsent = sendBuffers /\ sendBuffers \in Seq(Buffers) /\ sendQueue \in Seq(Buffers)
    BY UnsentIs DEF Kernel, KernelSends, KernelAborts, IInv, TypeOK
  <1>2. Waiting = sendBuffers \o sendQueue
    BY <1>1 DEF Waiting
  <1>3. Waiting' = sendQueue
    <2>1. Unsent' = << >> /\ sendQueue' = sendQueue
      BY DEF Kernel, KernelSends, KernelAborts, Unsent, session
    <2>2. << >> \o sendQueue = sendQueue
      BY <1>1, ConcatEmptySeq
    <2> QED
      BY <2>1, <2>2 DEF Waiting
  <1>4. ignored \/ lost = << >>
    BY DEF CInv, Dead, Kernel, KernelSends, KernelAborts
  <1>5. \E k \in 0 .. Len(sendBuffers) :
            /\ wire' = wire \o SubSeq(sendBuffers, 1, k)
            /\ lost' = lost \o SubSeq(sendBuffers, k + 1, Len(sendBuffers))
    <2>1. CASE KernelSends
      <3>1. Len(sendBuffers) \in Nat /\ lost \in Seq(Buffers)
        BY <1>1, LenProperties DEF IInv, TypeOK
      <3>2. /\ SubSeq(sendBuffers, 1, Len(sendBuffers)) = sendBuffers
            /\ SubSeq(sendBuffers, Len(sendBuffers) + 1, Len(sendBuffers)) = << >>
            /\ lost \o << >> = lost
        BY <1>1, <3>1, SubSeqFull, SubSeqEmpty, ConcatEmptySeq
      <3>3. /\ wire' = wire \o SubSeq(sendBuffers, 1, Len(sendBuffers))
            /\ lost' = lost \o SubSeq(sendBuffers, Len(sendBuffers) + 1, Len(sendBuffers))
        <4>1. wire' = wire \o sendBuffers /\ lost' = lost
          BY <2>1 DEF KernelSends
        <4> QED
          BY <3>2, <4>1
      <3>4. Len(sendBuffers) \in 0 .. Len(sendBuffers)
        BY <3>1
      <3> QED
        BY <3>3, <3>4
    <2>2. CASE \E k \in 0 .. Len(sendBuffers) : KernelAborts(k)
      BY <2>2 DEF KernelAborts
    <2> QED
      BY <2>1, <2>2 DEF Kernel
  <1>6. PICK k \in 0 .. Len(sendBuffers) :
            /\ wire' = wire \o SubSeq(sendBuffers, 1, k)
            /\ lost' = lost \o SubSeq(sendBuffers, k + 1, Len(sendBuffers))
    BY <1>5
  <1>7. /\ SubSeq(Waiting, Len(sendBuffers) + 1, Len(Waiting)) = sendQueue
        /\ SubSeq(Waiting, 1, k) = SubSeq(sendBuffers, 1, k)
        /\ SubSeq(Waiting, k + 1, Len(sendBuffers)) = SubSeq(sendBuffers, k + 1, Len(sendBuffers))
        /\ Len(sendBuffers) \in 0 .. Len(Waiting)
    BY <1>1, <1>2, ConcatParts
  <1>8. accepted' = accepted
    BY DEF Kernel, KernelSends, KernelAborts
  <1> QED
    BY <1>3, <1>4, <1>6, <1>7, <1>8 DEF Transfers, Transferred

LEMMA StepKinds == IInv /\ CInv /\ [Next]_vars => Stays \/ Accepts \/ Transfers
  <1> SUFFICES ASSUME IInv, CInv, [Next]_vars PROVE Stays \/ Accepts \/ Transfers
    OBVIOUS
  <1>1. ASSUME NEW t \in Threads, NEW b \in Buffers, Send(t, b) PROVE Stays
    BY <1>1 DEF Send, Goto, Stays, Waiting, Unsent, session, history, IInv, TypeOK
  <1>2. ASSUME NEW t \in Threads, Step(t) PROVE Stays \/ Accepts \/ Transfers
    <2>1. ASSUME WsaSend(t) PROVE Stays
      <3>1. Unsent = sendBuffers /\ \A u \in Threads : UsesEvent(u) => u = t
        BY <2>1, UnsentIs DEF WsaSend, IInv, EventExclusive, UsesEvent
      <3>2. Unsent' = sendBuffers
        BY <2>1, <3>1 DEF WsaSend, Goto, Unsent, IInv, TypeOK, UsesEvent
      <3> QED
        BY <2>1, <3>1, <3>2 DEF WsaSend, Stays, Waiting, history
    <2>2. ASSUME HandleError(t) PROVE Stays
      <3>1. Unsent = << >> /\ Unsent' = << >>
        BY <2>2, UnsentIs DEF HandleError, Goto, Unsent, IInv, TypeOK
      <3> QED
        BY <2>2, <3>1 DEF HandleError, Stays, Waiting, history
    <2>3. ASSUME ClearAfterError(t) PROVE Stays
      <3>1. Unsent = << >> /\ Unsent' = << >>
        BY <2>3, UnsentIs DEF ClearAfterError, Goto, Unsent, IInv, TypeOK
      <3> QED
        BY <2>3, <3>1 DEF ClearAfterError, Stays, Waiting, history
    <2>4. ASSUME ProcessSend(t) PROVE Stays
      <3>1. Unsent = << >> /\ Unsent' = << >>
        BY <2>4, UnsentIs DEF ProcessSend, Goto, Unsent, IInv, TypeOK
      <3> QED
        BY <2>4, <3>1 DEF ProcessSend, Stays, Waiting, history
    <2>5. ASSUME ProcessSendNext(t) PROVE Stays
      <3>1. Unsent' = Unsent
        BY <2>5 DEF ProcessSendNext, Goto, Unsent, IInv, TypeOK
      <3> QED
        BY <2>5, <3>1 DEF ProcessSendNext, Stays, Waiting, history
    <2>6. (\E f \in Failures : WsaSendFails(t, f)) => Transfers
      BY WsaSendFailsTransfers
    <2>7. SendPush(t) => Accepts
      BY SendPushAccepts
    <2>8. RegisterSend(t) => Stays
      BY RegisterSendStays
    <2>9. \/ SendPush(t) \/ RegisterSend(t) \/ WsaSend(t) \/ (\E f \in Failures : WsaSendFails(t, f))
          \/ HandleError(t) \/ ClearAfterError(t) \/ ProcessSend(t) \/ ProcessSendNext(t)
      BY <1>2 DEF Step
    <2> QED
      BY <2>1, <2>2, <2>3, <2>4, <2>5, <2>6, <2>7, <2>8, <2>9
  <1>3. ASSUME NEW t \in Threads, DisconnectElsewhere(t) PROVE Stays
    BY <1>3 DEF DisconnectElsewhere, Stays, Waiting, Unsent, history
  <1>4. ASSUME UNCHANGED vars PROVE Stays
    BY <1>4 DEF vars, session, history, Stays, Waiting, Unsent
  <1> QED
    BY <1>1, <1>2, <1>3, <1>4, KernelTransfers DEF Next

-----------------------------------------------------------------------------
(* CInv is an invariant *)

LEMMA InitCInv == Init => CInv
  <1> SUFFICES ASSUME Init PROVE CInv
    OBVIOUS
  <1>1. Unsent = << >> /\ Waiting = << >>
    BY DEF Init, Unsent, Waiting
  <1>2. ToSet(<< >>) = {}
    BY DEF ToSet
  <1>3. Fresh /\ Dead
    BY DEF Init, Fresh, Dead
  <1>4. Known /\ Flow
    BY <1>1, <1>2 DEF Init, Known, Flow
  <1> QED
    BY <1>3, <1>4 DEF CInv

LEMMA FreshStep == IInv /\ Fresh /\ [Next]_vars => Fresh'
  <1> SUFFICES ASSUME IInv, Fresh, [Next]_vars PROVE Fresh'
    OBVIOUS
  <1>1. ASSUME NEW t \in Threads, NEW b \in Buffers, Send(t, b) PROVE Fresh'
    BY <1>1 DEF Send, Sent, Fresh, IInv, TypeOK, history
  <1>2. ASSUME NEW t \in Threads, SendPush(t) PROVE Fresh'
    <2>1. arg[t] \in Buffers /\ arg[t] # None /\ accepted \in Seq(Buffers)
      BY <1>2, NoneAssumption DEF SendPush, IInv, ArgThere, TypeOK
    <2>2. ToSet(accepted') = ToSet(accepted) \cup {arg[t]}
      BY <1>2, <2>1, SetOfAppend DEF SendPush
    <2>3. arg' = [arg EXCEPT ![t] = None] /\ arg \in [Threads -> Buffers \cup {None}]
      BY <1>2 DEF SendPush, IInv, TypeOK
    <2> QED
      BY <2>1, <2>2, <2>3 DEF Fresh
  <1>3. ASSUME UNCHANGED <<arg, accepted>> PROVE Fresh'
    BY <1>3 DEF Fresh
  <1>4. ASSUME NEW t \in Threads, Step(t) PROVE SendPush(t) \/ UNCHANGED <<arg, accepted>>
    BY <1>4 DEF Step, RegisterSend, WsaSend, WsaSendFails, HandleError, ClearAfterError,
                ProcessSend, ProcessSendNext, history
  <1>5. (\E t \in Threads : DisconnectElsewhere(t)) \/ Kernel \/ UNCHANGED vars =>
            UNCHANGED <<arg, accepted>>
    BY DEF DisconnectElsewhere, Kernel, KernelSends, KernelAborts, vars, history
  <1> QED
    BY <1>1, <1>2, <1>3, <1>4, <1>5 DEF Next

LEMMA KnownStep == TypeOK /\ Known /\ (Stays \/ Accepts \/ Transfers) => Known'
  <1> SUFFICES ASSUME TypeOK, Known, Stays \/ Accepts \/ Transfers PROVE Known'
    OBVIOUS
  <1>1. Waiting \in Seq(Buffers) /\ wire \in Seq(Buffers) /\ lost \in Seq(Buffers)
        /\ accepted \in Seq(Buffers)
    BY WaitingType DEF TypeOK
  <1>2. CASE Stays
    BY <1>2 DEF Stays, Known
  <1>3. CASE Accepts
    <2>1. PICK b \in Buffers : /\ accepted' = Append(accepted, b)
                               /\ Waiting' = Append(Waiting, b)
                               /\ UNCHANGED <<wire, lost>>
      BY <1>3 DEF Accepts
    <2>2. ToSet(accepted') = ToSet(accepted) \cup {b} /\ ToSet(Waiting') = ToSet(Waiting) \cup {b}
      BY <1>1, <2>1, SetOfAppend
    <2> QED
      BY <2>1, <2>2 DEF Known
  <1>4. CASE Transfers
    <2>0. PICK n \in 0 .. Len(Waiting) : \E k \in 0 .. n : Transferred(n, k)
      BY <1>4 DEF Transfers, Transferred
    <2>1. PICK k \in 0 .. n : Transferred(n, k)
      BY <2>0
    <2> DEFINE p == SubSeq(Waiting, 1, k)  q == SubSeq(Waiting, k + 1, n)
               r == SubSeq(Waiting, n + 1, Len(Waiting))
    <2>2. p \in Seq(Buffers) /\ q \in Seq(Buffers) /\ r \in Seq(Buffers) /\ (p \o q) \o r = Waiting
      BY <1>1, Pieces
    <2>3. Waiting' = r /\ wire' = wire \o p /\ lost' = lost \o q /\ accepted' = accepted
      BY <1>4, <2>1 DEF Transfers, Transferred
    <2> HIDE DEF p, q, r
    <2>4. p \o q \in Seq(Buffers)
      BY <2>2, ConcatProperties
    <2>5. ToSet(Waiting) = (ToSet(p) \cup ToSet(q)) \cup ToSet(r)
      <3>1. ToSet((p \o q) \o r) = ToSet(p \o q) \cup ToSet(r)
        BY <2>2, <2>4, SetOfConcat, ZenonT(60)
      <3>2. ToSet(p \o q) = ToSet(p) \cup ToSet(q)
        BY <2>2, SetOfConcat
      <3> QED
        BY <2>2, <3>1, <3>2
    <2>6. ToSet(wire') = ToSet(wire) \cup ToSet(p) /\ ToSet(lost') = ToSet(lost) \cup ToSet(q)
      <3>1. ToSet(wire \o p) = ToSet(wire) \cup ToSet(p)
        BY <1>1, <2>2, SetOfConcat
      <3>2. ToSet(lost \o q) = ToSet(lost) \cup ToSet(q)
        BY <1>1, <2>2, SetOfConcat
      <3> QED
        BY <2>3, <3>1, <3>2
    <2> QED
      BY <2>3, <2>5, <2>6 DEF Known
  <1> QED
    BY <1>2, <1>3, <1>4

\* ignored only ever becomes true.
LEMMA FlowStep ==
    TypeOK /\ Flow /\ (ignored => ignored') /\ (Stays \/ Accepts \/ Transfers) => Flow'
  <1> SUFFICES ASSUME TypeOK, Flow, ~ignored, Stays \/ Accepts \/ Transfers
               PROVE  accepted' = (wire' \o lost') \o Waiting'
    BY DEF Flow
  <1>1. /\ Waiting \in Seq(Buffers) /\ wire \in Seq(Buffers) /\ lost \in Seq(Buffers)
        /\ accepted = (wire \o lost) \o Waiting
        /\ wire \o lost \in Seq(Buffers)
    BY WaitingType, ConcatProperties DEF TypeOK, Flow
  <1>2. CASE Stays
    BY <1>1, <1>2 DEF Stays
  <1>3. CASE Accepts
    <2>1. PICK b \in Buffers : /\ accepted' = Append(accepted, b)
                               /\ Waiting' = Append(Waiting, b)
                               /\ UNCHANGED <<wire, lost>>
      BY <1>3 DEF Accepts
    <2>2. Append(Waiting, b) = Waiting \o <<b>> /\ <<b>> \in Seq(Buffers)
      BY <1>1, AppendIsConcat
    <2>3. Append((wire \o lost) \o Waiting, b) = ((wire \o lost) \o Waiting) \o <<b>>
      <3>1. (wire \o lost) \o Waiting \in Seq(Buffers)
        BY <1>1, ConcatProperties
      <3> QED
        BY <3>1, AppendIsConcat
    <2>4. ((wire \o lost) \o Waiting) \o <<b>> = (wire \o lost) \o (Waiting \o <<b>>)
      BY <1>1, <2>2, ConcatAssociative, SMTT(30)
    <2> QED
      BY <1>1, <2>1, <2>2, <2>3, <2>4
  <1>4. CASE Transfers
    <2>0. PICK n \in 0 .. Len(Waiting) : \E k \in 0 .. n : Transferred(n, k)
      BY <1>4 DEF Transfers, Transferred
    <2>1. PICK k \in 0 .. n : Transferred(n, k)
      BY <2>0
    <2> DEFINE p == SubSeq(Waiting, 1, k)  q == SubSeq(Waiting, k + 1, n)
               r == SubSeq(Waiting, n + 1, Len(Waiting))
    <2>2. p \in Seq(Buffers) /\ q \in Seq(Buffers) /\ r \in Seq(Buffers) /\ (p \o q) \o r = Waiting
      BY <1>1, Pieces
    <2>3. Waiting' = r /\ wire' = wire \o p /\ lost' = lost \o q /\ accepted' = accepted
          /\ lost = << >>
      BY <1>4, <2>1 DEF Transfers, Transferred
    <2> HIDE DEF p, q, r
    <2>4. lost' = q /\ accepted = wire \o ((p \o q) \o r)
      <3>1. << >> \o q = q /\ wire \o << >> = wire
        BY <1>1, <2>2, ConcatEmptySeq
      <3> QED
        BY <1>1, <2>2, <2>3, <3>1
    <2>5. wire \in Seq(Buffers) /\ p \o q \in Seq(Buffers)
      BY <1>1, <2>2, ConcatProperties
    <2>6. ASSUME NEW s \in Seq(Buffers), NEW t \in Seq(Buffers)
          PROVE  (wire \o s) \o t = wire \o (s \o t)
      BY <2>5, Assoc
    <2>7. (wire \o p) \o q = wire \o (p \o q)
      BY <2>2, <2>6
    <2>8. (wire \o (p \o q)) \o r = wire \o ((p \o q) \o r)
      BY <2>2, <2>5, <2>6, Zenon
    <2> QED
      BY <2>3, <2>4, <2>7, <2>8
  <1> QED
    BY <1>2, <1>3, <1>4

LEMMA DeadStep == IInv /\ Dead /\ [Next]_vars => Dead'
  <1> SUFFICES ASSUME IInv, Dead, [Next]_vars, ~ignored', lost' # << >>
               PROVE  /\ kernel' # "flying" /\ \A t \in Threads : pc'[t] # "wsaSend"
                      /\ \/ ~connected'
                         \/ kernel' = "aborted"
                         \/ \E t \in Threads : pc'[t] = "error" /\ result'[t] = "reset"
    BY DEF Dead
  <1> DEFINE Ends == \/ ~connected
                     \/ kernel = "aborted"
                     \/ \E t \in Threads : pc[t] = "error" /\ result[t] = "reset"
             Silent == kernel # "flying" /\ \A t \in Threads : pc[t] # "wsaSend"
  <1>0. lost # << >> /\ ~ignored => Ends /\ Silent
    BY DEF Dead
  <1>a. /\ pc \in [Threads -> PCs] /\ result \in [Threads -> FailureKinds \cup {None}]
        /\ \A t \in Threads : UsesEvent(t) => kernel = "none" /\ \A u \in Threads : UsesEvent(u) => u = t
    BY DEF IInv, TypeOK, EventExclusive
  <1>1. ASSUME NEW t \in Threads, NEW b \in Buffers, Send(t, b) PROVE Ends' /\ Silent'
    BY <1>0, <1>1, <1>a DEF Send, Goto, session, history
  <1>2. ASSUME NEW t \in Threads, SendPush(t) PROVE Ends' /\ Silent'
    BY <1>0, <1>2, <1>a DEF SendPush, Goto
  <1>3. ASSUME NEW t \in Threads, RegisterSend(t) PROVE Ends' /\ Silent'
    <2>1. ~connected
      BY <1>0, <1>3, <1>a DEF RegisterSend, UsesEvent, history
    <2> QED
      BY <1>0, <1>3, <1>a, <2>1 DEF RegisterSend, Goto, history
  <1>4. ASSUME NEW t \in Threads, WsaSend(t) PROVE FALSE
    BY <1>0, <1>4 DEF WsaSend, history
  <1>5. ASSUME NEW t \in Threads, NEW f \in Failures, WsaSendFails(t, f) PROVE Ends' /\ Silent'
    <2>1. f = "reset" /\ kernel = "none" /\ \A u \in Threads : pc[u] = "wsaSend" => u = t
      BY <1>5, <1>a, FailuresAssumption DEF WsaSendFails, UsesEvent, FailureKinds
    <2>2. pc'[t] = "error" /\ result'[t] = "reset"
      BY <1>5, <1>a, <2>1 DEF WsaSendFails, Goto
    <2> QED
      BY <1>5, <1>a, <2>1, <2>2 DEF WsaSendFails, Goto
  <1>6. ASSUME NEW t \in Threads, HandleError(t) PROVE Ends' /\ Silent'
    <2>1. UsesEvent(t) /\ \A u \in Threads : pc[u] = "error" => u = t
      BY <1>6, <1>a DEF HandleError, UsesEvent
    <2>2. ~connected'
      BY <1>0, <1>6, <1>a, <2>1 DEF HandleError, Disconnect, history
    <2> QED
      BY <1>0, <1>6, <1>a, <2>2 DEF HandleError, Goto, history
  <1>7. ASSUME NEW t \in Threads, ClearAfterError(t) PROVE Ends' /\ Silent'
    <2>1. UsesEvent(t) /\ \A u \in Threads : pc[u] # "error"
      BY <1>7, <1>a DEF ClearAfterError, UsesEvent
    <2> QED
      BY <1>0, <1>7, <1>a, <2>1 DEF ClearAfterError, Goto, history
  <1>8. ASSUME NEW t \in Threads, ProcessSend(t) PROVE Ends' /\ Silent'
    <2>1. \A u \in Threads : pc[u] # "error"
      BY <1>8, <1>a DEF ProcessSend, UsesEvent
    <2> QED
      BY <1>0, <1>8, <1>a, <2>1 DEF ProcessSend, Disconnect, Goto, history
  <1>9. ASSUME NEW t \in Threads, ProcessSendNext(t) PROVE Ends' /\ Silent'
    BY <1>0, <1>9, <1>a DEF ProcessSendNext, Goto, history
  <1>10. ASSUME NEW t \in Threads, DisconnectElsewhere(t) PROVE Ends' /\ Silent'
    BY <1>0, <1>10 DEF DisconnectElsewhere, Disconnect, history
  <1>11. ASSUME Kernel PROVE Ends' /\ Silent'
    <2>1. ASSUME NEW t \in Threads PROVE pc[t] # "wsaSend"
      BY <1>11, <1>a DEF Kernel, KernelSends, KernelAborts, UsesEvent
    <2>2. CASE KernelSends
      BY <1>0, <2>1, <2>2 DEF KernelSends
    <2>3. CASE \E k \in 0 .. Len(sendBuffers) : KernelAborts(k)
      BY <2>1, <2>3 DEF KernelAborts
    <2> QED
      BY <1>11, <2>2, <2>3 DEF Kernel
  <1>12. ASSUME UNCHANGED vars PROVE Ends' /\ Silent'
    BY <1>0, <1>12 DEF vars, session, history
  <1> HIDE DEF Ends, Silent
  <1>13. ASSUME NEW t \in Threads, Step(t) PROVE Ends' /\ Silent'
    <2>1. (\E f \in Failures : WsaSendFails(t, f)) => Ends' /\ Silent'
      BY <1>5
    <2> QED
      BY <1>2, <1>3, <1>4, <1>6, <1>7, <1>8, <1>9, <1>13, <2>1 DEF Step
  <1>14. Ends' /\ Silent'
    BY <1>1, <1>10, <1>11, <1>12, <1>13 DEF Next
  <1> QED
    BY <1>14 DEF Ends, Silent

LEMMA NextCInv == IInv /\ CInv /\ [Next]_vars => CInv'
  <1> SUFFICES ASSUME IInv, CInv, [Next]_vars PROVE CInv'
    OBVIOUS
  <1>1. ignored => ignored'
    BY DEF Next, Send, Step, SendPush, RegisterSend, WsaSend, WsaSendFails, HandleError,
           ClearAfterError, ProcessSend, ProcessSendNext, DisconnectElsewhere,
           Kernel, KernelSends, KernelAborts, vars, history
  <1>2. TypeOK /\ (Stays \/ Accepts \/ Transfers)
    BY StepKinds DEF IInv
  <1> QED
    BY <1>1, <1>2, FreshStep, KnownStep, DeadStep, FlowStep DEF CInv

LEMMA AlwaysCInv == Spec => []CInv
  BY InitCInv, NextCInv, AlwaysIInv, PTL DEF Spec

-----------------------------------------------------------------------------
(* Theorems *)

\* A connection that dropped a buffer sends nothing more, unless it ignored
\* the error.
THEOREM StreamWithoutGap == Spec => []NoGap
  <1>1. TypeOK /\ Flow => NoGap
    <2> SUFFICES ASSUME TypeOK, Flow, ~ignored PROVE IsPrefix(wire, accepted)
      BY DEF NoGap
    <2>1. wire \in Seq(Buffers) /\ lost \in Seq(Buffers) /\ Waiting \in Seq(Buffers)
          /\ wire \o lost \in Seq(Buffers) /\ lost \o Waiting \in Seq(Buffers)
      BY WaitingType, ConcatProperties DEF TypeOK
    <2>2. accepted = wire \o (lost \o Waiting)
      <3>1. (wire \o lost) \o Waiting = wire \o (lost \o Waiting)
        BY <2>1, Assoc
      <3> QED
        BY <3>1 DEF Flow
    <2>3. Len(wire) \in 0 .. Len(wire) /\ Len(wire) \in 0 .. Len(accepted)
      BY <2>1, <2>2, LenProperties, ConcatProperties
    <2>4. SubSeq(accepted, 1, Len(wire)) = SubSeq(wire, 1, Len(wire))
      BY <2>1, <2>2, <2>3, ConcatParts
    <2> QED
      BY <2>3, <2>4 DEF IsPrefix
  <1> QED
    BY <1>1, AlwaysIInv, AlwaysCInv, PTL DEF IInv, CInv

\* The peer of a session sees a FIFO channel: every step of Send, of a
\* completion, of a failure or of the kernel is a step of the channel or none.
THEOREM SendPathImplements == Spec => ImplementsChannel
  <1>1. Init => Channel!Init
    BY DEF Init, Channel!Init, Unsent
  <1>2. IInv /\ CInv /\ [Next]_vars => [Channel!Next]_Channel!vars
    <2> SUFFICES ASSUME IInv, CInv, [Next]_vars PROVE [Channel!Next]_Channel!vars
      OBVIOUS
    <2>0. Waiting \in Seq(Buffers) /\ wire \in Seq(Buffers) /\ lost \in Seq(Buffers)
      BY WaitingType DEF IInv, TypeOK
    <2>1. CASE Stays
      BY <2>1 DEF Stays, Waiting, Channel!vars
    <2>2. CASE Accepts
      <3>1. PICK b \in Buffers : /\ b \notin ToSet(accepted)
                                 /\ Waiting' = Append(Waiting, b)
                                 /\ UNCHANGED <<wire, lost>>
        BY <2>2 DEF Accepts
      <3>2. Channel!Accept(b)
        <4>1. b \notin Channel!Seen
          BY <3>1 DEF Channel!Seen, Channel!ToSet, ToSet, CInv, Known, Waiting
        <4> QED
          BY <3>1, <4>1 DEF Channel!Accept, Waiting
      <3> QED
        BY <3>2 DEF Channel!Next
    <2>3. CASE Transfers
      <3>1. PICK n \in 0 .. Len(Waiting) : \E k \in 0 .. n : Transferred(n, k)
        BY <2>3 DEF Transfers
      <3>2. PICK k \in 0 .. n : Transferred(n, k)
        BY <3>1
      <3>3. Channel!Transfer(n, k)
        BY <3>2 DEF Transferred, Channel!Transfer, Waiting
      <3>4. CASE n > 0
        <4>1. n \in 1 .. Len(Unsent \o sendQueue)
          BY <3>1, <3>4 DEF Waiting
        <4> QED
          BY <3>2, <3>3, <4>1 DEF Channel!Next
      <3>5. CASE n = 0
        <4>1. k = 0
          BY <3>5
        <4>2. /\ SubSeq(Waiting, 0 + 1, Len(Waiting)) = Waiting
              /\ SubSeq(Waiting, 1, 0) = << >> /\ SubSeq(Waiting, 0 + 1, 0) = << >>
              /\ wire \o << >> = wire /\ lost \o << >> = lost
          BY <2>0, SubSeqFull, SubSeqEmpty, ConcatEmptySeq
        <4>3. Waiting' = Waiting /\ wire' = wire /\ lost' = lost
          BY <3>2, <3>5, <4>1, <4>2 DEF Transferred
        <4> QED
          BY <4>3 DEF Waiting, Channel!vars
      <3> QED
        BY <3>1, <3>4, <3>5
    <2> QED
      BY <2>1, <2>2, <2>3, StepKinds
  <1> QED
    BY <1>1, <1>2, AlwaysIInv, AlwaysCInv, PTL DEF Spec, ImplementsChannel, Channel!Spec
=============================================================================
