----------------------------- MODULE SessionLife -----------------------------
(***************************************************************************)
(* The life of the server's sessions: Listener (accept slots), Session     *)
(* (connect, receive chain, disconnect), Service (_sessions) and           *)
(* GameSessionManager, run by the IOCP workers against the completions of  *)
(* the kernel.  What the sends carry is in SendPath.tla; here a send can   *)
(* only end the connection.                                                *)
(*                                                                         *)
(* A session is a shared_ptr: an object nothing refers to is destroyed and *)
(* its identity may serve again, so Sessions bounds the objects that exist *)
(* at one time, not the connections of a behaviour.                        *)
(***************************************************************************)
EXTENDS Naturals, FiniteSets

CONSTANTS Workers, Sessions,
          AcceptEvents,  \* one per unit of _maxSessionCount
          Failures,      \* the calls that may fail, see FailureKinds
          None

FailureKinds == {"acceptEx",      \* AcceptEx
                 "updateAccept",  \* SetUpdateAcceptSocket or getpeername
                 "recvReset",     \* WSARecv: WSAECONNRESET, WSAECONNABORTED
                 "recvOther",     \* WSARecv: any other error
                 "overflow",      \* OnWrite, OnRecv or OnRead refuse the data
                 "disconnectEx"}  \* DisconnectEx

ASSUME FailuresAssumption == Failures \subseteq FailureKinds
ASSUME NoneAssumption == None \notin Sessions \cup AcceptEvents

VARIABLES connected,    \* _connected of each session
          known,        \* sessions that a packet handler has seen: rooms may send
          recv,         \* _recvEvent of each session, in the kernel's hands
          disc,         \* _disconnectEvent of each session, likewise
          peerClosed,   \* the peer of the session closed its end
          recvFailed,   \* history: sessions of which a WSARecv failed with an
                        \* error that HandleError ignores
          discFailed,   \* history: sessions of which DisconnectEx failed
          inService,    \* Service::_sessions
          sessionCount, \* Service::_sessionCount
          inManager,    \* GameSessionManager::_sessions
          slot,         \* acceptEvent->session of each accept event
          accept,       \* each accept event: with the kernel, or a worker
          pc, sess, acc \* place, session and accept event of each worker

sessionVars == <<connected, known, recv, disc, peerClosed, recvFailed, discFailed>>
tables      == <<inService, sessionCount, inManager>>
slots       == <<slot, accept>>
places      == <<pc, sess, acc>>
vars        == <<sessionVars, tables, slots, places>>

EventStates == {"none", "posted", "zero", "data"}

PCs == {"idle", "accepted", "connect", "add", "onConnected", "registerRecv",
        "wsaRecv", "onRecv", "disconnect", "disconnectEx", "onDisconnected",
        "release", "registerAccept"}

\* Somebody holds a shared_ptr to the session.
Referenced(s) ==
    \/ s \in inService \cup inManager
    \/ recv[s] # "none" \/ disc[s] # "none"
    \/ \E w \in Workers : sess[w] = s
    \/ \E a \in AcceptEvents : slot[a] = s

\* StartAccept has run: every accept event waits with a session of its own.
Init == /\ slot \in [AcceptEvents -> Sessions]
        /\ \A a, b \in AcceptEvents : slot[a] = slot[b] => a = b
        /\ accept = [a \in AcceptEvents |-> "posted"]
        /\ connected = [s \in Sessions |-> FALSE]
        /\ known = {}
        /\ recv = [s \in Sessions |-> "none"]
        /\ disc = [s \in Sessions |-> "none"]
        /\ peerClosed = {}
        /\ recvFailed = {}
        /\ discFailed = {}
        /\ inService = {}
        /\ sessionCount = 0
        /\ inManager = {}
        /\ pc = [w \in Workers |-> "idle"]
        /\ sess = [w \in Workers |-> None]
        /\ acc = [w \in Workers |-> None]

At(w, p) == pc[w] = p
Goto(w, p) == pc' = [pc EXCEPT ![w] = p] /\ UNCHANGED <<sess, acc>>
Begin(w, p, s, a) == /\ pc' = [pc EXCEPT ![w] = p]
                     /\ sess' = [sess EXCEPT ![w] = s]
                     /\ acc' = [acc EXCEPT ![w] = a]

\* Where a worker goes on when ProcessConnect, or all else, has returned.
Return(w) ==
    IF acc[w] # None THEN Goto(w, "registerAccept") ELSE Begin(w, "idle", None, None)

-----------------------------------------------------------------------------
(* Listener *)

\* Dispatch to Listener::ProcessAccept; the worker copies acceptEvent->session.
TakeAccept(w, a) ==
    /\ At(w, "idle")
    /\ accept[a] = "completed"
    /\ accept' = [accept EXCEPT ![a] = "worker"]
    /\ Begin(w, "accepted", slot[a], a)
    /\ UNCHANGED <<sessionVars, tables, slot>>

\* Fault: an early return of ProcessAccept forgets its accept event.
ProcessAcceptLost(w) ==
    /\ At(w, "accepted")
    /\ \/ Goto(w, "connect")
       \/ "updateAccept" \in Failures /\ Begin(w, "idle", None, None)
    /\ UNCHANGED <<sessionVars, tables, slots>>

ProcessAccept(w) ==
    /\ At(w, "accepted")
    /\ \/ Goto(w, "connect")
       \/ "updateAccept" \in Failures /\ Goto(w, "registerAccept")
    /\ UNCHANGED <<sessionVars, tables, slots>>

\* RegisterAccept makes a session and posts AcceptEx with it; when that
\* fails it calls itself, with another session.
RegisterAccept(w, s) ==
    /\ At(w, "registerAccept")
    /\ ~Referenced(s)
    /\ slot' = [slot EXCEPT ![acc[w]] = s]
    /\ connected' = [connected EXCEPT ![s] = FALSE]
    /\ known' = known \ {s}
    /\ peerClosed' = peerClosed \ {s}
    /\ recvFailed' = recvFailed \ {s}
    /\ discFailed' = discFailed \ {s}
    /\ \/ /\ accept' = [accept EXCEPT ![acc[w]] = "posted"]
          /\ Begin(w, "idle", None, None)
       \/ /\ "acceptEx" \in Failures
          /\ UNCHANGED <<accept, places>>
    /\ UNCHANGED <<recv, disc, tables>>

-----------------------------------------------------------------------------
(* Session::ProcessConnect *)

ProcessConnect(w) ==
    /\ At(w, "connect")
    /\ connected' = [connected EXCEPT ![sess[w]] = TRUE]
    /\ Goto(w, "add")
    /\ UNCHANGED <<known, recv, disc, peerClosed, recvFailed, discFailed,
                   tables, slots>>

AddSession(w) ==
    /\ At(w, "add")
    /\ inService' = inService \cup {sess[w]}
    /\ sessionCount' = sessionCount + 1
    /\ Goto(w, "onConnected")
    /\ UNCHANGED <<sessionVars, inManager, slots>>

\* GameSession::OnConnected: GSessionManager.Add
OnConnected(w) ==
    /\ At(w, "onConnected")
    /\ inManager' = inManager \cup {sess[w]}
    /\ Goto(w, "registerRecv")
    /\ UNCHANGED <<sessionVars, inService, sessionCount, slots>>

-----------------------------------------------------------------------------
(* The receive chain: RegisterRecv, ProcessRecv *)

RegisterRecv(w) ==
    /\ At(w, "registerRecv")
    /\ IF connected[sess[w]] THEN Goto(w, "wsaRecv") ELSE Return(w)
    /\ UNCHANGED <<sessionVars, tables, slots>>

\* Fault: HandleError ignores a reset as it does the other errors.
WsaRecvIgnored(w) ==
    /\ At(w, "wsaRecv")
    /\ \/ recv' = [recv EXCEPT ![sess[w]] = "posted"]
       \/ "recvReset" \in Failures /\ UNCHANGED recv
    /\ Return(w)
    /\ UNCHANGED <<connected, known, disc, peerClosed, recvFailed, discFailed,
                   tables, slots>>

\* WSARecv pends, or fails: HandleError ends the connection on a reset and
\* does nothing on another error.
WsaRecv(w) ==
    /\ At(w, "wsaRecv")
    /\ \/ /\ recv' = [recv EXCEPT ![sess[w]] = "posted"]
          /\ Return(w)
          /\ UNCHANGED recvFailed
       \/ "recvReset" \in Failures /\ Goto(w, "disconnect") /\ UNCHANGED <<recv, recvFailed>>
       \/ /\ "recvOther" \in Failures
          /\ recvFailed' = recvFailed \cup {sess[w]}
          /\ Return(w)
          /\ UNCHANGED recv
    /\ UNCHANGED <<connected, known, disc, peerClosed, discFailed, tables, slots>>

\* Fault: the next receive is posted before the data of this one is used.
TakeRecvEarly(w, s) ==
    /\ At(w, "idle")
    /\ recv[s] \in {"data", "zero"}
    /\ recv' = [recv EXCEPT ![s] = IF recv[s] = "data" THEN "posted" ELSE "none"]
    /\ Begin(w, IF recv[s] = "data" THEN "onRecv" ELSE "disconnect", s, None)
    /\ UNCHANGED <<connected, known, disc, peerClosed, recvFailed, discFailed,
                   tables, slots>>

\* Dispatch to ProcessRecv; 0 bytes end the connection.
TakeRecv(w, s) ==
    /\ At(w, "idle")
    /\ recv[s] \in {"data", "zero"}
    /\ recv' = [recv EXCEPT ![s] = "none"]
    /\ Begin(w, IF recv[s] = "data" THEN "onRecv" ELSE "disconnect", s, None)
    /\ UNCHANGED <<connected, known, disc, peerClosed, recvFailed, discFailed,
                   tables, slots>>

\* OnWrite, OnRecv with the packet handlers, OnRead, Clean.
ProcessRecv(w) ==
    /\ At(w, "onRecv")
    /\ known' = known \cup {sess[w]}
    /\ \/ Goto(w, "registerRecv")
       \/ "overflow" \in Failures /\ Goto(w, "disconnect")
    /\ UNCHANGED <<connected, recv, disc, peerClosed, recvFailed, discFailed,
                   tables, slots>>

-----------------------------------------------------------------------------
(* Session::Disconnect, RegisterDisconnect, ProcessDisconnect *)

\* A send to the session, from whatever room, fails or completes with 0.
SendEnds(w, s) ==
    /\ At(w, "idle")
    /\ s \in known
    /\ connected[s]
    /\ Begin(w, "disconnect", s, None)
    /\ UNCHANGED <<sessionVars, tables, slots>>

\* Fault: the old value of _connected is not looked at.
DisconnectAgain(w) ==
    /\ At(w, "disconnect")
    /\ connected' = [connected EXCEPT ![sess[w]] = FALSE]
    /\ Goto(w, "disconnectEx")
    /\ UNCHANGED <<known, recv, disc, peerClosed, recvFailed, discFailed,
                   tables, slots>>

Disconnect(w) ==
    /\ At(w, "disconnect")
    /\ connected' = [connected EXCEPT ![sess[w]] = FALSE]
    /\ IF connected[sess[w]] THEN Goto(w, "disconnectEx") ELSE Return(w)
    /\ UNCHANGED <<known, recv, disc, peerClosed, recvFailed, discFailed,
                   tables, slots>>

\* Fault: with a receive out nothing is posted, as its 0 bytes come anyway.
RegisterDisconnectUnlessRecv(w) ==
    /\ At(w, "disconnectEx")
    /\ \/ recv[sess[w]] = "none" /\ disc' = [disc EXCEPT ![sess[w]] = "posted"]
       \/ recv[sess[w]] # "none" /\ UNCHANGED disc
    /\ Return(w)
    /\ UNCHANGED <<connected, known, recv, peerClosed, recvFailed, discFailed,
                   tables, slots>>

RegisterDisconnect(w) ==
    /\ At(w, "disconnectEx")
    /\ \/ /\ disc' = [disc EXCEPT ![sess[w]] = "posted"]
          /\ UNCHANGED discFailed
       \/ /\ "disconnectEx" \in Failures
          /\ discFailed' = discFailed \cup {sess[w]}
          /\ UNCHANGED disc
    /\ Return(w)
    /\ UNCHANGED <<connected, known, recv, peerClosed, recvFailed, tables, slots>>

TakeDisconnect(w, s) ==
    /\ At(w, "idle")
    /\ disc[s] = "zero"
    /\ disc' = [disc EXCEPT ![s] = "none"]
    /\ Begin(w, "onDisconnected", s, None)
    /\ UNCHANGED <<connected, known, recv, peerClosed, recvFailed, discFailed,
                   tables, slots>>

\* GameSession::OnDisconnected: GSessionManager.Remove
OnDisconnected(w) ==
    /\ At(w, "onDisconnected")
    /\ inManager' = inManager \ {sess[w]}
    /\ Goto(w, "release")
    /\ UNCHANGED <<sessionVars, inService, sessionCount, slots>>

\* Fault: _sessionCount is not decremented.
ReleaseSessionUncounted(w) ==
    /\ At(w, "release")
    /\ inService' = inService \ {sess[w]}
    /\ Begin(w, "idle", None, None)
    /\ UNCHANGED <<sessionVars, sessionCount, inManager, slots>>

ReleaseSession(w) ==
    /\ At(w, "release")
    /\ inService' = inService \ {sess[w]}
    /\ sessionCount' = sessionCount - 1
    /\ Begin(w, "idle", None, None)
    /\ UNCHANGED <<sessionVars, inManager, slots>>

-----------------------------------------------------------------------------
(* The kernel and the peers *)

AcceptCompletes(a) ==
    /\ accept[a] = "posted"
    /\ accept' = [accept EXCEPT ![a] = "completed"]
    /\ UNCHANGED <<sessionVars, tables, slot, places>>

PeerCloses(s) ==
    /\ connected[s]
    /\ s \notin peerClosed
    /\ peerClosed' = peerClosed \cup {s}
    /\ UNCHANGED <<connected, known, recv, disc, recvFailed, discFailed,
                   tables, slots, places>>

RecvData(s) ==
    /\ recv[s] = "posted"
    /\ s \notin peerClosed
    /\ recv' = [recv EXCEPT ![s] = "data"]
    /\ UNCHANGED <<connected, known, disc, peerClosed, recvFailed, discFailed,
                   tables, slots, places>>

\* The peer closed, the connection was lost, or DisconnectEx cancelled it.
RecvZero(s) ==
    /\ recv[s] = "posted"
    /\ recv' = [recv EXCEPT ![s] = "zero"]
    /\ UNCHANGED <<connected, known, disc, peerClosed, recvFailed, discFailed,
                   tables, slots, places>>

DisconnectCompletes(s) ==
    /\ disc[s] = "posted"
    /\ disc' = [disc EXCEPT ![s] = "zero"]
    /\ UNCHANGED <<connected, known, recv, peerClosed, recvFailed, discFailed,
                   tables, slots, places>>

Go(w) == \/ ProcessAccept(w) \/ (\E s \in Sessions : RegisterAccept(w, s))
         \/ ProcessConnect(w) \/ AddSession(w) \/ OnConnected(w)
         \/ RegisterRecv(w) \/ WsaRecv(w) \/ ProcessRecv(w)
         \/ Disconnect(w) \/ RegisterDisconnect(w)
         \/ OnDisconnected(w) \/ ReleaseSession(w)

Next == \/ \E w \in Workers :
               \/ Go(w)
               \/ \E a \in AcceptEvents : TakeAccept(w, a)
               \/ \E s \in Sessions : TakeRecv(w, s) \/ TakeDisconnect(w, s) \/ SendEnds(w, s)
        \/ \E a \in AcceptEvents : AcceptCompletes(a)
        \/ \E s \in Sessions : \/ PeerCloses(s) \/ RecvData(s) \/ RecvZero(s)
                               \/ DisconnectCompletes(s)

Spec == Init /\ [][Next]_vars

-----------------------------------------------------------------------------
(* Properties *)

\* Types; _sessionCount is the size of _sessions.
TypeOK ==
    /\ connected \in [Sessions -> BOOLEAN]
    /\ known \subseteq Sessions /\ peerClosed \subseteq Sessions
    /\ recvFailed \subseteq Sessions /\ discFailed \subseteq Sessions
    /\ recv \in [Sessions -> EventStates] /\ disc \in [Sessions -> EventStates \ {"data"}]
    /\ inService \subseteq Sessions /\ inManager \subseteq Sessions
    /\ sessionCount = Cardinality(inService)
    /\ slot \in [AcceptEvents -> Sessions]
    /\ accept \in [AcceptEvents -> {"posted", "completed", "worker"}]
    /\ pc \in [Workers -> PCs]
    /\ sess \in [Workers -> Sessions \cup {None}]
    /\ acc \in [Workers -> AcceptEvents \cup {None}]

\* ASSERT_CRASH in Service::ReleaseSession: the session being released is
\* in _sessions.  Two releases of one connection, or one before AddSession,
\* would crash the server.
ReleaseFinds == \A w \in Workers : At(w, "release") => sess[w] \in inService

\* Whoever is in GSessionManager is still in the service: Add comes after
\* AddSession, Remove before ReleaseSession, and nobody stays behind.
ManagerInService == inManager \subseteq inService

\* Both tables are in step, in whatever order the completions of a session
\* are handled: the assertion never fires, no session is left in one of them.
TablesInStep == ReleaseFinds /\ ManagerInService

\* The receive chain of a session is in one place: the kernel, or one
\* worker.  _recvBuffer has no lock and rests on this.
InRecv(w, s) == sess[w] = s /\ pc[w] \in {"registerRecv", "wsaRecv", "onRecv"}
OneReceiver ==
    \A s \in Sessions :
        /\ \A v, w \in Workers : InRecv(v, s) /\ InRecv(w, s) => v = w
        /\ (\E w \in Workers : InRecv(w, s)) => recv[s] = "none"

\* An accept event is never lost: the kernel has it, or one worker that will
\* register it again; and never two events wait with one session.
SlotsAlive ==
    /\ \A a \in AcceptEvents :
           accept[a] = "worker" <=> \E w \in Workers : acc[w] = a
    /\ \A v, w \in Workers : acc[v] = acc[w] /\ acc[v] # None => v = w
    /\ \A a, b \in AcceptEvents : slot[a] = slot[b] => a = b

\* A connected session of the service has a receive out or a worker that is
\* about to post one or to end the connection: a session without would never
\* notice that its peer left (RegisterRecv, ProcessRecv).  The one exception
\* is a session of which a WSARecv failed with an error HandleError ignores.
NoDeafSession ==
    \A s \in Sessions :
        connected[s] /\ s \in inService /\ s \notin recvFailed =>
            \/ recv[s] # "none"
            \/ \E w \in Workers :
                  /\ sess[w] = s
                  /\ pc[w] \in {"onConnected", "registerRecv", "wsaRecv", "onRecv", "disconnect"}

\* A session that was closed is on its way out of the tables: DisconnectEx is
\* pending, or a worker is between Disconnect and ReleaseSession.  The one
\* exception is a session of which DisconnectEx failed (RegisterDisconnect).
ClosingIsDriven ==
    \A s \in Sessions :
        s \in inService /\ ~connected[s] /\ s \notin discFailed =>
            \/ disc[s] # "none"
            \/ \E w \in Workers : sess[w] = s /\ pc[w] \in {"disconnectEx", "onDisconnected", "release"}
=============================================================================
