-------------------------- MODULE SessionLifeProofs --------------------------
(***************************************************************************)
(* Theorems about SessionLife, for any workers, sessions, accept events    *)
(* and failures: every safety property its run checks.                     *)
(*                                                                         *)
(* No lock protects a session's path from AcceptEx to ReleaseSession; each *)
(* step rests on nobody else being able to take its own.  Nothing happens  *)
(* to a session before its connection (FreshSlots); while it is set up it  *)
(* has one worker and no receive (Young); from the exchange of _connected  *)
(* to ReleaseSession one worker or one DisconnectEx has the end of it      *)
(* (Closing); and between the two its receive is in one place              *)
(* (OneReceiver).                                                          *)
(***************************************************************************)
EXTENDS SessionLife, FiniteSetTheorems, TLAPS

\* The places of a worker that sets a session up, and of one that ends it.
Setup == {"accepted", "connect", "add", "onConnected"}
Close == {"disconnectEx", "onDisconnected", "release"}

Types == TypeOK /\ IsFiniteSet(inService)

Shape == \A w \in Workers :
    /\ pc[w] = "idle" <=> sess[w] = None
    /\ acc[w] # None =>
          pc[w] \in Setup \cup {"registerRecv", "wsaRecv", "disconnect", "disconnectEx", "registerAccept"}
    /\ pc[w] \in Setup \cup {"registerAccept"} => acc[w] # None

\* Nothing has happened yet to a session that waits for a connection.
FreshSlots == \A a \in AcceptEvents : accept[a] # "worker" =>
    /\ ~connected[slot[a]] /\ slot[a] \notin known
    /\ recv[slot[a]] = "none" /\ disc[slot[a]] = "none"
    /\ slot[a] \notin inService /\ slot[a] \notin inManager
    /\ \A w \in Workers : sess[w] # slot[a]

\* A session that is set up has one worker, and no receive was posted.
Young == \A w \in Workers : pc[w] \in Setup =>
    /\ recv[sess[w]] = "none" /\ disc[sess[w]] = "none" /\ sess[w] \notin known
    /\ sess[w] \notin inManager
    /\ connected[sess[w]] <=> pc[w] \in {"add", "onConnected"}
    /\ sess[w] \in inService <=> pc[w] = "onConnected"
    /\ \A v \in Workers : sess[v] = sess[w] => v = w

\* One DisconnectEx per connection, one who handles its completion.
Closing ==
    /\ \A s \in Sessions : disc[s] # "none" => ~connected[s] /\ s \in inService
    /\ \A w \in Workers : pc[w] \in Close =>
          /\ ~connected[sess[w]] /\ sess[w] \in inService /\ disc[sess[w]] = "none"
          /\ \A v \in Workers : pc[v] \in Close /\ sess[v] = sess[w] => v = w
          /\ pc[w] = "release" => sess[w] \notin inManager

Tables ==
    /\ \A s \in Sessions : connected[s] /\ s \notin inService =>
          \E w \in Workers : sess[w] = s /\ pc[w] = "add"
    /\ inManager \subseteq inService

IInv == Types /\ Shape /\ FreshSlots /\ Young /\ Closing /\ Tables /\ NoDeafSession
            /\ OneReceiver /\ SlotsAlive /\ ClosingIsDriven

LEMMA InitInv == Init => IInv
  <1> SUFFICES ASSUME Init PROVE IInv
    OBVIOUS
  <1>1. Types
    <2>1. connected \in [Sessions -> BOOLEAN]
      BY DEF Init
    <2>2. IsFiniteSet(inService) /\ sessionCount = Cardinality(inService)
      BY FS_EmptySet DEF Init
    <2> QED
      BY <2>1, <2>2 DEF Init, Types, TypeOK, EventStates, PCs
  <1>2. \A w \in Workers : pc[w] = "idle" /\ sess[w] = None /\ acc[w] = None
    BY DEF Init
  <1>3. Shape /\ Young /\ Closing /\ OneReceiver
    BY <1>2 DEF Init, Shape, Young, Closing, OneReceiver, InRecv, Setup, Close
  <1>4. FreshSlots
    BY <1>2, NoneAssumption DEF Init, FreshSlots
  <1>5. Tables /\ NoDeafSession /\ ClosingIsDriven
    BY DEF Init, Tables, NoDeafSession, ClosingIsDriven
  <1>6. SlotsAlive
    BY <1>2, NoneAssumption DEF Init, SlotsAlive
  <1> QED
    BY <1>1, <1>3, <1>4, <1>5, <1>6 DEF IInv

-----------------------------------------------------------------------------
(* Steps *)

\* The step leaves worker w at p, with session s and accept event a.
Fields(w, p, s, a) ==
    /\ pc'[w] = p /\ sess'[w] = s /\ acc'[w] = a
    /\ \A v \in Workers \ {w} : pc'[v] = pc[v] /\ sess'[v] = sess[v] /\ acc'[v] = acc[v]
    /\ pc' \in [Workers -> PCs]
    /\ sess' \in [Workers -> Sessions \cup {None}]
    /\ acc' \in [Workers -> AcceptEvents \cup {None}]

\* The worker goes on at p, or has returned.
Returned(w, p) ==
    \/ Fields(w, p, sess[w], acc[w])
    \/ acc[w] # None /\ Fields(w, "registerAccept", sess[w], acc[w])
    \/ acc[w] = None /\ Fields(w, "idle", None, None)

LEMMA Moves ==
    ASSUME Types, NEW w \in Workers, NEW p \in PCs, NEW s \in Sessions \cup {None},
           NEW a \in AcceptEvents \cup {None}
    PROVE  /\ Begin(w, p, s, a) => Fields(w, p, s, a)
           /\ Goto(w, p) => Fields(w, p, sess[w], acc[w])
           /\ acc[w] # None /\ Return(w) => Fields(w, "registerAccept", sess[w], acc[w])
           /\ acc[w] = None /\ Return(w) => Fields(w, "idle", None, None)
  BY DEF Types, TypeOK, Fields, Begin, Goto, Return, PCs

LEMMA Who ==
    ASSUME IInv, NEW w \in Workers
    PROVE  /\ pc[w] \in PCs /\ acc[w] \in AcceptEvents \cup {None}
           /\ sess[w] \in Sessions \cup {None}
           /\ pc[w] # "idle" => sess[w] \in Sessions
           /\ pc[w] \in Setup \cup {"registerAccept"} => acc[w] \in AcceptEvents
           /\ pc[w] \in {"idle", "onRecv", "onDisconnected", "release"} => acc[w] = None
  BY DEF IInv, Types, TypeOK, Shape, Setup

-----------------------------------------------------------------------------
(* Every step keeps the invariant *)

LEMMA AcceptKeepsInv ==
    ASSUME IInv, NEW w \in Workers, ProcessAccept(w)
    PROVE  IInv'
  <1>1. /\ pc[w] = "accepted" /\ sess[w] \in Sessions /\ acc[w] \in AcceptEvents
        /\ UNCHANGED <<sessionVars, tables, slots>>
    BY Who DEF ProcessAccept, At, Setup
  <1>2. PICK p \in {"connect", "registerAccept"} : Fields(w, p, sess[w], acc[w])
    BY <1>1, Moves DEF ProcessAccept, IInv, PCs
  <1>3. /\ UNCHANGED <<connected, known, recv, disc, peerClosed, recvFailed, discFailed>>
        /\ UNCHANGED <<inService, sessionCount, inManager, slot, accept>>
    BY <1>1 DEF sessionVars, tables, slots
  <1>4. /\ pc'[w] = p /\ sess'[w] = sess[w] /\ acc'[w] = acc[w]
        /\ \A v \in Workers \ {w} : pc'[v] = pc[v] /\ sess'[v] = sess[v] /\ acc'[v] = acc[v]
        /\ pc' \in [Workers -> PCs] /\ sess' \in [Workers -> Sessions \cup {None}]
        /\ acc' \in [Workers -> AcceptEvents \cup {None}]
    BY <1>2 DEF Fields
  <1>5. Types'
    BY <1>1, <1>2, <1>3, <1>4 DEF IInv, Types, TypeOK
  <1>6. Shape'
    BY <1>1, <1>2, <1>3, <1>4 DEF IInv, Shape, Setup
  <1>7. FreshSlots'
    BY <1>1, <1>2, <1>3, <1>4 DEF IInv, FreshSlots
  <1>8. Young'
    BY <1>1, <1>2, <1>3, <1>4 DEF IInv, Young, Setup
  <1>9. Closing'
    BY <1>1, <1>2, <1>3, <1>4 DEF IInv, Closing, Close
  <1>10. Tables'
    BY <1>1, <1>2, <1>3, <1>4 DEF IInv, Tables
  <1>11. NoDeafSession'
    BY <1>1, <1>2, <1>3, <1>4 DEF IInv, NoDeafSession
  <1>12. OneReceiver'
    BY <1>1, <1>2, <1>3, <1>4 DEF IInv, OneReceiver, InRecv
  <1>13. SlotsAlive'
    BY <1>1, <1>2, <1>3, <1>4 DEF IInv, SlotsAlive
  <1>14. ClosingIsDriven'
    BY <1>1, <1>2, <1>3, <1>4 DEF IInv, Close, ClosingIsDriven
  <1> QED
    BY <1>5, <1>6, <1>7, <1>8, <1>9, <1>10, <1>11, <1>12, <1>13, <1>14 DEF IInv

LEMMA ConnectKeepsInv ==
    ASSUME IInv, NEW w \in Workers, ProcessConnect(w)
    PROVE  IInv'
  <1>1. /\ pc[w] = "connect" /\ sess[w] \in Sessions /\ acc[w] \in AcceptEvents
        /\ UNCHANGED <<known, recv, disc, peerClosed, recvFailed, discFailed, inService, sessionCount>>
        /\ UNCHANGED <<inManager, slot, accept>>
    BY Who DEF ProcessConnect, At, Setup, tables, slots
  <1>2. /\ connected' \in [Sessions -> BOOLEAN] /\ connected'[sess[w]]
        /\ \A s \in Sessions \ {sess[w]} : connected'[s] = connected[s]
    BY <1>1 DEF ProcessConnect, IInv, Types, TypeOK
  <1>3. /\ pc'[w] = "add" /\ sess'[w] = sess[w] /\ acc'[w] = acc[w]
        /\ \A v \in Workers \ {w} : pc'[v] = pc[v] /\ sess'[v] = sess[v] /\ acc'[v] = acc[v]
        /\ pc' \in [Workers -> PCs] /\ sess' \in [Workers -> Sessions \cup {None}]
        /\ acc' \in [Workers -> AcceptEvents \cup {None}]
    BY <1>1, Moves DEF ProcessConnect, IInv, PCs, Fields
  <1>4. Types'
    BY <1>1, <1>2, <1>3 DEF IInv, Types, TypeOK
  <1>5. Shape'
    BY <1>1, <1>2, <1>3 DEF IInv, Shape, Setup
  <1>6. FreshSlots'
    BY <1>1, <1>2, <1>3 DEF IInv, Types, TypeOK, FreshSlots
  <1>7. Young'
    BY <1>1, <1>2, <1>3 DEF IInv, Shape, Young, Setup
  <1>8. Closing'
    BY <1>1, <1>2, <1>3 DEF IInv, Types, TypeOK, Shape, Young, Setup, Closing, Close
  <1>9. Tables'
    BY <1>1, <1>2, <1>3 DEF IInv, Tables
  <1>10. NoDeafSession'
    BY <1>1, <1>2, <1>3 DEF IInv, Young, Setup, NoDeafSession
  <1>11. OneReceiver'
    BY <1>1, <1>2, <1>3 DEF IInv, OneReceiver, InRecv
  <1>12. SlotsAlive'
    BY <1>1, <1>2, <1>3 DEF IInv, SlotsAlive
  <1>13. ClosingIsDriven'
    BY <1>1, <1>2, <1>3 DEF IInv, Close, ClosingIsDriven
  <1> QED
    BY <1>4, <1>5, <1>6, <1>7, <1>8, <1>9, <1>10, <1>11, <1>12, <1>13 DEF IInv

LEMMA AddKeepsInv ==
    ASSUME IInv, NEW w \in Workers, AddSession(w)
    PROVE  IInv'
  <1>1. /\ pc[w] = "add" /\ sess[w] \in Sessions /\ acc[w] \in AcceptEvents
        /\ UNCHANGED <<connected, known, recv, disc, peerClosed, recvFailed, discFailed>>
        /\ UNCHANGED <<inManager, slot, accept>>
        /\ inService' = inService \cup {sess[w]}
    BY Who DEF AddSession, At, Setup, sessionVars, slots
  <1>2. IsFiniteSet(inService') /\ sessionCount' = Cardinality(inService')
    <2>1. sess[w] \notin inService
      BY <1>1 DEF IInv, Young, Setup
    <2>2. /\ IsFiniteSet(inService) /\ sessionCount = Cardinality(inService)
          /\ sessionCount' = sessionCount + 1
      BY DEF AddSession, IInv, Types, TypeOK
    <2>3. /\ IsFiniteSet(inService \cup {sess[w]})
          /\ Cardinality(inService \cup {sess[w]}) = Cardinality(inService) + 1
      BY <2>1, <2>2, FS_AddElement
    <2> QED
      BY <1>1, <2>2, <2>3
  <1>3. /\ pc'[w] = "onConnected" /\ sess'[w] = sess[w] /\ acc'[w] = acc[w]
        /\ \A v \in Workers \ {w} : pc'[v] = pc[v] /\ sess'[v] = sess[v] /\ acc'[v] = acc[v]
        /\ pc' \in [Workers -> PCs] /\ sess' \in [Workers -> Sessions \cup {None}]
        /\ acc' \in [Workers -> AcceptEvents \cup {None}]
    BY <1>1, Moves DEF AddSession, IInv, PCs, Fields
  <1>4. Types'
    BY <1>1, <1>2, <1>3 DEF IInv, Types, TypeOK
  <1>5. Shape'
    BY <1>1, <1>2, <1>3 DEF IInv, Shape, Setup
  <1>6. FreshSlots'
    BY <1>1, <1>2, <1>3 DEF IInv, FreshSlots
  <1>7. Young'
    BY <1>1, <1>2, <1>3 DEF IInv, Young, Setup
  <1>8. Closing'
    BY <1>1, <1>2, <1>3 DEF IInv, Closing, Close
  <1>9. Tables'
    BY <1>1, <1>2, <1>3 DEF IInv, Tables
  <1>10. NoDeafSession'
    BY <1>1, <1>2, <1>3 DEF IInv, NoDeafSession
  <1>11. OneReceiver'
    BY <1>1, <1>2, <1>3 DEF IInv, OneReceiver, InRecv
  <1>12. SlotsAlive'
    BY <1>1, <1>2, <1>3 DEF IInv, SlotsAlive
  <1>13. ClosingIsDriven'
    BY <1>1, <1>2, <1>3 DEF IInv, Young, Setup, Close, ClosingIsDriven
  <1> QED
    BY <1>4, <1>5, <1>6, <1>7, <1>8, <1>9, <1>10, <1>11, <1>12, <1>13 DEF IInv

LEMMA OnConnectedKeepsInv ==
    ASSUME IInv, NEW w \in Workers, OnConnected(w)
    PROVE  IInv'
  <1>1. /\ pc[w] = "onConnected" /\ sess[w] \in Sessions /\ acc[w] \in AcceptEvents
        /\ UNCHANGED <<connected, known, recv, disc, peerClosed, recvFailed, discFailed>>
        /\ UNCHANGED <<inService, sessionCount, slot, accept>>
        /\ inManager' = inManager \cup {sess[w]}
    BY Who DEF OnConnected, At, Setup, sessionVars, slots
  <1>2. /\ pc'[w] = "registerRecv" /\ sess'[w] = sess[w] /\ acc'[w] = acc[w]
        /\ \A v \in Workers \ {w} : pc'[v] = pc[v] /\ sess'[v] = sess[v] /\ acc'[v] = acc[v]
        /\ pc' \in [Workers -> PCs] /\ sess' \in [Workers -> Sessions \cup {None}]
        /\ acc' \in [Workers -> AcceptEvents \cup {None}]
    BY <1>1, Moves DEF OnConnected, IInv, PCs, Fields
  <1>3. Types'
    BY <1>1, <1>2 DEF IInv, Types, TypeOK
  <1>4. Shape'
    BY <1>1, <1>2 DEF IInv, Shape, Setup
  <1>5. FreshSlots'
    BY <1>1, <1>2 DEF IInv, FreshSlots
  <1>6. Young'
    BY <1>1, <1>2 DEF IInv, Young, Setup
  <1>7. Closing'
    BY <1>1, <1>2 DEF IInv, Young, Setup, Closing, Close
  <1>8. Tables'
    BY <1>1, <1>2 DEF IInv, Young, Setup, Tables
  <1>9. NoDeafSession'
    BY <1>1, <1>2 DEF IInv, NoDeafSession
  <1>10. OneReceiver'
    BY <1>1, <1>2 DEF IInv, Young, Setup, OneReceiver, InRecv
  <1>11. SlotsAlive'
    BY <1>1, <1>2 DEF IInv, SlotsAlive
  <1>12. ClosingIsDriven'
    BY <1>1, <1>2 DEF IInv, Close, ClosingIsDriven
  <1> QED
    BY <1>3, <1>4, <1>5, <1>6, <1>7, <1>8, <1>9, <1>10, <1>11, <1>12 DEF IInv

LEMMA RegisterRecvKeepsInv ==
    ASSUME IInv, NEW w \in Workers, RegisterRecv(w)
    PROVE  IInv'
  <1>1. /\ pc[w] = "registerRecv" /\ sess[w] \in Sessions /\ acc[w] \in AcceptEvents \cup {None}
        /\ UNCHANGED <<connected, known, recv, disc, peerClosed, recvFailed, discFailed>>
        /\ UNCHANGED <<inService, sessionCount, inManager, slot, accept>>
    BY Who DEF RegisterRecv, At, sessionVars, tables, slots
  <1>2. /\ connected[sess[w]] => Fields(w, "wsaRecv", sess[w], acc[w])
        /\ ~connected[sess[w]] /\ acc[w] # None => Fields(w, "registerAccept", sess[w], acc[w])
        /\ ~connected[sess[w]] /\ acc[w] = None => Fields(w, "idle", None, None)
    BY <1>1, Moves DEF RegisterRecv, IInv, PCs
  <1>3. Returned(w, "wsaRecv") /\ (pc'[w] # "wsaRecv" => ~connected[sess[w]])
    BY <1>1, <1>2 DEF Fields, Returned
  <1>4. Types'
    BY <1>1, <1>2, <1>3 DEF IInv, Fields, Returned, Types, TypeOK
  <1>5. Shape'
    BY <1>1, <1>2, <1>3 DEF IInv, Fields, Returned, Shape, Setup
  <1>6. FreshSlots'
    BY <1>1, <1>2, <1>3, NoneAssumption DEF IInv, Fields, Returned, Types, TypeOK, FreshSlots
  <1>7. Young'
    BY <1>1, <1>2, <1>3 DEF IInv, Fields, Returned, Shape, Young, Setup
  <1>8. Closing'
    BY <1>1, <1>2, <1>3 DEF IInv, Fields, Returned, Closing, Close
  <1>9. Tables'
    BY <1>1, <1>2, <1>3 DEF IInv, Fields, Returned, Tables
  <1>10. NoDeafSession'
    BY <1>1, <1>2, <1>3 DEF IInv, Fields, Returned, NoDeafSession
  <1>11. OneReceiver'
    BY <1>1, <1>2, <1>3 DEF IInv, Fields, Returned, OneReceiver, InRecv
  <1>12. SlotsAlive'
    BY <1>1, <1>2, <1>3 DEF IInv, Fields, Returned, SlotsAlive
  <1>13. ClosingIsDriven'
    BY <1>1, <1>2, <1>3 DEF IInv, Fields, Returned, Close, ClosingIsDriven
  <1> QED
    BY <1>4, <1>5, <1>6, <1>7, <1>8, <1>9, <1>10, <1>11, <1>12, <1>13 DEF IInv

LEMMA WsaRecvKeepsInv ==
    ASSUME IInv, NEW w \in Workers, WsaRecv(w)
    PROVE  IInv'
  <1>1. /\ pc[w] = "wsaRecv" /\ sess[w] \in Sessions /\ acc[w] \in AcceptEvents \cup {None}
        /\ UNCHANGED <<connected, known, disc, peerClosed, discFailed>>
        /\ UNCHANGED <<inService, sessionCount, inManager, slot, accept>>
    BY Who DEF WsaRecv, At, tables, slots
  <1>2. Returned(w, "disconnect")
    <2>1. \/ Goto(w, "disconnect")
          \/ Return(w)
      BY DEF WsaRecv
    <2> QED
      BY <1>1, <2>1, Moves, ZenonT(60) DEF IInv, PCs, Fields, Returned
  <1>3. /\ recv' \in [Sessions -> EventStates] /\ recvFailed' \subseteq Sessions
        /\ recvFailed \subseteq recvFailed'
        /\ \A s \in Sessions \ {sess[w]} : recv'[s] = recv[s]
        /\ recv'[sess[w]] = recv[sess[w]] \/ (recv'[sess[w]] = "posted" /\ pc'[w] # "disconnect")
        /\ pc'[w] # "disconnect" => recv'[sess[w]] # "none" \/ sess[w] \in recvFailed'
    <2>1. \/ recv' = [recv EXCEPT ![sess[w]] = "posted"] /\ Return(w) /\ recvFailed' = recvFailed
          \/ Goto(w, "disconnect") /\ recv' = recv /\ recvFailed' = recvFailed
          \/ Return(w) /\ recv' = recv /\ recvFailed' = recvFailed \cup {sess[w]}
      BY DEF WsaRecv
    <2>2. Return(w) => pc'[w] # "disconnect"
      BY <1>1, Moves DEF IInv, Fields, PCs
    <2>3. Goto(w, "disconnect") => pc'[w] = "disconnect"
      BY <1>1, Moves DEF IInv, Fields, PCs
    <2> QED
      BY <1>1, <2>1, <2>2, <2>3 DEF IInv, Types, TypeOK, EventStates
  <1>4. Types'
    BY <1>1, <1>2, <1>3 DEF IInv, Fields, Returned, Types, TypeOK
  <1>5. Shape'
    BY <1>1, <1>2, <1>3 DEF IInv, Fields, Returned, Shape, Setup
  <1>6. FreshSlots'
    BY <1>1, <1>2, <1>3, NoneAssumption DEF IInv, Fields, Returned, Types, TypeOK, FreshSlots
  <1>7. Young'
    BY <1>1, <1>2, <1>3 DEF IInv, Fields, Returned, Shape, Young, Setup
  <1>8. Closing'
    BY <1>1, <1>2, <1>3 DEF IInv, Fields, Returned, Closing, Close
  <1>9. Tables'
    BY <1>1, <1>2, <1>3 DEF IInv, Fields, Returned, Tables
  <1>10. NoDeafSession'
    BY <1>1, <1>2, <1>3 DEF IInv, Fields, Returned, NoDeafSession
  <1>11. OneReceiver'
    BY <1>1, <1>2, <1>3 DEF IInv, Fields, Returned, OneReceiver, InRecv
  <1>12. SlotsAlive'
    BY <1>1, <1>2, <1>3 DEF IInv, Fields, Returned, SlotsAlive
  <1>13. ClosingIsDriven'
    BY <1>1, <1>2, <1>3 DEF IInv, Fields, Returned, Close, ClosingIsDriven
  <1> QED
    BY <1>4, <1>5, <1>6, <1>7, <1>8, <1>9, <1>10, <1>11, <1>12, <1>13 DEF IInv

LEMMA ProcessRecvKeepsInv ==
    ASSUME IInv, NEW w \in Workers, ProcessRecv(w)
    PROVE  IInv'
  <1>1. /\ pc[w] = "onRecv" /\ sess[w] \in Sessions /\ acc[w] = None
        /\ UNCHANGED <<connected, recv, disc, peerClosed, recvFailed, discFailed>>
        /\ UNCHANGED <<inService, sessionCount, inManager, slot, accept>>
        /\ known' = known \cup {sess[w]}
    BY Who DEF ProcessRecv, At, tables, slots
  <1>2. PICK p \in {"registerRecv", "disconnect"} : Fields(w, p, sess[w], acc[w])
    BY <1>1, Moves DEF ProcessRecv, IInv, PCs
  <1>3. /\ pc'[w] = p /\ sess'[w] = sess[w] /\ acc'[w] = None
        /\ \A v \in Workers \ {w} : pc'[v] = pc[v] /\ sess'[v] = sess[v] /\ acc'[v] = acc[v]
        /\ pc' \in [Workers -> PCs] /\ sess' \in [Workers -> Sessions \cup {None}]
        /\ acc' \in [Workers -> AcceptEvents \cup {None}]
    BY <1>1, <1>2, Moves DEF ProcessRecv, IInv, PCs, Fields
  <1>4. Types'
    BY <1>1, <1>2, <1>3 DEF IInv, Types, TypeOK
  <1>5. Shape'
    BY <1>1, <1>2, <1>3 DEF IInv, Shape, Setup
  <1>6. FreshSlots'
    BY <1>1, <1>2, <1>3 DEF IInv, FreshSlots
  <1>7. Young'
    BY <1>1, <1>2, <1>3 DEF IInv, Young, Setup
  <1>8. Closing'
    BY <1>1, <1>2, <1>3 DEF IInv, Closing, Close
  <1>9. Tables'
    BY <1>1, <1>2, <1>3 DEF IInv, Tables
  <1>10. NoDeafSession'
    BY <1>1, <1>2, <1>3 DEF IInv, NoDeafSession
  <1>11. OneReceiver'
    BY <1>1, <1>2, <1>3 DEF IInv, OneReceiver, InRecv
  <1>12. SlotsAlive'
    BY <1>1, <1>2, <1>3 DEF IInv, SlotsAlive
  <1>13. ClosingIsDriven'
    BY <1>1, <1>2, <1>3 DEF IInv, Close, ClosingIsDriven
  <1> QED
    BY <1>4, <1>5, <1>6, <1>7, <1>8, <1>9, <1>10, <1>11, <1>12, <1>13 DEF IInv

LEMMA DisconnectKeepsInv ==
    ASSUME IInv, NEW w \in Workers, Disconnect(w)
    PROVE  IInv'
  <1>1. /\ pc[w] = "disconnect" /\ sess[w] \in Sessions /\ acc[w] \in AcceptEvents \cup {None}
        /\ UNCHANGED <<known, recv, disc, peerClosed, recvFailed, discFailed>>
        /\ UNCHANGED <<inService, sessionCount, inManager, slot, accept>>
    BY Who DEF Disconnect, At, tables, slots
  <1>2. /\ connected' \in [Sessions -> BOOLEAN] /\ ~connected'[sess[w]]
        /\ \A s \in Sessions \ {sess[w]} : connected'[s] = connected[s]
    BY <1>1 DEF Disconnect, IInv, Types, TypeOK
  <1>3. Returned(w, "disconnectEx") /\ (pc'[w] = "disconnectEx" <=> connected[sess[w]])
    <2>1. CASE connected[sess[w]]
      <3>1. Fields(w, "disconnectEx", sess[w], acc[w])
        BY <1>1, <2>1, Moves DEF Disconnect, IInv, PCs
      <3> QED
        BY <2>1, <3>1 DEF Fields, Returned
    <2>2. CASE ~connected[sess[w]]
      <3>1. /\ acc[w] # None => Fields(w, "registerAccept", sess[w], acc[w])
            /\ acc[w] = None => Fields(w, "idle", None, None)
        BY <1>1, <2>2, Moves DEF Disconnect, IInv, PCs
      <3> QED
        BY <2>2, <3>1 DEF Fields, Returned
    <2> QED
      BY <2>1, <2>2
  <1>4. Types'
    BY <1>1, <1>2, <1>3 DEF IInv, Fields, Returned, Types, TypeOK
  <1>5. Shape'
    BY <1>1, <1>2, <1>3 DEF IInv, Fields, Returned, Shape, Setup
  <1>6. FreshSlots'
    BY <1>1, <1>2, <1>3, NoneAssumption DEF IInv, Fields, Returned, Types, TypeOK, FreshSlots
  <1>7. Young'
    BY <1>1, <1>2, <1>3 DEF IInv, Fields, Returned, Shape, Young, Setup
  <1>8. Closing'
    BY <1>1, <1>2, <1>3 DEF IInv, Fields, Returned, Types, TypeOK, Young, Setup, Closing,
          Close, Tables
  <1>9. Tables'
    BY <1>1, <1>2, <1>3 DEF IInv, Fields, Returned, Tables
  <1>10. NoDeafSession'
    BY <1>1, <1>2, <1>3 DEF IInv, Fields, Returned, NoDeafSession
  <1>11. OneReceiver'
    BY <1>1, <1>2, <1>3 DEF IInv, Fields, Returned, OneReceiver, InRecv
  <1>12. SlotsAlive'
    BY <1>1, <1>2, <1>3 DEF IInv, Fields, Returned, SlotsAlive
  <1>13. ClosingIsDriven'
    BY <1>1, <1>2, <1>3 DEF IInv, Fields, Returned, Close, ClosingIsDriven
  <1> QED
    BY <1>4, <1>5, <1>6, <1>7, <1>8, <1>9, <1>10, <1>11, <1>12, <1>13 DEF IInv

LEMMA RegisterDisconnectKeepsInv ==
    ASSUME IInv, NEW w \in Workers, RegisterDisconnect(w)
    PROVE  IInv'
  <1>1. /\ pc[w] = "disconnectEx" /\ sess[w] \in Sessions /\ acc[w] \in AcceptEvents \cup {None}
        /\ UNCHANGED <<connected, known, recv, peerClosed, recvFailed>>
        /\ UNCHANGED <<inService, sessionCount, inManager, slot, accept>>
    BY Who DEF RegisterDisconnect, At, tables, slots
  <1>2. /\ disc' \in [Sessions -> EventStates \ {"data"}] /\ discFailed' \subseteq Sessions
        /\ discFailed \subseteq discFailed'
        /\ \A s \in Sessions \ {sess[w]} : disc'[s] = disc[s]
        /\ disc'[sess[w]] # "none" \/ sess[w] \in discFailed'
    BY <1>1 DEF RegisterDisconnect, IInv, Types, TypeOK, EventStates
  <1>3. \/ acc[w] # None /\ Fields(w, "registerAccept", sess[w], acc[w])
        \/ acc[w] = None /\ Fields(w, "idle", None, None)
    BY <1>1, Moves DEF RegisterDisconnect, IInv, PCs
  <1>4. Types'
    BY <1>1, <1>2, <1>3 DEF IInv, Fields, Returned, Types, TypeOK
  <1>5. Shape'
    BY <1>1, <1>2, <1>3 DEF IInv, Fields, Returned, Shape, Setup
  <1>6. FreshSlots'
    BY <1>1, <1>2, <1>3, NoneAssumption DEF IInv, Fields, Returned, Types, TypeOK, FreshSlots
  <1>7. Young'
    BY <1>1, <1>2, <1>3 DEF IInv, Fields, Returned, Shape, Young, Setup
  <1>8. Closing'
    BY <1>1, <1>2, <1>3 DEF IInv, Fields, Returned, Types, TypeOK, Closing, Close
  <1>9. Tables'
    BY <1>1, <1>2, <1>3 DEF IInv, Fields, Returned, Tables
  <1>10. NoDeafSession'
    BY <1>1, <1>2, <1>3 DEF IInv, Fields, Returned, NoDeafSession
  <1>11. OneReceiver'
    BY <1>1, <1>2, <1>3 DEF IInv, Fields, Returned, OneReceiver, InRecv
  <1>12. SlotsAlive'
    BY <1>1, <1>2, <1>3 DEF IInv, Fields, Returned, SlotsAlive
  <1>13. ClosingIsDriven'
    BY <1>1, <1>2, <1>3 DEF IInv, Fields, Returned, Close, ClosingIsDriven
  <1> QED
    BY <1>4, <1>5, <1>6, <1>7, <1>8, <1>9, <1>10, <1>11, <1>12, <1>13 DEF IInv

LEMMA OnDisconnectedKeepsInv ==
    ASSUME IInv, NEW w \in Workers, OnDisconnected(w)
    PROVE  IInv'
  <1>1. /\ pc[w] = "onDisconnected" /\ sess[w] \in Sessions /\ acc[w] = None
        /\ UNCHANGED <<connected, known, recv, disc, peerClosed, recvFailed, discFailed>>
        /\ UNCHANGED <<inService, sessionCount, slot, accept>>
        /\ inManager' = inManager \ {sess[w]}
    BY Who DEF OnDisconnected, At, sessionVars, slots
  <1>2. /\ pc'[w] = "release" /\ sess'[w] = sess[w] /\ acc'[w] = None
        /\ \A v \in Workers \ {w} : pc'[v] = pc[v] /\ sess'[v] = sess[v] /\ acc'[v] = acc[v]
        /\ pc' \in [Workers -> PCs] /\ sess' \in [Workers -> Sessions \cup {None}]
        /\ acc' \in [Workers -> AcceptEvents \cup {None}]
    BY <1>1, Moves, ZenonT(60) DEF OnDisconnected, IInv, PCs, Fields
  <1>3. Types'
    BY <1>1, <1>2 DEF IInv, Types, TypeOK
  <1>4. Shape'
    BY <1>1, <1>2 DEF IInv, Shape, Setup
  <1>5. FreshSlots'
    BY <1>1, <1>2 DEF IInv, FreshSlots
  <1>6. Young'
    BY <1>1, <1>2 DEF IInv, Young, Setup
  <1>7. Closing'
    BY <1>1, <1>2 DEF IInv, Closing, Close
  <1>8. Tables'
    BY <1>1, <1>2 DEF IInv, Tables
  <1>9. NoDeafSession'
    BY <1>1, <1>2 DEF IInv, NoDeafSession
  <1>10. OneReceiver'
    BY <1>1, <1>2 DEF IInv, OneReceiver, InRecv
  <1>11. SlotsAlive'
    BY <1>1, <1>2 DEF IInv, SlotsAlive
  <1>12. ClosingIsDriven'
    BY <1>1, <1>2 DEF IInv, Close, ClosingIsDriven
  <1> QED
    BY <1>3, <1>4, <1>5, <1>6, <1>7, <1>8, <1>9, <1>10, <1>11, <1>12 DEF IInv

LEMMA ReleaseKeepsInv ==
    ASSUME IInv, NEW w \in Workers, ReleaseSession(w)
    PROVE  IInv'
  <1>1. /\ pc[w] = "release" /\ sess[w] \in Sessions /\ acc[w] = None
        /\ UNCHANGED <<connected, known, recv, disc, peerClosed, recvFailed, discFailed>>
        /\ UNCHANGED <<inManager, slot, accept>>
        /\ inService' = inService \ {sess[w]}
    BY Who DEF ReleaseSession, At, sessionVars, slots
  <1>2. IsFiniteSet(inService') /\ sessionCount' = Cardinality(inService')
    <2>1. sess[w] \in inService
      BY <1>1 DEF IInv, Closing, Close
    <2> QED
      BY <1>1, <2>1, FS_RemoveElement DEF ReleaseSession, IInv, Types, TypeOK
  <1>3. /\ pc'[w] = "idle" /\ sess'[w] = None /\ acc'[w] = None
        /\ \A v \in Workers \ {w} : pc'[v] = pc[v] /\ sess'[v] = sess[v] /\ acc'[v] = acc[v]
        /\ pc' \in [Workers -> PCs] /\ sess' \in [Workers -> Sessions \cup {None}]
        /\ acc' \in [Workers -> AcceptEvents \cup {None}]
    <2>1. Fields(w, "idle", None, None)
      BY <1>1, Moves DEF ReleaseSession, IInv, PCs
    <2> QED
      BY <2>1 DEF Fields
  <1>4. Types'
    BY <1>1, <1>2, <1>3 DEF IInv, Types, TypeOK
  <1>5. Shape'
    BY <1>1, <1>2, <1>3 DEF IInv, Shape, Setup
  <1>6. FreshSlots'
    BY <1>1, <1>2, <1>3, NoneAssumption DEF IInv, Types, TypeOK, FreshSlots
  <1>7. Young'
    BY <1>1, <1>2, <1>3 DEF IInv, Shape, Young, Setup
  <1>8. Closing'
    BY <1>1, <1>2, <1>3 DEF IInv, Closing, Close
  <1>9. Tables'
    BY <1>1, <1>2, <1>3 DEF IInv, Closing, Close, Tables
  <1>10. NoDeafSession'
    BY <1>1, <1>2, <1>3 DEF IInv, NoDeafSession
  <1>11. OneReceiver'
    BY <1>1, <1>2, <1>3 DEF IInv, OneReceiver, InRecv
  <1>12. SlotsAlive'
    BY <1>1, <1>2, <1>3 DEF IInv, SlotsAlive
  <1>13. ClosingIsDriven'
    BY <1>1, <1>2, <1>3 DEF IInv, Close, ClosingIsDriven
  <1> QED
    BY <1>4, <1>5, <1>6, <1>7, <1>8, <1>9, <1>10, <1>11, <1>12, <1>13 DEF IInv

LEMMA TakeAcceptKeepsInv ==
    ASSUME IInv, NEW w \in Workers, NEW a \in AcceptEvents, TakeAccept(w, a)
    PROVE  IInv'
  <1>1. /\ pc[w] = "idle" /\ sess[w] = None /\ acc[w] = None /\ accept[a] = "completed"
        /\ slot[a] \in Sessions
        /\ UNCHANGED <<connected, known, recv, disc, peerClosed, recvFailed, discFailed>>
        /\ UNCHANGED <<inService, sessionCount, inManager, slot>>
    BY Who DEF TakeAccept, At, sessionVars, tables, IInv, Shape, Types, TypeOK
  <1>2. /\ accept' \in [AcceptEvents -> {"posted", "completed", "worker"}] /\ accept'[a] = "worker"
        /\ \A b \in AcceptEvents \ {a} : accept'[b] = accept[b]
    BY <1>1 DEF TakeAccept, IInv, Types, TypeOK
  <1>3. /\ pc'[w] = "accepted" /\ sess'[w] = slot[a] /\ acc'[w] = a
        /\ \A v \in Workers \ {w} : pc'[v] = pc[v] /\ sess'[v] = sess[v] /\ acc'[v] = acc[v]
        /\ pc' \in [Workers -> PCs] /\ sess' \in [Workers -> Sessions \cup {None}]
        /\ acc' \in [Workers -> AcceptEvents \cup {None}]
    BY <1>1, Moves DEF TakeAccept, IInv, PCs, Fields
  <1>4. Types'
    BY <1>1, <1>2, <1>3 DEF IInv, Types, TypeOK
  <1>5. Shape'
    BY <1>1, <1>2, <1>3, NoneAssumption DEF IInv, Shape, Setup
  <1>6. FreshSlots'
    BY <1>1, <1>2, <1>3, NoneAssumption DEF IInv, FreshSlots, SlotsAlive
  <1>7. Young'
    BY <1>1, <1>2, <1>3 DEF IInv, FreshSlots, Young, Setup
  <1>8. Closing'
    BY <1>1, <1>2, <1>3 DEF IInv, Closing, Close
  <1>9. Tables'
    BY <1>1, <1>2, <1>3 DEF IInv, Tables
  <1>10. NoDeafSession'
    BY <1>1, <1>2, <1>3 DEF IInv, NoDeafSession
  <1>11. OneReceiver'
    BY <1>1, <1>2, <1>3 DEF IInv, OneReceiver, InRecv
  <1>12. SlotsAlive'
    BY <1>1, <1>2, <1>3, NoneAssumption DEF IInv, SlotsAlive
  <1>13. ClosingIsDriven'
    BY <1>1, <1>2, <1>3 DEF IInv, Close, ClosingIsDriven
  <1> QED
    BY <1>4, <1>5, <1>6, <1>7, <1>8, <1>9, <1>10, <1>11, <1>12, <1>13 DEF IInv

LEMMA TakeRecvKeepsInv ==
    ASSUME IInv, NEW w \in Workers, NEW r \in Sessions, TakeRecv(w, r)
    PROVE  IInv'
  <1>1. /\ pc[w] = "idle" /\ sess[w] = None /\ acc[w] = None /\ recv[r] # "none"
        /\ UNCHANGED <<connected, known, disc, peerClosed, recvFailed, discFailed>>
        /\ UNCHANGED <<inService, sessionCount, inManager, slot, accept>>
    BY Who DEF TakeRecv, At, tables, slots, IInv, Shape
  <1>2. /\ recv' \in [Sessions -> EventStates] /\ recv'[r] = "none"
        /\ \A s \in Sessions \ {r} : recv'[s] = recv[s]
    BY <1>1 DEF TakeRecv, IInv, Types, TypeOK, EventStates
  <1>3. PICK p \in {"onRecv", "disconnect"} : Fields(w, p, r, None)
    BY <1>1, Moves DEF TakeRecv, IInv, PCs
  <1>4. /\ pc'[w] = p /\ sess'[w] = r /\ acc'[w] = None
        /\ \A v \in Workers \ {w} : pc'[v] = pc[v] /\ sess'[v] = sess[v] /\ acc'[v] = acc[v]
        /\ pc' \in [Workers -> PCs] /\ sess' \in [Workers -> Sessions \cup {None}]
        /\ acc' \in [Workers -> AcceptEvents \cup {None}]
    BY <1>1, <1>3, Moves DEF TakeRecv, IInv, PCs, Fields
  <1>5. Types'
    BY <1>1, <1>2, <1>3, <1>4 DEF IInv, Types, TypeOK
  <1>6. Shape'
    BY <1>1, <1>2, <1>3, <1>4, NoneAssumption DEF IInv, Shape, Setup
  <1>7. FreshSlots'
    BY <1>1, <1>2, <1>3, <1>4 DEF IInv, Types, TypeOK, FreshSlots
  <1>8. Young'
    BY <1>1, <1>2, <1>3, <1>4 DEF IInv, Young, Setup
  <1>9. Closing'
    BY <1>1, <1>2, <1>3, <1>4 DEF IInv, Closing, Close
  <1>10. Tables'
    BY <1>1, <1>2, <1>3, <1>4 DEF IInv, Tables
  <1>11. NoDeafSession'
    BY <1>1, <1>2, <1>3, <1>4 DEF IInv, NoDeafSession
  <1>12. OneReceiver'
    BY <1>1, <1>2, <1>3, <1>4 DEF IInv, OneReceiver, InRecv
  <1>13. SlotsAlive'
    BY <1>1, <1>2, <1>3, <1>4 DEF IInv, SlotsAlive
  <1>14. ClosingIsDriven'
    BY <1>1, <1>2, <1>3, <1>4 DEF IInv, Close, ClosingIsDriven
  <1> QED
    BY <1>5, <1>6, <1>7, <1>8, <1>9, <1>10, <1>11, <1>12, <1>13, <1>14 DEF IInv

LEMMA TakeDisconnectKeepsInv ==
    ASSUME IInv, NEW w \in Workers, NEW r \in Sessions, TakeDisconnect(w, r)
    PROVE  IInv'
  <1>1. /\ pc[w] = "idle" /\ sess[w] = None /\ acc[w] = None /\ disc[r] # "none"
        /\ UNCHANGED <<connected, known, recv, peerClosed, recvFailed, discFailed>>
        /\ UNCHANGED <<inService, sessionCount, inManager, slot, accept>>
    BY Who DEF TakeDisconnect, At, tables, slots, IInv, Shape
  <1>2. /\ disc' \in [Sessions -> EventStates \ {"data"}] /\ disc'[r] = "none"
        /\ \A s \in Sessions \ {r} : disc'[s] = disc[s]
    BY <1>1 DEF TakeDisconnect, IInv, Types, TypeOK, EventStates
  <1>3. /\ pc'[w] = "onDisconnected" /\ sess'[w] = r /\ acc'[w] = None
        /\ \A v \in Workers \ {w} : pc'[v] = pc[v] /\ sess'[v] = sess[v] /\ acc'[v] = acc[v]
        /\ pc' \in [Workers -> PCs] /\ sess' \in [Workers -> Sessions \cup {None}]
        /\ acc' \in [Workers -> AcceptEvents \cup {None}]
    BY <1>1, Moves DEF TakeDisconnect, IInv, PCs, Fields
  <1>4. Types'
    BY <1>1, <1>2, <1>3 DEF IInv, Types, TypeOK
  <1>5. Shape'
    BY <1>1, <1>2, <1>3, NoneAssumption DEF IInv, Shape, Setup
  <1>6. FreshSlots'
    BY <1>1, <1>2, <1>3 DEF IInv, Types, TypeOK, FreshSlots
  <1>7. Young'
    BY <1>1, <1>2, <1>3 DEF IInv, Young, Setup
  <1>8. Closing'
    BY <1>1, <1>2, <1>3 DEF IInv, Types, TypeOK, Closing, Close
  <1>9. Tables'
    BY <1>1, <1>2, <1>3 DEF IInv, Tables
  <1>10. NoDeafSession'
    BY <1>1, <1>2, <1>3 DEF IInv, NoDeafSession
  <1>11. OneReceiver'
    BY <1>1, <1>2, <1>3 DEF IInv, OneReceiver, InRecv
  <1>12. SlotsAlive'
    BY <1>1, <1>2, <1>3 DEF IInv, SlotsAlive
  <1>13. ClosingIsDriven'
    BY <1>1, <1>2, <1>3 DEF IInv, Close, ClosingIsDriven
  <1> QED
    BY <1>4, <1>5, <1>6, <1>7, <1>8, <1>9, <1>10, <1>11, <1>12, <1>13 DEF IInv

LEMMA SendEndsKeepsInv ==
    ASSUME IInv, NEW w \in Workers, NEW r \in Sessions, SendEnds(w, r)
    PROVE  IInv'
  <1>1. /\ pc[w] = "idle" /\ sess[w] = None /\ acc[w] = None /\ connected[r] /\ r \in known
        /\ UNCHANGED <<connected, known, recv, disc, peerClosed, recvFailed, discFailed>>
        /\ UNCHANGED <<inService, sessionCount, inManager, slot, accept>>
    BY Who DEF SendEnds, At, sessionVars, tables, slots, IInv, Shape
  <1>2. /\ pc'[w] = "disconnect" /\ sess'[w] = r /\ acc'[w] = None
        /\ \A v \in Workers \ {w} : pc'[v] = pc[v] /\ sess'[v] = sess[v] /\ acc'[v] = acc[v]
        /\ pc' \in [Workers -> PCs] /\ sess' \in [Workers -> Sessions \cup {None}]
        /\ acc' \in [Workers -> AcceptEvents \cup {None}]
    BY <1>1, Moves DEF SendEnds, IInv, PCs, Fields
  <1>3. Types'
    BY <1>1, <1>2 DEF IInv, Types, TypeOK
  <1>4. Shape'
    BY <1>1, <1>2, NoneAssumption DEF IInv, Shape, Setup
  <1>5. FreshSlots'
    BY <1>1, <1>2 DEF IInv, FreshSlots
  <1>6. Young'
    BY <1>1, <1>2 DEF IInv, Young, Setup
  <1>7. Closing'
    BY <1>1, <1>2 DEF IInv, Closing, Close
  <1>8. Tables'
    BY <1>1, <1>2 DEF IInv, Tables
  <1>9. NoDeafSession'
    BY <1>1, <1>2 DEF IInv, NoDeafSession
  <1>10. OneReceiver'
    BY <1>1, <1>2 DEF IInv, OneReceiver, InRecv
  <1>11. SlotsAlive'
    BY <1>1, <1>2 DEF IInv, SlotsAlive
  <1>12. ClosingIsDriven'
    BY <1>1, <1>2 DEF IInv, Close, ClosingIsDriven
  <1> QED
    BY <1>3, <1>4, <1>5, <1>6, <1>7, <1>8, <1>9, <1>10, <1>11, <1>12 DEF IInv

LEMMA RegisterAcceptKeepsInv ==
    ASSUME IInv, NEW w \in Workers, NEW r \in Sessions, RegisterAccept(w, r)
    PROVE  IInv'
  <1>1. /\ pc[w] = "registerAccept" /\ sess[w] \in Sessions /\ acc[w] \in AcceptEvents
        /\ UNCHANGED <<recv, disc, inService, sessionCount, inManager>>
        /\ known' = known \ {r} /\ peerClosed' = peerClosed \ {r}
        /\ recvFailed' = recvFailed \ {r} /\ discFailed' = discFailed \ {r}
    BY Who DEF RegisterAccept, At, tables
  <1>2. /\ r \notin inService /\ r \notin inManager /\ recv[r] = "none" /\ disc[r] = "none"
        /\ \A v \in Workers : sess[v] # r
        /\ \A a \in AcceptEvents : slot[a] # r
    BY DEF RegisterAccept, Referenced
  <1>3. /\ connected' \in [Sessions -> BOOLEAN] /\ ~connected'[r]
        /\ \A s \in Sessions \ {r} : connected'[s] = connected[s]
    BY <1>1 DEF RegisterAccept, IInv, Types, TypeOK
  <1>4. /\ slot' \in [AcceptEvents -> Sessions] /\ slot'[acc[w]] = r
        /\ \A b \in AcceptEvents \ {acc[w]} : slot'[b] = slot[b]
    BY <1>1 DEF RegisterAccept, IInv, Types, TypeOK
  <1>5. \/ /\ accept' = accept /\ pc' = pc /\ sess' = sess /\ acc' = acc
        \/ /\ accept' \in [AcceptEvents -> {"posted", "completed", "worker"}]
           /\ accept'[acc[w]] = "posted"
           /\ \A b \in AcceptEvents \ {acc[w]} : accept'[b] = accept[b]
           /\ Fields(w, "idle", None, None)
    BY <1>1, Moves DEF RegisterAccept, IInv, Types, TypeOK, PCs, places
  <1>6. Types'
    BY <1>1, <1>2, <1>3, <1>4, <1>5 DEF IInv, Fields, Returned, Types, TypeOK
  <1>7. Shape'
    BY <1>1, <1>2, <1>3, <1>4, <1>5 DEF IInv, Fields, Returned, Shape, Setup
  <1>8. FreshSlots'
    BY <1>1, <1>2, <1>3, <1>4, <1>5, NoneAssumption DEF IInv, Fields, Returned, FreshSlots
  <1>9. Young'
    BY <1>1, <1>2, <1>3, <1>4, <1>5 DEF IInv, Fields, Returned, Types, TypeOK, Shape, Young,
          Setup
  <1>10. Closing'
    BY <1>1, <1>2, <1>3, <1>4, <1>5 DEF IInv, Fields, Returned, Types, TypeOK, Closing, Close
  <1>11. Tables'
    BY <1>1, <1>2, <1>3, <1>4, <1>5 DEF IInv, Fields, Returned, Tables
  <1>12. NoDeafSession'
    BY <1>1, <1>2, <1>3, <1>4, <1>5 DEF IInv, Fields, Returned, NoDeafSession
  <1>13. OneReceiver'
    <2>1. ASSUME NEW v \in Workers, NEW s \in Sessions, InRecv(v, s)'
          PROVE  InRecv(v, s)
      BY <1>1, <1>5, <2>1 DEF Fields, InRecv
    <2>2. recv' = recv
      BY <1>1
    <2> QED
      BY <2>1, <2>2 DEF IInv, OneReceiver
  <1>14. SlotsAlive'
    BY <1>1, <1>2, <1>3, <1>4, <1>5, NoneAssumption DEF IInv, Fields, Returned, SlotsAlive
  <1>15. ClosingIsDriven'
    BY <1>1, <1>2, <1>3, <1>4, <1>5 DEF IInv, Fields, Returned, Close, ClosingIsDriven
  <1> QED
    BY <1>6, <1>7, <1>8, <1>9, <1>10, <1>11, <1>12, <1>13, <1>14, <1>15 DEF IInv

LEMMA AcceptCompletesKeepsInv ==
    ASSUME IInv, NEW a \in AcceptEvents, AcceptCompletes(a)
    PROVE  IInv'
  <1>1. /\ UNCHANGED <<connected, known, recv, disc, peerClosed, recvFailed, discFailed>>
        /\ UNCHANGED <<inService, sessionCount, inManager, slot, pc, sess, acc>>
    BY DEF AcceptCompletes, sessionVars, tables, slots, places
  <1>2. /\ accept' \in [AcceptEvents -> {"posted", "completed", "worker"}]
        /\ accept[a] # "worker" /\ accept'[a] # "worker"
        /\ \A b \in AcceptEvents \ {a} : accept'[b] = accept[b]
    BY <1>1 DEF AcceptCompletes, IInv, Types, TypeOK
  <1>3. Types'
    BY <1>1, <1>2 DEF IInv, Types, TypeOK
  <1>4. Shape'
    BY <1>1, <1>2 DEF IInv, Shape, Setup
  <1>5. FreshSlots'
    BY <1>1, <1>2 DEF IInv, FreshSlots
  <1>6. Young'
    BY <1>1, <1>2 DEF IInv, Young, Setup
  <1>7. Closing'
    BY <1>1, <1>2 DEF IInv, Closing, Close
  <1>8. Tables'
    BY <1>1, <1>2 DEF IInv, Tables
  <1>9. NoDeafSession'
    BY <1>1, <1>2 DEF IInv, NoDeafSession
  <1>10. OneReceiver'
    BY <1>1, <1>2 DEF IInv, OneReceiver, InRecv
  <1>11. SlotsAlive'
    BY <1>1, <1>2 DEF IInv, SlotsAlive
  <1>12. ClosingIsDriven'
    BY <1>1, <1>2 DEF IInv, Close, ClosingIsDriven
  <1> QED
    BY <1>3, <1>4, <1>5, <1>6, <1>7, <1>8, <1>9, <1>10, <1>11, <1>12 DEF IInv

LEMMA PeerClosesKeepsInv ==
    ASSUME IInv, NEW r \in Sessions, PeerCloses(r)
    PROVE  IInv'
  <1>1. /\ UNCHANGED <<connected, known, recv, disc, recvFailed, discFailed>>
        /\ UNCHANGED <<inService, sessionCount, inManager, slot, accept, pc, sess, acc>>
    BY DEF PeerCloses, sessionVars, tables, slots, places
  <1>2. peerClosed' \subseteq Sessions
    BY DEF PeerCloses, IInv, Types, TypeOK
  <1>3. Types'
    BY <1>1, <1>2 DEF IInv, Types, TypeOK
  <1>4. Shape'
    BY <1>1, <1>2 DEF IInv, Shape, Setup
  <1>5. FreshSlots'
    BY <1>1, <1>2 DEF IInv, FreshSlots
  <1>6. Young'
    BY <1>1, <1>2 DEF IInv, Young, Setup
  <1>7. Closing'
    BY <1>1, <1>2 DEF IInv, Closing, Close
  <1>8. Tables'
    BY <1>1, <1>2 DEF IInv, Tables
  <1>9. NoDeafSession'
    BY <1>1, <1>2 DEF IInv, NoDeafSession
  <1>10. OneReceiver'
    BY <1>1, <1>2 DEF IInv, OneReceiver, InRecv
  <1>11. SlotsAlive'
    BY <1>1, <1>2 DEF IInv, SlotsAlive
  <1>12. ClosingIsDriven'
    BY <1>1, <1>2 DEF IInv, Close, ClosingIsDriven
  <1> QED
    BY <1>3, <1>4, <1>5, <1>6, <1>7, <1>8, <1>9, <1>10, <1>11, <1>12 DEF IInv

LEMMA RecvDataKeepsInv ==
    ASSUME IInv, NEW r \in Sessions, RecvData(r)
    PROVE  IInv'
  <1>1. /\ UNCHANGED <<connected, known, disc, peerClosed, recvFailed, discFailed>>
        /\ UNCHANGED <<inService, sessionCount, inManager, slot, accept, pc, sess, acc>>
    BY DEF RecvData, sessionVars, tables, slots, places
  <1>2. /\ recv' \in [Sessions -> EventStates] /\ recv[r] # "none" /\ recv'[r] # "none"
        /\ \A s \in Sessions \ {r} : recv'[s] = recv[s]
    BY DEF RecvData, IInv, Types, TypeOK, EventStates
  <1>3. Types'
    BY <1>1, <1>2 DEF IInv, Types, TypeOK
  <1>4. Shape'
    BY <1>1, <1>2 DEF IInv, Shape, Setup
  <1>5. FreshSlots'
    BY <1>1, <1>2 DEF IInv, Types, TypeOK, FreshSlots
  <1>6. Young'
    BY <1>1, <1>2 DEF IInv, Types, TypeOK, Shape, Young, Setup
  <1>7. Closing'
    BY <1>1, <1>2 DEF IInv, Closing, Close
  <1>8. Tables'
    BY <1>1, <1>2 DEF IInv, Tables
  <1>9. NoDeafSession'
    BY <1>1, <1>2 DEF IInv, NoDeafSession
  <1>10. OneReceiver'
    BY <1>1, <1>2 DEF IInv, OneReceiver, InRecv
  <1>11. SlotsAlive'
    BY <1>1, <1>2 DEF IInv, SlotsAlive
  <1>12. ClosingIsDriven'
    BY <1>1, <1>2 DEF IInv, Close, ClosingIsDriven
  <1> QED
    BY <1>3, <1>4, <1>5, <1>6, <1>7, <1>8, <1>9, <1>10, <1>11, <1>12 DEF IInv

LEMMA RecvZeroKeepsInv ==
    ASSUME IInv, NEW r \in Sessions, RecvZero(r)
    PROVE  IInv'
  <1>1. /\ UNCHANGED <<connected, known, disc, peerClosed, recvFailed, discFailed>>
        /\ UNCHANGED <<inService, sessionCount, inManager, slot, accept, pc, sess, acc>>
    BY DEF RecvZero, sessionVars, tables, slots, places
  <1>2. /\ recv' \in [Sessions -> EventStates] /\ recv[r] # "none" /\ recv'[r] # "none"
        /\ \A s \in Sessions \ {r} : recv'[s] = recv[s]
    BY DEF RecvZero, IInv, Types, TypeOK, EventStates
  <1>3. Types'
    BY <1>1, <1>2 DEF IInv, Types, TypeOK
  <1>4. Shape'
    BY <1>1, <1>2 DEF IInv, Shape, Setup
  <1>5. FreshSlots'
    BY <1>1, <1>2 DEF IInv, Types, TypeOK, FreshSlots
  <1>6. Young'
    BY <1>1, <1>2 DEF IInv, Types, TypeOK, Shape, Young, Setup
  <1>7. Closing'
    BY <1>1, <1>2 DEF IInv, Closing, Close
  <1>8. Tables'
    BY <1>1, <1>2 DEF IInv, Tables
  <1>9. NoDeafSession'
    BY <1>1, <1>2 DEF IInv, NoDeafSession
  <1>10. OneReceiver'
    BY <1>1, <1>2 DEF IInv, OneReceiver, InRecv
  <1>11. SlotsAlive'
    BY <1>1, <1>2 DEF IInv, SlotsAlive
  <1>12. ClosingIsDriven'
    BY <1>1, <1>2 DEF IInv, Close, ClosingIsDriven
  <1> QED
    BY <1>3, <1>4, <1>5, <1>6, <1>7, <1>8, <1>9, <1>10, <1>11, <1>12 DEF IInv

LEMMA DisconnectCompletesKeepsInv ==
    ASSUME IInv, NEW r \in Sessions, DisconnectCompletes(r)
    PROVE  IInv'
  <1>1. /\ UNCHANGED <<connected, known, recv, peerClosed, recvFailed, discFailed>>
        /\ UNCHANGED <<inService, sessionCount, inManager, slot, accept, pc, sess, acc>>
    BY DEF DisconnectCompletes, sessionVars, tables, slots, places
  <1>2. /\ disc' \in [Sessions -> EventStates \ {"data"}] /\ disc[r] # "none" /\ disc'[r] # "none"
        /\ \A s \in Sessions \ {r} : disc'[s] = disc[s]
    BY DEF DisconnectCompletes, IInv, Types, TypeOK, EventStates
  <1>3. Types'
    BY <1>1, <1>2 DEF IInv, Types, TypeOK
  <1>4. Shape'
    BY <1>1, <1>2 DEF IInv, Shape, Setup
  <1>5. FreshSlots'
    BY <1>1, <1>2 DEF IInv, Types, TypeOK, FreshSlots
  <1>6. Young'
    BY <1>1, <1>2 DEF IInv, Types, TypeOK, Shape, Young, Setup
  <1>7. Closing'
    BY <1>1, <1>2 DEF IInv, Types, TypeOK, Closing, Close
  <1>8. Tables'
    BY <1>1, <1>2 DEF IInv, Tables
  <1>9. NoDeafSession'
    BY <1>1, <1>2 DEF IInv, NoDeafSession
  <1>10. OneReceiver'
    BY <1>1, <1>2 DEF IInv, OneReceiver, InRecv
  <1>11. SlotsAlive'
    BY <1>1, <1>2 DEF IInv, SlotsAlive
  <1>12. ClosingIsDriven'
    BY <1>1, <1>2 DEF IInv, Close, ClosingIsDriven
  <1> QED
    BY <1>3, <1>4, <1>5, <1>6, <1>7, <1>8, <1>9, <1>10, <1>11, <1>12 DEF IInv

LEMMA StutterKeepsInv == IInv /\ UNCHANGED vars => IInv'
  <1> SUFFICES ASSUME IInv, UNCHANGED vars PROVE IInv'
    OBVIOUS
  <1>1. /\ UNCHANGED <<connected, known, recv, disc, peerClosed, recvFailed, discFailed>>
        /\ UNCHANGED <<inService, sessionCount, inManager, slot, accept, pc, sess, acc>>
    BY DEF vars, sessionVars, tables, slots, places
  <1>2. Types' /\ Shape'
    BY <1>1 DEF IInv, Types, TypeOK, Shape
  <1>3. FreshSlots' /\ Young' /\ Closing'
    BY <1>1 DEF IInv, FreshSlots, Young, Closing
  <1>4. Tables' /\ NoDeafSession'
    BY <1>1 DEF IInv, Tables, NoDeafSession
  <1>5. OneReceiver' /\ SlotsAlive' /\ ClosingIsDriven'
    BY <1>1 DEF IInv, OneReceiver, InRecv, SlotsAlive, ClosingIsDriven
  <1> QED
    BY <1>2, <1>3, <1>4, <1>5 DEF IInv

LEMMA NextInv == IInv /\ [Next]_vars => IInv'
  <1> SUFFICES ASSUME IInv, [Next]_vars PROVE IInv'
    OBVIOUS
  <1>1. ASSUME NEW w \in Workers, Go(w)
        PROVE  IInv'
    <2>1. ASSUME NEW s \in Sessions, RegisterAccept(w, s)
          PROVE  IInv'
      BY <2>1, RegisterAcceptKeepsInv
    <2> QED
      BY <1>1, <2>1, AcceptKeepsInv, ConnectKeepsInv, AddKeepsInv, OnConnectedKeepsInv,
         RegisterRecvKeepsInv, WsaRecvKeepsInv, ProcessRecvKeepsInv, DisconnectKeepsInv,
         RegisterDisconnectKeepsInv, OnDisconnectedKeepsInv, ReleaseKeepsInv DEF Go
  <1>2. ASSUME NEW w \in Workers, NEW a \in AcceptEvents, TakeAccept(w, a)
        PROVE  IInv'
    BY <1>2, TakeAcceptKeepsInv
  <1>3. ASSUME NEW w \in Workers, NEW s \in Sessions,
               TakeRecv(w, s) \/ TakeDisconnect(w, s) \/ SendEnds(w, s)
        PROVE  IInv'
    BY <1>3, TakeRecvKeepsInv, TakeDisconnectKeepsInv, SendEndsKeepsInv
  <1>4. ASSUME NEW a \in AcceptEvents, AcceptCompletes(a)
        PROVE  IInv'
    BY <1>4, AcceptCompletesKeepsInv
  <1>5. ASSUME NEW s \in Sessions,
               PeerCloses(s) \/ RecvData(s) \/ RecvZero(s) \/ DisconnectCompletes(s)
        PROVE  IInv'
    BY <1>5, PeerClosesKeepsInv, RecvDataKeepsInv, RecvZeroKeepsInv, DisconnectCompletesKeepsInv
  <1>6. CASE UNCHANGED vars
    BY <1>6, StutterKeepsInv
  <1> QED
    BY <1>1, <1>2, <1>3, <1>4, <1>5, <1>6 DEF Next

THEOREM InvHolds == Spec => []IInv
  BY InitInv, NextInv, PTL DEF Spec

-----------------------------------------------------------------------------
(* Theorems *)

\* The types, and that _sessionCount is the size of _sessions (Service).
THEOREM TypeCorrect == Spec => []TypeOK
  <1>1. IInv => TypeOK
    BY DEF IInv, Types
  <1> QED
    BY <1>1, InvHolds, PTL

\* The assertion of Service::ReleaseSession never fires, and whoever is in
\* GSessionManager is in the service, in whatever order completions come.
THEOREM TablesStayInStep == Spec => []TablesInStep
  <1>1. IInv => TablesInStep
    <2> SUFFICES ASSUME IInv PROVE ReleaseFinds /\ ManagerInService
      BY DEF TablesInStep
    <2>1. ReleaseFinds
      BY DEF IInv, Closing, Close, ReleaseFinds, At
    <2>2. ManagerInService
      BY DEF IInv, Tables, ManagerInService
    <2> QED
      BY <2>1, <2>2
  <1> QED
    BY <1>1, InvHolds, PTL

\* _recvBuffer needs no lock: one worker at a time is in a session's receive
\* chain, and no receive is posted meanwhile (RegisterRecv, ProcessRecv).
THEOREM OneReceiverAtATime == Spec => []OneReceiver
  <1>1. IInv => OneReceiver
    BY DEF IInv
  <1> QED
    BY <1>1, InvHolds, PTL

\* No accept event is lost by an early return of ProcessAccept or a failed
\* AcceptEx (Listener::ProcessAccept, RegisterAccept).
THEOREM SlotsStayAlive == Spec => []SlotsAlive
  <1>1. IInv => SlotsAlive
    BY DEF IInv
  <1> QED
    BY <1>1, InvHolds, PTL

\* A connected session of the service is read from, or a worker is about to
\* do so or to end it, unless Session::HandleError ignored an error of WSARecv.
THEOREM NobodyDeaf == Spec => []NoDeafSession
  <1>1. IInv => NoDeafSession
    BY DEF IInv
  <1> QED
    BY <1>1, InvHolds, PTL

\* A session that Disconnect closed has its DisconnectEx pending or a worker
\* that takes it out of the tables, unless DisconnectEx itself failed.
THEOREM ClosedLeave == Spec => []ClosingIsDriven
  <1>1. IInv => ClosingIsDriven
    BY DEF IInv
  <1> QED
    BY <1>1, InvHolds, PTL
=============================================================================
