----------------------------- MODULE RoomProofs -----------------------------
(***************************************************************************)
(* Theorems about Room, for any rooms, sessions and players, with or       *)
(* without overlap: TypeOK, PlacesAgree and EveryPlayerPlaced; and, unless *)
(* players come back to rooms they left, CalmViewsMatch and                *)
(* RelaysReachActors.                                                      *)
(*                                                                         *)
(* No lock protects Object::room and the rooms' maps together, and direct  *)
(* calls run beside jobs.  What protects a player is that at any time at   *)
(* most one operation is going to move it: its entry as a queued job, as   *)
(* a running one, or as the second half of a change of room (OneEntry),    *)
(* during which it is in no room (Where); and a leaving by the handler of  *)
(* its own session, which handles one packet at a time.                    *)
(*                                                                         *)
(* What a client sees is, while an operation is inside of its room, behind *)
(* the room by what that operation has still to tell it: Sees says by how  *)
(* much at each place of the operation.                                    *)
(***************************************************************************)
EXTENDS Room, TLAPS, SequenceTheorems, FiniteSetTheorems

\* The actor is going to put the player into a room.
Entering(a, p) ==
    /\ op[a].who = p
    /\ \/ op[a].place = "addObject"
       \/ op[a].place # "removeObject" /\ op[a].next # None

Leaving(a, p) == op[a].who = p /\ op[a].place = "removeObject"

Queued(r, i, p) == i \in 1 .. Len(jobs[r]) /\ jobs[r][i] = EnterOp(p, r)

Types ==
    /\ objects \in [Rooms -> SUBSET Players]
    /\ room \in [Players -> Rooms \cup {None}]
    /\ session \in [Players -> Sessions \cup {None}]
    /\ player \in [Sessions -> Players \cup {None}]
    /\ jobs \in [Rooms -> Seq(Op)]
    /\ executor \in [Rooms -> Sessions \cup {Pool, None}]
    /\ op \in [Actors -> Op]
    /\ left \subseteq Players

\* Only what is posted is queued, and a queue without executor is at rest.
Jobs == \A r \in Rooms :
            /\ \A i \in 1 .. Len(jobs[r]) : \E p \in Players :
                  jobs[r][i] = EnterOp(p, r) \/ jobs[r][i] = RelayOp(p, r)
            /\ executor[r] = None => op[r].place = "idle" /\ jobs[r] = << >>

\* What an actor's place says of its operation; only the handler of its own
\* session takes a player out of a room.
Shape ==
    /\ \A a \in Actors :
          /\ op[a].place # "idle" => op[a].who \in Players /\ op[a].in \in Rooms
          /\ op[a].place \notin LeavePlaces => op[a].next = None
          /\ op[a].place \in LeavePlaces =>
                /\ a \in Sessions /\ session[op[a].who] = a
                /\ op[a].next = None => op[a].who \in left
    /\ \A s \in Sessions : player[s] # None => session[player[s]] = s

Where == \A p \in Players :
    /\ \A a \in Actors : Entering(a, p) => room[p] = None
    /\ \A a \in Actors : Leaving(a, p) => room[p] = op[a].in
    /\ \A r \in Rooms, i \in Nat : Queued(r, i, p) => room[p] = None
    /\ session[p] = None =>
          /\ room[p] = None
          /\ \A a \in Actors : ~Entering(a, p) /\ ~Leaving(a, p)
          /\ \A r \in Rooms, i \in Nat : ~Queued(r, i, p)

OneEntry == \A p \in Players :
    /\ \A a, b \in Actors : Entering(a, p) /\ Entering(b, p) => a = b
    /\ \A a \in Actors, r \in Rooms, i \in Nat : ~(Entering(a, p) /\ Queued(r, i, p))
    /\ \A q, r \in Rooms, i, j \in Nat : Queued(q, i, p) /\ Queued(r, j, p) => q = r /\ i = j

Placed == \A p \in Players : session[p] # None /\ p \notin left =>
    \/ room[p] # None
    \/ \E a \in Actors : Entering(a, p)
    \/ \E r \in Rooms, i \in Nat : Queued(r, i, p)

Greeted == greeted \subseteq Players

Rest ==
    /\ view \in [Sessions -> Client!View]
    /\ visited \in [Players -> SUBSET Rooms]
    /\ calm \in BOOLEAN /\ astray \in BOOLEAN

Core == Types /\ Jobs /\ Shape /\ Where /\ OneEntry /\ Placed /\ RoomAgrees

-----------------------------------------------------------------------------
(* Operations *)

LEMMA OpFields ==
    ASSUME NEW p \in Players, NEW r \in Rooms, NEW n \in Rooms \cup {None}
    PROVE  /\ EnterOp(p, r) \in Op /\ LeaveOp(p, r, n) \in Op /\ RelayOp(p, r) \in Op
           /\ EnterOp(p, r).place = "addObject" /\ LeaveOp(p, r, n).place = "removeObject"
           /\ RelayOp(p, r).place = "find"
           /\ EnterOp(p, r).who = p /\ LeaveOp(p, r, n).who = p /\ RelayOp(p, r).who = p
           /\ EnterOp(p, r).in = r /\ LeaveOp(p, r, n).in = r /\ RelayOp(p, r).in = r
           /\ EnterOp(p, r).next = None /\ RelayOp(p, r).next = None
           /\ LeaveOp(p, r, n).next = n
  BY DEF EnterOp, LeaveOp, RelayOp, Idle, Op, Places, EnterPlaces, LeavePlaces

LEMMA IdleFields ==
    Idle \in Op /\ Idle.place = "idle" /\ Idle.who = None /\ Idle.next = None
  BY DEF Idle, Op, Places, EnterPlaces, LeavePlaces

LEMMA InitCore == Init => Core
  <1> SUFFICES ASSUME Init PROVE Core
    OBVIOUS
  <1>1. \A a \in Actors : op[a].place = "idle" /\ op[a].who = None /\ op[a].next = None
    BY IdleFields DEF Init
  <1>2. \A r \in Rooms : jobs[r] = << >> /\ Len(jobs[r]) = 0
    BY DEF Init
  <1>3. Types
    BY IdleFields DEF Init, Types
  <1>4. Jobs
    BY <1>1, <1>2 DEF Jobs, Actors
  <1>5. Shape
    BY <1>1 DEF Init, Shape, LeavePlaces
  <1>6. \A p \in Players, a \in Actors : ~Entering(a, p) /\ ~Leaving(a, p)
    BY <1>1 DEF Entering, Leaving
  <1>7. \A p \in Players, r \in Rooms, i \in Nat : ~Queued(r, i, p)
    BY <1>2 DEF Queued
  <1>8. Where /\ OneEntry /\ Placed
    BY <1>6, <1>7 DEF Init, Where, OneEntry, Placed
  <1>9. RoomAgrees
    BY HomeAssumption DEF Init, RoomAgrees
  <1> QED
    BY <1>3, <1>4, <1>5, <1>8, <1>9 DEF Core

-----------------------------------------------------------------------------
(* A step of an operation that moves nobody *)

\* Of what is a step of actor a that turns its operation into o.
Becomes(a, o) ==
    /\ op' = [op EXCEPT ![a] = o]
    /\ UNCHANGED <<objects, room, session, player, jobs, executor>>

\* The operation o may be that of actor a.
Allowed(a, o) ==
    /\ o \in Op
    /\ a \in Rooms /\ executor[a] = None => o.place = "idle"
    /\ o.place # "idle" => o.who \in Players /\ o.in \in Rooms
    /\ o.place \notin LeavePlaces => o.next = None
    /\ o.place \in LeavePlaces =>
          /\ a \in Sessions /\ session[o.who] = a
          /\ o.next = None => o.who \in left'

\* It is going to put somebody into a room if the old one was; if it is going
\* to take somebody out, then from where it is.
Keeps(a, o) == \A p \in Players :
    /\ (o.who = p /\ (o.place = "addObject" \/ (o.place # "removeObject" /\ o.next # None)))
          <=> Entering(a, p)
    /\ o.who = p /\ o.place = "removeObject" => room[p] = o.in /\ session[p] # None

LEMMA StepOfOperation ==
    ASSUME Core, NEW a \in Actors, NEW o, Becomes(a, o), Allowed(a, o), Keeps(a, o),
           left \subseteq left', left' \subseteq Players
    PROVE  Core'
  <1>1. op[a] \in Op /\ op'[a] = o /\ \A b \in Actors \ {a} : op'[b] = op[b]
    BY DEF Core, Types, Becomes
  <1>2. \A b \in Actors, p \in Players : Entering(b, p)' <=> Entering(b, p)
    <2> SUFFICES ASSUME NEW b \in Actors, NEW p \in Players
                 PROVE  Entering(b, p)' <=> Entering(b, p)
      OBVIOUS
    <2>1. CASE b = a
      BY <2>1, <1>1 DEF Keeps, Entering
    <2>2. CASE b # a
      BY <2>2, <1>1 DEF Entering
    <2> QED
      BY <2>1, <2>2
  <1>3. \A b \in Actors, p \in Players :
           Leaving(b, p)' => room[p] = op'[b].in /\ session[p] # None
    <2> SUFFICES ASSUME NEW b \in Actors, NEW p \in Players, Leaving(b, p)'
                 PROVE  room[p] = op'[b].in /\ session[p] # None
      OBVIOUS
    <2>1. CASE b = a
      BY <2>1, <1>1 DEF Keeps, Leaving
    <2>2. CASE b # a
      BY <2>2, <1>1 DEF Leaving, Core, Where
    <2> QED
      BY <2>1, <2>2
  <1>4. \A r \in Rooms, i \in Nat, p \in Players : Queued(r, i, p)' <=> Queued(r, i, p)
    BY DEF Becomes, Queued
  <1>5. Types'
    BY DEF Core, Types, Becomes, Allowed
  <1>6. Jobs'
    <2> SUFFICES ASSUME NEW r \in Rooms, executor[r] = None
                 PROVE  op'[r].place = "idle"
      BY DEF Core, Jobs, Becomes
    <2>1. r \in Actors
      BY DEF Actors
    <2> QED
      BY <1>1, <2>1 DEF Core, Jobs, Allowed
  <1>7. Shape'
    <2>1. session' = session /\ player' = player
      BY DEF Becomes
    <2>2. ASSUME NEW b \in Actors
          PROVE  /\ op'[b].place # "idle" => op'[b].who \in Players /\ op'[b].in \in Rooms
                 /\ op'[b].place \notin LeavePlaces => op'[b].next = None
                 /\ op'[b].place \in LeavePlaces =>
                      /\ b \in Sessions /\ session[op'[b].who] = b
                      /\ op'[b].next = None => op'[b].who \in left'
      <3>1. CASE b = a
        BY <3>1, <1>1 DEF Allowed
      <3>2. CASE b # a
        BY <3>2, <1>1 DEF Core, Shape
      <3> QED
        BY <3>1, <3>2
    <2> QED
      BY <2>1, <2>2 DEF Shape, Core
  <1>8. Where'
    BY <1>2, <1>3, <1>4 DEF Becomes, Core, Where
  <1>9. OneEntry'
    BY <1>2, <1>4 DEF Becomes, Core, OneEntry
  <1>10. Placed'
    BY <1>2, <1>4 DEF Becomes, Core, Placed
  <1>11. RoomAgrees'
    BY DEF Becomes, Core, RoomAgrees
  <1> QED
    BY <1>5, <1>6, <1>7, <1>8, <1>9, <1>10, <1>11 DEF Core

\* On with the operation, at a place of the same kind.
LEMMA MovesOn ==
    ASSUME Core, NEW a \in Actors, NEW q \in Places \ {"idle", "addObject", "removeObject"},
           Goto(a, q), UNCHANGED <<objects, room, session, player, jobs, executor, left>>,
           op[a].place \in EnterPlaces \cup LeavePlaces \cup {"find"},
           ~Entering(a, op[a].who) \/ op[a].place \in LeavePlaces,
           ~Leaving(a, op[a].who),
           q \in LeavePlaces <=> op[a].place \in LeavePlaces
    PROVE  Core'
  <1> DEFINE o == [op[a] EXCEPT !.place = q]
  <1>1. op[a] \in Op /\ op[a].place # "idle"
    BY DEF Core, Types, EnterPlaces, LeavePlaces
  <1>2. /\ o \in Op /\ o.place = q /\ o.who = op[a].who /\ o.in = op[a].in
        /\ o.next = op[a].next
    BY <1>1 DEF Op
  <1>3. op' = [op EXCEPT ![a] = o]
    BY <1>1 DEF Goto, Core, Types
  <1> HIDE DEF o
  <1>4. Becomes(a, o)
    BY <1>3 DEF Becomes
  <1>5. ~(a \in Rooms /\ executor[a] = None)
    BY <1>1 DEF Core, Jobs
  <1>6. Allowed(a, o)
    BY <1>1, <1>2, <1>5 DEF Allowed, Core, Shape
  <1>7. op[a].place # "addObject" /\ op[a].place # "removeObject"
    BY DEF Entering, Leaving, LeavePlaces
  <1>8. Keeps(a, o)
    BY <1>2, <1>7 DEF Keeps, Entering
  <1> QED
    BY <1>4, <1>6, <1>8, StepOfOperation DEF Core, Types

\* The end of an operation that has nobody to put into a room.
LEMMA Ends ==
    ASSUME Core, NEW a \in Actors, op' = [op EXCEPT ![a] = Idle],
           UNCHANGED <<objects, room, session, player, jobs, executor, left>>,
           \A p \in Players : ~Entering(a, p)
    PROVE  Core'
  <1>1. Becomes(a, Idle)
    BY DEF Becomes
  <1>2. Allowed(a, Idle)
    BY IdleFields DEF Allowed, LeavePlaces
  <1>3. Keeps(a, Idle)
    BY IdleFields DEF Keeps
  <1> QED
    BY <1>1, <1>2, <1>3, StepOfOperation DEF Core, Types

LEMMA TellsAndFinds ==
    ASSUME Core, NEW a \in Actors,
           \/ TellEntered(a) \/ TellSpawn(a) \/ TellList(a)
           \/ TellLeft(a) \/ TellDespawn(a) \/ Find(a) \/ Broadcast(a)
    PROVE  Core'
  <1>1. op[a].place \notin LeavePlaces => op[a].next = None
    BY DEF Core, Shape
  <1>2. CASE TellEntered(a)
    BY <1>1, <1>2, MovesOn DEF TellEntered, At, Entering, Leaving, Places, EnterPlaces,
          LeavePlaces, people, queues, places
  <1>3. CASE TellSpawn(a)
    BY <1>1, <1>3, MovesOn DEF TellSpawn, At, Entering, Leaving, Places, EnterPlaces,
          LeavePlaces, people, queues, places, history
  <1>4. CASE TellList(a)
    BY <1>1, <1>4, Ends DEF TellList, At, Entering, LeavePlaces, people, queues, places, history
  <1>5. CASE TellLeft(a)
    BY <1>5, MovesOn DEF TellLeft, At, Leaving, Places, EnterPlaces, LeavePlaces, people,
          queues, places, history
  <1>6. CASE TellDespawn(a)
    BY <1>6, MovesOn DEF TellDespawn, At, Leaving, Places, EnterPlaces, LeavePlaces, people,
          queues, places, history
  <1>7. CASE Find(a)
    <2>1. CASE Goto(a, "broadcast")
      BY <1>1, <1>7, <2>1, MovesOn DEF Find, At, Entering, Leaving, Places, EnterPlaces,
            LeavePlaces, people, queues, places
    <2>2. CASE op' = [op EXCEPT ![a] = Idle]
      BY <1>1, <1>7, <2>2, Ends DEF Find, At, Entering, LeavePlaces, people, queues, places
    <2> QED
      BY <1>7, <2>1, <2>2 DEF Find
  <1>8. CASE Broadcast(a)
    BY <1>1, <1>8, Ends DEF Broadcast, At, Entering, LeavePlaces, people, queues, places
  <1> QED
    BY <1>2, <1>3, <1>4, <1>5, <1>6, <1>7, <1>8

LEMMA ListKeepsCore ==
    ASSUME Core, NEW a \in Actors, CollectList(a)
    PROVE  Core'
  <1> DEFINE o == [op[a] EXCEPT !.list = objects[op[a].in], !.place = "sendList"]
  <1>1. op[a] \in Op /\ op[a].place = "list" /\ op[a].who \in Players /\ op[a].in \in Rooms
    BY DEF CollectList, At, Core, Types, Shape
  <1>2. /\ o \in Op /\ o.place = "sendList" /\ o.who = op[a].who /\ o.in = op[a].in
        /\ o.next = op[a].next
    <2>1. objects[op[a].in] \in SUBSET Players
      BY <1>1 DEF Core, Types
    <2> QED
      BY <1>1, <2>1 DEF Op, Places, EnterPlaces
  <1>3. op' = [op EXCEPT ![a] = o]
    BY <1>1 DEF CollectList, Core, Types
  <1> HIDE DEF o
  <1>4. UNCHANGED <<objects, room, session, player, jobs, executor, left>>
    BY DEF CollectList, people, queues, places, history
  <1>5. op[a].next = None
    BY <1>1 DEF Core, Shape, LeavePlaces
  <1>6. Becomes(a, o)
    BY <1>3, <1>4 DEF Becomes
  <1>7. Allowed(a, o)
    BY <1>1, <1>2, <1>5 DEF Allowed, Core, Shape, Jobs, LeavePlaces
  <1>8. Keeps(a, o)
    BY <1>1, <1>2, <1>5 DEF Keeps, Entering
  <1> QED
    BY <1>4, <1>6, <1>7, <1>8, StepOfOperation DEF Core, Types

\* The second half of a change of room follows the first.
LEMMA LastTellKeepsCore ==
    ASSUME Core, NEW a \in Actors, TellDespawnSelf(a)
    PROVE  Core'
  <1> DEFINE p == op[a].who
             n == op[a].next
             o == EnterOp(p, n)
  <1>1. /\ op[a] \in Op /\ op[a].place = "despawnSelf" /\ p \in Players
        /\ n \in Rooms \cup {None} /\ a \in Sessions
    BY DEF TellDespawnSelf, At, Core, Types, Shape, LeavePlaces, Op
  <1>2. UNCHANGED <<objects, room, session, player, jobs, executor, left>>
    BY DEF TellDespawnSelf, people, queues, places, history
  <1>3. op' = [op EXCEPT ![a] = IF n = None THEN Idle ELSE o]
    BY <1>1 DEF TellDespawnSelf, Core, Types
  <1> HIDE DEF p, n, o
  <1>4. CASE n = None
    <2>1. \A q \in Players : ~Entering(a, q)
      BY <1>1, <1>4 DEF Entering, n
    <2> QED
      BY <1>2, <1>3, <1>4, <2>1, Ends
  <1>5. CASE n # None
    <2>1. /\ o \in Op /\ o.place = "addObject" /\ o.who = p /\ o.in = n
          /\ o.next = None /\ n \in Rooms
      BY <1>1, <1>5, OpFields DEF o
    <2>2. Becomes(a, o)
      BY <1>2, <1>3, <1>5 DEF Becomes
    <2>3. Allowed(a, o)
      BY <1>1, <2>1, ActorsAssumption DEF Allowed, LeavePlaces
    <2>4. Keeps(a, o)
      BY <1>1, <1>5, <2>1 DEF Keeps, Entering, p, n
    <2> QED
      BY <1>2, <2>2, <2>3, <2>4, StepOfOperation DEF Core, Types
  <1> QED
    BY <1>4, <1>5

\* A handler begins to take its own player, which is in a room, out of it.
LEMMA BeginsToLeave ==
    ASSUME Core, NEW s \in Sessions, NEW n \in Rooms \cup {None},
           At(s, "idle"), player[s] # None, room[player[s]] # None,
           op' = [op EXCEPT ![s] = LeaveOp(player[s], room[player[s]], n)],
           UNCHANGED <<objects, room, session, player, jobs, executor>>,
           left \subseteq left', left' \subseteq Players,
           n = None => player[s] \in left'
    PROVE  Core'
  <1> DEFINE p == player[s]
             o == LeaveOp(p, room[p], n)
  <1>1. /\ s \in Actors /\ p \in Players /\ room[p] \in Rooms /\ session[p] = s
        /\ s \notin Rooms /\ s # None
    BY ActorsAssumption DEF Core, Types, Shape, Actors
  <1>2. /\ o \in Op /\ o.place = "removeObject" /\ o.who = p /\ o.in = room[p]
        /\ o.next = n
    BY <1>1, OpFields
  <1>3. Becomes(s, o)
    BY DEF Becomes
  <1> HIDE DEF p, o
  <1>4. Allowed(s, o)
    <2>1. o.next = None => p \in left'
      BY <1>2 DEF p
    <2> QED
      BY <1>1, <1>2, <2>1 DEF Allowed, LeavePlaces
  <1>5. op[s].next = None
    BY <1>1 DEF At, Core, Shape, LeavePlaces
  <1>6. Keeps(s, o)
    BY <1>1, <1>2, <1>5 DEF Keeps, Entering, At
  <1> QED
    BY <1>1, <1>3, <1>4, <1>6, StepOfOperation

LEMMA LeavingKeepsCore ==
    ASSUME Core, Greeted, NEW s \in Sessions,
           LeaveGame(s) \/ \E r \in Rooms : ReqEnterRoom(s, r)
    PROVE  Core'
  <1>1. left \subseteq Players /\ player[s] \in Players \cup {None}
    BY DEF Core, Types
  <1>2. CASE LeaveGame(s)
    BY <1>1, <1>2, BeginsToLeave DEF LeaveGame, CanHandle, places, people, queues
  <1>3. CASE \E r \in Rooms : ReqEnterRoom(s, r)
    <2> PICK r \in Rooms : ReqEnterRoom(s, r)
      BY <1>3
    <2>1. player[s] # None
      BY HomeAssumption DEF ReqEnterRoom, InRoom, Greeted
    <2> QED
      BY <1>1, <2>1, HomeAssumption, BeginsToLeave DEF ReqEnterRoom, InRoom, CanHandle, places,
            people, queues, history
  <1> QED
    BY <1>2, <1>3

-----------------------------------------------------------------------------
(* Steps that move a player *)

LEMMA AddKeepsCore ==
    ASSUME Core, NEW a \in Actors, AddObject(a)
    PROVE  Core'
  <1> DEFINE p == op[a].who
             r == op[a].in
  <1>1. /\ op[a] \in Op /\ op[a].place = "addObject" /\ p \in Players /\ r \in Rooms
        /\ op[a].next = None
    BY DEF AddObject, At, Core, Types, Shape, LeavePlaces
  <1>2. Entering(a, p) /\ room[p] = None
    BY <1>1 DEF Entering, Core, Where
  <1>3. p \notin objects[r]
    BY <1>1, <1>2, HomeAssumption DEF Core, RoomAgrees
  <1>4. /\ objects' = [objects EXCEPT ![r] = @ \cup {p}]
        /\ room' = [room EXCEPT ![p] = r]
        /\ op' = [op EXCEPT ![a].place = "enterGame"]
        /\ UNCHANGED <<session, player, jobs, executor, left>>
    BY <1>3 DEF AddObject, Goto, people, queues
  <1> HIDE DEF p, r
  <1>5. /\ op'[a] \in Op /\ op'[a].place = "enterGame" /\ op'[a].who = p /\ op'[a].in = r
        /\ op'[a].next = None
        /\ \A b \in Actors \ {a} : op'[b] = op[b]
    BY <1>1, <1>4 DEF Core, Types, Op, Places, EnterPlaces, p, r
  <1>6. room'[p] = r /\ \A q \in Players \ {p} : room'[q] = room[q]
    BY <1>1, <1>4 DEF Core, Types
  <1>7. /\ \A q \in Players : ~Entering(a, q)' /\ ~Leaving(a, q)'
        /\ \A b \in Actors \ {a}, q \in Players :
              (Entering(b, q)' <=> Entering(b, q)) /\ (Leaving(b, q)' <=> Leaving(b, q))
    BY <1>5 DEF Entering, Leaving
  <1>8. \A x \in Rooms, i \in Nat, q \in Players : Queued(x, i, q)' <=> Queued(x, i, q)
    BY <1>4 DEF Queued
  <1>9. /\ \A b \in Actors \ {a} : ~Entering(b, p)
        /\ \A b \in Actors : ~Leaving(b, p)
        /\ \A x \in Rooms, i \in Nat : ~Queued(x, i, p)
        /\ session[p] # None
    <2>1. \A b \in Actors : ~Leaving(b, p)
      <3> SUFFICES ASSUME NEW b \in Actors, Leaving(b, p) PROVE FALSE
        OBVIOUS
      <3>1. room[p] = op[b].in /\ op[b].in \in Rooms
        BY <1>1 DEF Core, Where, Shape, Leaving
      <3> QED
        BY <1>2, <3>1, HomeAssumption
    <2> QED
      BY <1>1, <1>2, <2>1 DEF Core, OneEntry, Where
  <1>10. Types'
    <2>1. objects' \in [Rooms -> SUBSET Players] /\ room' \in [Players -> Rooms \cup {None}]
      BY <1>1, <1>4 DEF Core, Types
    <2>2. op' \in [Actors -> Op]
      BY <1>4, <1>5 DEF Core, Types
    <2> QED
      BY <1>4, <2>1, <2>2 DEF Core, Types
  <1>11. Jobs'
    <2>1. \A x \in Rooms : executor[x] = None => x # a
      BY <1>1 DEF Core, Jobs
    <2> QED
      BY <1>4, <1>5, <2>1 DEF Core, Jobs, Actors
  <1>12. Shape'
    <2>1. ASSUME NEW b \in Actors
          PROVE  /\ op'[b].place # "idle" => op'[b].who \in Players /\ op'[b].in \in Rooms
                 /\ op'[b].place \notin LeavePlaces => op'[b].next = None
                 /\ op'[b].place \in LeavePlaces =>
                      /\ b \in Sessions /\ session[op'[b].who] = b
                      /\ op'[b].next = None => op'[b].who \in left
      <3>1. CASE b = a
        BY <3>1, <1>1, <1>5 DEF LeavePlaces
      <3>2. CASE b # a
        BY <3>2, <1>5 DEF Core, Shape
      <3> QED
        BY <3>1, <3>2
    <2> QED
      BY <1>4, <2>1 DEF Core, Shape
  <1>13. Where'
    <2> SUFFICES ASSUME NEW q \in Players
                 PROVE  /\ \A b \in Actors : Entering(b, q)' => room'[q] = None
                        /\ \A b \in Actors : Leaving(b, q)' => room'[q] = op'[b].in
                        /\ \A x \in Rooms, i \in Nat : Queued(x, i, q)' => room'[q] = None
                        /\ session[q] = None =>
                              /\ room'[q] = None
                              /\ \A b \in Actors : ~Entering(b, q)' /\ ~Leaving(b, q)'
                              /\ \A x \in Rooms, i \in Nat : ~Queued(x, i, q)'
      BY <1>4 DEF Where
    <2>1. CASE q = p
      BY <2>1, <1>7, <1>8, <1>9
    <2>2. CASE q # p
      BY <2>2, <1>5, <1>6, <1>7, <1>8 DEF Core, Where
    <2> QED
      BY <2>1, <2>2
  <1>14. OneEntry'
    BY <1>7, <1>8 DEF Core, OneEntry
  <1>15. Placed'
    <2> SUFFICES ASSUME NEW q \in Players, session[q] # None, q \notin left
                 PROVE  \/ room'[q] # None
                        \/ \E b \in Actors : Entering(b, q)'
                        \/ \E x \in Rooms, i \in Nat : Queued(x, i, q)'
      BY <1>4 DEF Placed
    <2>1. CASE q = p
      BY <2>1, <1>1, <1>6, HomeAssumption DEF r
    <2>2. CASE q # p
      <3>1. ~Entering(a, q)
        BY <2>2 DEF Entering, p
      <3> QED
        BY <2>2, <3>1, <1>6, <1>7, <1>8 DEF Core, Placed
    <2> QED
      BY <2>1, <2>2
  <1>16. RoomAgrees'
    BY <1>1, <1>2, <1>4, HomeAssumption DEF Core, Types, RoomAgrees, p, r
  <1> QED
    BY <1>10, <1>11, <1>12, <1>13, <1>14, <1>15, <1>16 DEF Core

LEMMA RemoveKeepsCore ==
    ASSUME Core, NEW a \in Actors, RemoveObject(a)
    PROVE  Core'
  <1> DEFINE p == op[a].who
             r == op[a].in
             n == op[a].next
  <1>1. /\ op[a] \in Op /\ op[a].place = "removeObject" /\ p \in Players /\ r \in Rooms
        /\ a \in Sessions /\ a \notin Rooms /\ session[p] = a
        /\ n = None => p \in left
    BY ActorsAssumption DEF RemoveObject, At, Core, Types, Shape, LeavePlaces
  <1>2. Leaving(a, p) /\ room[p] = r
    BY <1>1 DEF Leaving, Core, Where
  <1>3. p \in objects[r]
    BY <1>1, <1>2 DEF Core, RoomAgrees
  <1>4. /\ objects' = [objects EXCEPT ![r] = @ \ {p}]
        /\ room' = [room EXCEPT ![p] = None]
        /\ op' = [op EXCEPT ![a].place = "leaveGame"]
        /\ UNCHANGED <<session, player, jobs, executor, left>>
    BY <1>3 DEF RemoveObject, Goto, people, queues
  <1> HIDE DEF p, r, n
  <1>5. /\ op'[a] \in Op /\ op'[a].place = "leaveGame" /\ op'[a].who = p /\ op'[a].in = r
        /\ op'[a].next = n
        /\ \A b \in Actors \ {a} : op'[b] = op[b]
    BY <1>1, <1>4 DEF Core, Types, Op, Places, LeavePlaces, p, r, n
  <1>6. room'[p] = None /\ \A q \in Players \ {p} : room'[q] = room[q]
    BY <1>1, <1>4 DEF Core, Types
  <1>7. /\ \A q \in Players : Entering(a, q)' <=> q = p /\ n # None
        /\ \A q \in Players : ~Leaving(a, q)' /\ ~Entering(a, q)
        /\ \A b \in Actors \ {a}, q \in Players :
              (Entering(b, q)' <=> Entering(b, q)) /\ (Leaving(b, q)' <=> Leaving(b, q))
    BY <1>1, <1>5 DEF Entering, Leaving
  <1>8. \A x \in Rooms, i \in Nat, q \in Players : Queued(x, i, q)' <=> Queued(x, i, q)
    BY <1>4 DEF Queued
  <1>9. /\ \A b \in Actors : ~Entering(b, p)
        /\ \A b \in Actors \ {a} : ~Leaving(b, p)
        /\ \A x \in Rooms, i \in Nat : ~Queued(x, i, p)
        /\ session[p] # None
    <2>1. \A b \in Actors : Leaving(b, p) => b = a
      BY <1>1 DEF Core, Shape, Leaving, LeavePlaces
    <2> QED
      BY <1>1, <1>2, <2>1, HomeAssumption, ActorsAssumption DEF Core, Where
  <1>10. Types'
    <2>1. objects' \in [Rooms -> SUBSET Players] /\ room' \in [Players -> Rooms \cup {None}]
      BY <1>1, <1>4 DEF Core, Types
    <2>2. op' \in [Actors -> Op]
      BY <1>4, <1>5 DEF Core, Types
    <2> QED
      BY <1>4, <2>1, <2>2 DEF Core, Types
  <1>11. Jobs'
    BY <1>1, <1>4, <1>5 DEF Core, Jobs, Actors
  <1>12. Shape'
    <2>1. ASSUME NEW b \in Actors
          PROVE  /\ op'[b].place # "idle" => op'[b].who \in Players /\ op'[b].in \in Rooms
                 /\ op'[b].place \notin LeavePlaces => op'[b].next = None
                 /\ op'[b].place \in LeavePlaces =>
                      /\ b \in Sessions /\ session[op'[b].who] = b
                      /\ op'[b].next = None => op'[b].who \in left
      <3>1. CASE b = a
        BY <3>1, <1>1, <1>5 DEF LeavePlaces
      <3>2. CASE b # a
        BY <3>2, <1>5 DEF Core, Shape
      <3> QED
        BY <3>1, <3>2
    <2> QED
      BY <1>4, <2>1 DEF Core, Shape
  <1>13. Where'
    <2> SUFFICES ASSUME NEW q \in Players
                 PROVE  /\ \A b \in Actors : Entering(b, q)' => room'[q] = None
                        /\ \A b \in Actors : Leaving(b, q)' => room'[q] = op'[b].in
                        /\ \A x \in Rooms, i \in Nat : Queued(x, i, q)' => room'[q] = None
                        /\ session[q] = None =>
                              /\ room'[q] = None
                              /\ \A b \in Actors : ~Entering(b, q)' /\ ~Leaving(b, q)'
                              /\ \A x \in Rooms, i \in Nat : ~Queued(x, i, q)'
      BY <1>4 DEF Where
    <2>1. CASE q = p
      BY <2>1, <1>6, <1>7, <1>8, <1>9
    <2>2. CASE q # p
      BY <2>2, <1>5, <1>6, <1>7, <1>8 DEF Core, Where
    <2> QED
      BY <2>1, <2>2
  <1>14. OneEntry'
    <2>1. \A q \in Players, b, c \in Actors : Entering(b, q)' /\ Entering(c, q)' => b = c
      BY <1>7, <1>9 DEF Core, OneEntry
    <2>2. \A q \in Players, b \in Actors, x \in Rooms, i \in Nat :
             ~(Entering(b, q)' /\ Queued(x, i, q)')
      BY <1>7, <1>8, <1>9 DEF Core, OneEntry
    <2> QED
      BY <2>1, <2>2, <1>8 DEF Core, OneEntry
  <1>15. Placed'
    <2> SUFFICES ASSUME NEW q \in Players, session[q] # None, q \notin left
                 PROVE  \/ room'[q] # None
                        \/ \E b \in Actors : Entering(b, q)'
                        \/ \E x \in Rooms, i \in Nat : Queued(x, i, q)'
      BY <1>4 DEF Placed
    <2>1. CASE q = p
      BY <2>1, <1>1, <1>7
    <2>2. CASE q # p
      BY <2>2, <1>6, <1>7, <1>8 DEF Core, Placed
    <2> QED
      BY <2>1, <2>2
  <1>16. RoomAgrees'
    BY <1>1, <1>2, <1>4, HomeAssumption DEF Core, Types, RoomAgrees, p, r
  <1> QED
    BY <1>10, <1>11, <1>12, <1>13, <1>14, <1>15, <1>16 DEF Core

-----------------------------------------------------------------------------
(* Jobs of a room *)

LEMMA PostedAtRest ==
    ASSUME Core, NEW r \in Rooms, executor[r] = None
    PROVE  /\ r \in Actors /\ op[r].place = "idle" /\ op[r].next = None
           /\ \A p \in Players : ~Entering(r, p) /\ ~Leaving(r, p)
  BY DEF Core, Jobs, Shape, Entering, Leaving, Actors, LeavePlaces

\* What a post does to the operations and the queues, for any job.
LEMMA PostSteps ==
    ASSUME Core, NEW s \in Sessions, NEW r \in Rooms, NEW p \in Players, NEW job \in Op,
           job = EnterOp(p, r) \/ job = RelayOp(p, r), Post(s, r, job)
    PROVE  /\ jobs' \in [Rooms -> Seq(Op)] /\ op' \in [Actors -> Op]
           /\ executor' \in [Rooms -> Sessions \cup {Pool, None}]
           /\ \A b \in Actors : op'[b] = op[b] \/ (b = r /\ op'[b] = job /\ op[b].place = "idle")
           /\ \A x \in Rooms : executor'[x] = None => executor[x] = None /\ op'[x] = op[x]
           /\ \A x \in Rooms, i \in Nat : i \in 1 .. Len(jobs'[x]) =>
                 \/ i \in 1 .. Len(jobs[x]) /\ jobs'[x][i] = jobs[x][i]
                 \/ x = r /\ i = Len(jobs[r]) + 1 /\ jobs'[x][i] = job
           /\ \A x \in Rooms : jobs'[x] = jobs[x] \/ executor[x] # None
           /\ \A x \in Rooms, i \in Nat : i \in 1 .. Len(jobs[x]) =>
                 i \in 1 .. Len(jobs'[x]) /\ jobs'[x][i] = jobs[x][i]
           /\ \/ op'[r] = job /\ jobs' = jobs
              \/ /\ op' = op /\ Len(jobs'[r]) = Len(jobs[r]) + 1
                 /\ jobs'[r][Len(jobs'[r])] = job
  <1>1. r \in Actors /\ jobs[r] \in Seq(Op)
    BY DEF Core, Types, Actors
  <1>2. CASE /\ executor[r] = None /\ executor' = [executor EXCEPT ![r] = s]
             /\ op' = [op EXCEPT ![r] = job] /\ jobs' = jobs
    <2>1. op[r].place = "idle"
      BY <1>2, PostedAtRest
    <2>2. executor'[r] = s /\ s # None
      BY <1>2, ActorsAssumption DEF Core, Types
    <2> QED
      BY <1>1, <1>2, <2>1, <2>2 DEF Core, Types
  <1>3. CASE /\ executor[r] # None /\ jobs' = [jobs EXCEPT ![r] = Append(@, job)]
             /\ UNCHANGED <<executor, op>>
    <2>1. /\ jobs'[r] = Append(jobs[r], job) /\ \A x \in Rooms \ {r} : jobs'[x] = jobs[x]
          /\ jobs' \in [Rooms -> Seq(Op)]
      BY <1>1, <1>3 DEF Core, Types
    <2>2. /\ Len(jobs'[r]) = Len(jobs[r]) + 1 /\ jobs'[r][Len(jobs[r]) + 1] = job
          /\ \A i \in 1 .. Len(jobs[r]) : jobs'[r][i] = jobs[r][i]
      BY <1>1, <2>1
    <2>3. Len(jobs[r]) \in Nat
      BY <1>1
    <2> QED
      BY <1>3, <2>1, <2>2, <2>3 DEF Core, Types
  <1> QED
    BY <1>2, <1>3 DEF Post

LEMMA PostKeepsShape ==
    ASSUME Core, NEW s \in Sessions, NEW r \in Rooms, NEW p \in Players, NEW job \in Op,
           job = EnterOp(p, r) \/ job = RelayOp(p, r), Post(s, r, job)
    PROVE  /\ Jobs'
           /\ \A b \in Actors :
                 /\ op'[b].place # "idle" => op'[b].who \in Players /\ op'[b].in \in Rooms
                 /\ op'[b].place \notin LeavePlaces => op'[b].next = None
                 /\ op'[b].place \in LeavePlaces => op'[b] = op[b]
           /\ \A b \in Actors, q \in Players :
                 /\ Leaving(b, q)' <=> Leaving(b, q)
                 /\ Leaving(b, q) => op'[b] = op[b]
                 /\ Entering(b, q) => Entering(b, q)'
                 /\ Entering(b, q)' => Entering(b, q) \/ (b = r /\ op'[b] = job)
           /\ \A x \in Rooms, i \in Nat, q \in Players : Queued(x, i, q) => Queued(x, i, q)'
  <1>1. /\ job.place \in {"addObject", "find"} /\ job.who = p /\ job.in = r /\ job.next = None
    BY OpFields, HomeAssumption
  <1>2. \A b \in Actors : op'[b] = op[b] \/ (b = r /\ op'[b] = job /\ op[b].place = "idle")
    BY PostSteps
  <1>3. ASSUME NEW x \in Rooms
        PROVE  /\ \A i \in 1 .. Len(jobs'[x]) : \E q \in Players :
                     jobs'[x][i] = EnterOp(q, x) \/ jobs'[x][i] = RelayOp(q, x)
               /\ executor'[x] = None => op'[x].place = "idle" /\ jobs'[x] = << >>
    <2>1. ASSUME NEW i \in 1 .. Len(jobs'[x])
          PROVE  \E q \in Players : jobs'[x][i] = EnterOp(q, x) \/ jobs'[x][i] = RelayOp(q, x)
      <3>1. i \in Nat
        BY PostSteps
      <3>2. \/ i \in 1 .. Len(jobs[x]) /\ jobs'[x][i] = jobs[x][i]
            \/ x = r /\ jobs'[x][i] = job
        BY <3>1, PostSteps
      <3> QED
        BY <3>2 DEF Core, Jobs
    <2>2. ASSUME executor'[x] = None
          PROVE  op'[x].place = "idle" /\ jobs'[x] = << >>
      <3>1. executor[x] = None /\ op'[x] = op[x] /\ jobs'[x] = jobs[x]
        BY <2>2, PostSteps
      <3> QED
        BY <3>1 DEF Core, Jobs
    <2> QED
      BY <2>1, <2>2
  <1>4. Jobs'
    BY <1>3 DEF Jobs
  <1>5. ASSUME NEW b \in Actors, op'[b] # op[b]
        PROVE  /\ b = r /\ op'[b] = job /\ op[b].place = "idle" /\ op[b].next = None
    BY <1>2, <1>5 DEF Core, Shape, LeavePlaces
  <1>6. \A b \in Actors :
           /\ op'[b].place # "idle" => op'[b].who \in Players /\ op'[b].in \in Rooms
           /\ op'[b].place \notin LeavePlaces => op'[b].next = None
           /\ op'[b].place \in LeavePlaces => op'[b] = op[b]
    BY <1>1, <1>5 DEF Core, Shape, LeavePlaces
  <1>7. \A b \in Actors, q \in Players :
           /\ Leaving(b, q)' <=> Leaving(b, q)
           /\ Leaving(b, q) => op'[b] = op[b]
           /\ Entering(b, q) => Entering(b, q)'
           /\ Entering(b, q)' => Entering(b, q) \/ (b = r /\ op'[b] = job)
    <2> SUFFICES ASSUME NEW b \in Actors, NEW q \in Players
                 PROVE  /\ Leaving(b, q)' <=> Leaving(b, q)
                        /\ Leaving(b, q) => op'[b] = op[b]
                        /\ Entering(b, q) => Entering(b, q)'
                        /\ Entering(b, q)' => Entering(b, q) \/ (b = r /\ op'[b] = job)
      OBVIOUS
    <2>1. CASE op'[b] = op[b]
      BY <2>1 DEF Entering, Leaving
    <2>2. CASE op'[b] # op[b]
      BY <1>1, <1>5, <2>2 DEF Entering, Leaving
    <2> QED
      BY <2>1, <2>2
  <1>8. \A x \in Rooms, i \in Nat, q \in Players : Queued(x, i, q) => Queued(x, i, q)'
    BY PostSteps DEF Queued
  <1> QED
    BY <1>4, <1>6, <1>7, <1>8

LEMMA RelayKeepsCore ==
    ASSUME Core, Greeted, NEW s \in Sessions, NEW p \in Players, Relay(s, p)
    PROVE  Core'
  <1> DEFINE r == room[player[s]]
             job == RelayOp(p, r)
  <1>1. r \in Rooms
    BY DEF Relay, InRoom, Greeted, Core, Types
  <1>2. /\ job \in Op /\ job.place = "find" /\ job.who = p /\ job.next = None
    BY <1>1, OpFields, HomeAssumption
  <1>3. Post(s, r, job) /\ UNCHANGED <<objects, room, session, player, left>>
    BY DEF Relay, places, people, history
  <1>4. job = EnterOp(p, r) \/ job = RelayOp(p, r)
    OBVIOUS
  <1>5. \A q \in Players : job # EnterOp(q, r)
    BY <1>1, <1>2, OpFields, HomeAssumption
  <1> HIDE DEF r, job
  <1>6. /\ jobs' \in [Rooms -> Seq(Op)] /\ op' \in [Actors -> Op]
        /\ executor' \in [Rooms -> Sessions \cup {Pool, None}]
        /\ \A x \in Rooms, i \in Nat : i \in 1 .. Len(jobs'[x]) =>
              \/ i \in 1 .. Len(jobs[x]) /\ jobs'[x][i] = jobs[x][i]
              \/ x = r /\ jobs'[x][i] = job
    BY <1>1, <1>2, <1>3, <1>4, PostSteps
  <1>7. /\ Jobs'
        /\ \A b \in Actors :
              /\ op'[b].place # "idle" => op'[b].who \in Players /\ op'[b].in \in Rooms
              /\ op'[b].place \notin LeavePlaces => op'[b].next = None
              /\ op'[b].place \in LeavePlaces => op'[b] = op[b]
        /\ \A b \in Actors, q \in Players :
              /\ Leaving(b, q)' <=> Leaving(b, q)
              /\ Leaving(b, q) => op'[b] = op[b]
              /\ Entering(b, q) => Entering(b, q)'
              /\ Entering(b, q)' => Entering(b, q) \/ (b = r /\ op'[b] = job)
        /\ \A x \in Rooms, i \in Nat, q \in Players : Queued(x, i, q) => Queued(x, i, q)'
    BY <1>1, <1>2, <1>3, <1>4, PostKeepsShape
  <1>8. \A b \in Actors, q \in Players : Entering(b, q)' <=> Entering(b, q)
    <2>1. \A b \in Actors, q \in Players : op'[b] = job => ~Entering(b, q)'
      BY <1>2 DEF Entering
    <2> QED
      BY <1>7, <2>1
  <1>9. \A x \in Rooms, i \in Nat, q \in Players : Queued(x, i, q)' <=> Queued(x, i, q)
    BY <1>5, <1>6, <1>7 DEF Queued
  <1>10. Types'
    BY <1>3, <1>6 DEF Core, Types
  <1>11. Shape'
    BY <1>3, <1>7 DEF Core, Shape
  <1>12. Where'
    BY <1>3, <1>7, <1>8, <1>9 DEF Core, Where
  <1>13. OneEntry'
    BY <1>8, <1>9 DEF Core, OneEntry
  <1>14. Placed'
    BY <1>3, <1>8, <1>9 DEF Core, Placed
  <1>15. RoomAgrees'
    BY <1>3 DEF Core, RoomAgrees
  <1> QED
    BY <1>7, <1>10, <1>11, <1>12, <1>13, <1>14, <1>15 DEF Core

\* A granted login is the first operation on its player.
LEMMA LoginKeepsCore ==
    ASSUME Core, NEW s \in Sessions, NEW p \in Players, Login(s, p)
    PROVE  Core'
  <1> DEFINE job == EnterOp(p, Home)
  <1>1. /\ job \in Op /\ job.place = "addObject" /\ job.who = p /\ job.next = None
        /\ Home \in Rooms /\ Home \in Actors /\ s # None
    BY OpFields, HomeAssumption, ActorsAssumption DEF Actors
  <1>2. /\ Post(s, Home, job) /\ UNCHANGED <<objects, room, left>>
        /\ session[p] = None
        /\ session' = [session EXCEPT ![p] = s]
        /\ player' = [player EXCEPT ![s] = p]
    BY DEF Login, places
  <1>3. job = EnterOp(p, Home) \/ job = RelayOp(p, Home)
    OBVIOUS
  <1>4. \A q \in Players, x \in Rooms : job = EnterOp(q, x) => q = p
    BY <1>1, OpFields, HomeAssumption
  <1> HIDE DEF job
  <1>5. /\ jobs' \in [Rooms -> Seq(Op)] /\ op' \in [Actors -> Op]
        /\ executor' \in [Rooms -> Sessions \cup {Pool, None}]
        /\ \A x \in Rooms, i \in Nat : i \in 1 .. Len(jobs'[x]) =>
              \/ i \in 1 .. Len(jobs[x]) /\ jobs'[x][i] = jobs[x][i]
              \/ x = Home /\ i = Len(jobs[Home]) + 1 /\ jobs'[x][i] = job
        /\ \/ op'[Home] = job /\ jobs' = jobs
           \/ /\ op' = op /\ Len(jobs'[Home]) = Len(jobs[Home]) + 1
              /\ jobs'[Home][Len(jobs'[Home])] = job
    <2> DEFINE r == Home
    <2>1. r \in Rooms /\ (job = EnterOp(p, r) \/ job = RelayOp(p, r)) /\ Post(s, r, job)
      BY <1>1, <1>2, <1>3
    <2> HIDE DEF r
    <2>2. /\ jobs' \in [Rooms -> Seq(Op)] /\ op' \in [Actors -> Op]
          /\ executor' \in [Rooms -> Sessions \cup {Pool, None}]
          /\ \A x \in Rooms, i \in Nat : i \in 1 .. Len(jobs'[x]) =>
                \/ i \in 1 .. Len(jobs[x]) /\ jobs'[x][i] = jobs[x][i]
                \/ x = r /\ i = Len(jobs[r]) + 1 /\ jobs'[x][i] = job
          /\ \/ op'[r] = job /\ jobs' = jobs
             \/ /\ op' = op /\ Len(jobs'[r]) = Len(jobs[r]) + 1
                /\ jobs'[r][Len(jobs'[r])] = job
      BY <1>1, <2>1, PostSteps
    <2> QED
      BY <2>2 DEF r
  <1>6. /\ Jobs'
        /\ \A b \in Actors :
              /\ op'[b].place # "idle" => op'[b].who \in Players /\ op'[b].in \in Rooms
              /\ op'[b].place \notin LeavePlaces => op'[b].next = None
              /\ op'[b].place \in LeavePlaces => op'[b] = op[b]
        /\ \A b \in Actors, q \in Players :
              /\ Leaving(b, q)' <=> Leaving(b, q)
              /\ Leaving(b, q) => op'[b] = op[b]
              /\ Entering(b, q) => Entering(b, q)'
              /\ Entering(b, q)' => Entering(b, q) \/ (b = Home /\ op'[b] = job)
        /\ \A x \in Rooms, i \in Nat, q \in Players : Queued(x, i, q) => Queued(x, i, q)'
    BY <1>1, <1>2, <1>3, PostKeepsShape
  <1>7. /\ room[p] = None
        /\ \A b \in Actors : ~Entering(b, p) /\ ~Leaving(b, p)
        /\ \A x \in Rooms, i \in Nat : ~Queued(x, i, p)
    BY <1>2 DEF Core, Where
  <1>8. session'[p] = s /\ \A q \in Players \ {p} : session'[q] = session[q]
    BY <1>2 DEF Core, Types
  <1>9. \A b \in Actors, q \in Players : q # p => (Entering(b, q)' <=> Entering(b, q))
    BY <1>1, <1>6 DEF Entering
  <1>10. \A x \in Rooms, i \in Nat, q \in Players : q # p =>
            (Queued(x, i, q)' <=> Queued(x, i, q))
    BY <1>4, <1>5, <1>6 DEF Queued
  <1>11. \A b \in Actors : Entering(b, p)' => b = Home /\ op'[b] = job
    BY <1>6, <1>7
  <1>12. \A x \in Rooms, i \in Nat : Queued(x, i, p)' =>
            x = Home /\ i = Len(jobs[Home]) + 1 /\ jobs' # jobs
    BY <1>5, <1>7 DEF Queued
  <1>13. Types'
    BY <1>2, <1>5 DEF Core, Types
  <1>14. Shape'
    <2>1. ASSUME NEW b \in Actors, op'[b].place \in LeavePlaces
          PROVE  /\ b \in Sessions /\ session'[op'[b].who] = b
                 /\ op'[b].next = None => op'[b].who \in left'
      <3>1. op'[b] = op[b] /\ op[b].who \in Players
        BY <1>6, <2>1 DEF Core, Shape, LeavePlaces
      <3>2. b \in Sessions /\ session[op[b].who] = b /\ (op[b].next = None => op[b].who \in left)
        BY <2>1, <3>1 DEF Core, Shape
      <3>3. op[b].who # p
        BY <1>2, <3>2, ActorsAssumption
      <3> QED
        BY <1>2, <1>8, <3>1, <3>2, <3>3
    <2>2. ASSUME NEW t \in Sessions, player'[t] # None
          PROVE  session'[player'[t]] = t
      <3>1. CASE t = s
        BY <1>2, <1>8, <3>1 DEF Core, Types
      <3>2. CASE t # s
        <4>1. player'[t] = player[t] /\ player[t] \in Players /\ session[player[t]] = t
          BY <1>2, <2>2, <3>2 DEF Core, Types, Shape
        <4>2. player[t] # p
          BY <1>2, <4>1, ActorsAssumption
        <4> QED
          BY <1>8, <4>1, <4>2
      <3> QED
        BY <3>1, <3>2
    <2> QED
      BY <1>6, <2>1, <2>2 DEF Shape
  <1>15. Where'
    <2> SUFFICES ASSUME NEW q \in Players
                 PROVE  /\ \A b \in Actors : Entering(b, q)' => room[q] = None
                        /\ \A b \in Actors : Leaving(b, q)' => room[q] = op'[b].in
                        /\ \A x \in Rooms, i \in Nat : Queued(x, i, q)' => room[q] = None
                        /\ session'[q] = None =>
                              /\ room[q] = None
                              /\ \A b \in Actors : ~Entering(b, q)' /\ ~Leaving(b, q)'
                              /\ \A x \in Rooms, i \in Nat : ~Queued(x, i, q)'
      BY <1>2 DEF Where
    <2>1. CASE q = p
      BY <2>1, <1>1, <1>6, <1>7, <1>8
    <2>2. CASE q # p
      BY <2>2, <1>6, <1>8, <1>9, <1>10 DEF Core, Where
    <2> QED
      BY <2>1, <2>2
  <1>16. OneEntry'
    <2> SUFFICES ASSUME NEW q \in Players
                 PROVE  /\ \A a, b \in Actors : Entering(a, q)' /\ Entering(b, q)' => a = b
                        /\ \A a \in Actors, x \in Rooms, i \in Nat :
                              ~(Entering(a, q)' /\ Queued(x, i, q)')
                        /\ \A x, y \in Rooms, i, j \in Nat :
                              Queued(x, i, q)' /\ Queued(y, j, q)' => x = y /\ i = j
      BY DEF OneEntry
    <2>1. CASE q = p
      <3>1. op'[Home] = job /\ jobs' # jobs => \A a \in Actors : ~Entering(a, p)'
        BY <1>5, <1>7, <1>11 DEF Entering
      <3> QED
        BY <2>1, <3>1, <1>11, <1>12
    <2>2. CASE q # p
      BY <2>2, <1>9, <1>10 DEF Core, OneEntry
    <2> QED
      BY <2>1, <2>2
  <1>17. Placed'
    <2> SUFFICES ASSUME NEW q \in Players, session'[q] # None, q \notin left
                 PROVE  \/ room[q] # None
                        \/ \E b \in Actors : Entering(b, q)'
                        \/ \E x \in Rooms, i \in Nat : Queued(x, i, q)'
      BY <1>2 DEF Placed
    <2>1. CASE q = p
      <3>1. CASE op'[Home] = job
        BY <2>1, <3>1, <1>1 DEF Entering
      <3>2. CASE Len(jobs'[Home]) = Len(jobs[Home]) + 1 /\ jobs'[Home][Len(jobs'[Home])] = job
        <4>1. PICK i \in Nat : i = Len(jobs'[Home])
          BY <1>1, <1>5
        <4>2. i \in 1 .. Len(jobs'[Home]) /\ jobs'[Home][i] = EnterOp(p, Home)
          <5>1. Len(jobs[Home]) \in Nat
            BY <1>1 DEF Core, Types
          <5> QED
            BY <3>2, <4>1, <5>1 DEF job
        <4>3. Queued(Home, i, p)'
          BY <4>2 DEF Queued, EnterOp, Idle
        <4> QED
          BY <1>1, <2>1, <4>3
      <3> QED
        BY <1>5, <3>1, <3>2
    <2>2. CASE q # p
      BY <2>2, <1>8, <1>9, <1>10 DEF Core, Placed
    <2> QED
      BY <2>1, <2>2
  <1>18. RoomAgrees'
    BY <1>2 DEF Core, RoomAgrees
  <1> QED
    BY <1>6, <1>13, <1>14, <1>15, <1>16, <1>17, <1>18 DEF Core

\* A queued entry becomes the running one.
LEMMA StartKeepsCore ==
    ASSUME Core, NEW r \in Rooms, StartJob(r)
    PROVE  Core'
  <1> DEFINE job == jobs[r][1]
  <1>1. /\ r \in Actors /\ r \notin Sessions /\ op[r].place = "idle" /\ op[r].next = None
        /\ jobs[r] \in Seq(Op) /\ jobs[r] # << >> /\ executor[r] # None
    BY ActorsAssumption DEF StartJob, At, Core, Types, Shape, Actors, LeavePlaces
  <1>2. /\ 1 \in 1 .. Len(jobs[r]) /\ Head(jobs[r]) = job /\ Len(jobs[r]) \in Nat
        /\ Tail(jobs[r]) \in Seq(Op) /\ Len(Tail(jobs[r])) = Len(jobs[r]) - 1
        /\ \A i \in 1 .. Len(jobs[r]) - 1 : Tail(jobs[r])[i] = jobs[r][i + 1]
    BY <1>1
  <1>3. /\ op' = [op EXCEPT ![r] = job] /\ jobs' = [jobs EXCEPT ![r] = Tail(jobs[r])]
        /\ UNCHANGED <<objects, room, session, player, executor, left>>
    BY <1>2 DEF StartJob, places, people, history
  <1>4. PICK p \in Players : job = EnterOp(p, r) \/ job = RelayOp(p, r)
    BY <1>2 DEF Core, Jobs
  <1> HIDE DEF job
  <1>5. /\ job \in Op /\ job.place \in {"addObject", "find"} /\ job.who = p /\ job.in = r
        /\ job.next = None
        /\ \A q \in Players : job = EnterOp(q, r) <=> job.place = "addObject" /\ q = p
    <2>1. \A q \in Players : /\ EnterOp(q, r).place = "addObject" /\ EnterOp(q, r).who = q
                             /\ RelayOp(q, r).place = "find"
      BY OpFields, HomeAssumption
    <2> QED
      BY <1>4, <2>1, OpFields, HomeAssumption
  <1>6. /\ op'[r] = job /\ \A b \in Actors \ {r} : op'[b] = op[b]
        /\ jobs'[r] = Tail(jobs[r]) /\ \A x \in Rooms \ {r} : jobs'[x] = jobs[x]
    BY <1>1, <1>3 DEF Core, Types
  <1>7. /\ \A q \in Players : ~Entering(r, q) /\ ~Leaving(r, q) /\ ~Leaving(r, q)'
        /\ \A q \in Players : Entering(r, q)' <=> Queued(r, 1, q)
        /\ \A b \in Actors \ {r}, q \in Players :
              (Entering(b, q)' <=> Entering(b, q)) /\ (Leaving(b, q)' <=> Leaving(b, q))
    <2>1. \A q \in Players : Queued(r, 1, q) <=> job.place = "addObject" /\ q = p
      BY <1>2, <1>5 DEF Queued, job
    <2> QED
      BY <1>1, <1>5, <1>6, <2>1 DEF Entering, Leaving
  <1>8. /\ \A i \in Nat, q \in Players : Queued(r, i, q)' <=> i # 0 /\ Queued(r, i + 1, q)
        /\ \A x \in Rooms \ {r}, i \in Nat, q \in Players : Queued(x, i, q)' <=> Queued(x, i, q)
    <2>1. ASSUME NEW i \in Nat, NEW q \in Players
          PROVE  Queued(r, i, q)' <=> i # 0 /\ Queued(r, i + 1, q)
      <3>1. i \in 1 .. Len(jobs'[r]) <=> i # 0 /\ i + 1 \in 1 .. Len(jobs[r])
        BY <1>2, <1>6
      <3>2. i \in 1 .. Len(jobs'[r]) => jobs'[r][i] = jobs[r][i + 1]
        BY <1>2, <1>6
      <3> QED
        BY <3>1, <3>2 DEF Queued, EnterOp, Idle
    <2>2. \A x \in Rooms \ {r}, i \in Nat, q \in Players : Queued(x, i, q)' <=> Queued(x, i, q)
      BY <1>6 DEF Queued
    <2> QED
      BY <2>1, <2>2
  <1>9. Types'
    BY <1>1, <1>2, <1>3, <1>5 DEF Core, Types
  <1>10. Jobs'
    <2>1. ASSUME NEW x \in Rooms, NEW i \in 1 .. Len(jobs'[x])
          PROVE  \E q \in Players : jobs'[x][i] = EnterOp(q, x) \/ jobs'[x][i] = RelayOp(q, x)
      <3>1. CASE x = r
        <4>1. i \in 1 .. Len(jobs[r]) - 1
          BY <1>2, <1>6, <3>1
        <4>2. i + 1 \in 1 .. Len(jobs[r])
          BY <1>2, <4>1
        <4>3. jobs'[x][i] = jobs[r][i + 1]
          BY <1>2, <1>6, <3>1, <4>1
        <4> QED
          BY <3>1, <4>2, <4>3 DEF Core, Jobs
      <3>2. CASE x # r
        BY <1>6, <3>2 DEF Core, Jobs
      <3> QED
        BY <3>1, <3>2
    <2>2. ASSUME NEW x \in Rooms, executor'[x] = None
          PROVE  op'[x].place = "idle" /\ jobs'[x] = << >>
      BY <1>1, <1>3, <1>6, <2>2 DEF Core, Jobs, Actors
    <2> QED
      BY <2>1, <2>2 DEF Jobs
  <1>11. Shape'
    <2>1. ASSUME NEW b \in Actors
          PROVE  /\ op'[b].place # "idle" => op'[b].who \in Players /\ op'[b].in \in Rooms
                 /\ op'[b].place \notin LeavePlaces => op'[b].next = None
                 /\ op'[b].place \in LeavePlaces =>
                      /\ b \in Sessions /\ session[op'[b].who] = b
                      /\ op'[b].next = None => op'[b].who \in left
      <3>1. CASE b = r
        BY <3>1, <1>5, <1>6 DEF LeavePlaces
      <3>2. CASE b # r
        BY <3>2, <1>6 DEF Core, Shape
      <3> QED
        BY <3>1, <3>2
    <2> QED
      BY <1>3, <2>1 DEF Core, Shape
  <1>12. \A x \in Rooms, i \in Nat, q \in Players : Queued(x, i, q)' =>
            \E j \in Nat : Queued(x, j, q) /\ (x = r => j = i + 1 /\ j # 1)
    <2> SUFFICES ASSUME NEW x \in Rooms, NEW i \in Nat, NEW q \in Players, Queued(x, i, q)'
                 PROVE  \E j \in Nat : Queued(x, j, q) /\ (x = r => j = i + 1 /\ j # 1)
      OBVIOUS
    <2>1. CASE x = r
      <3>1. i # 0 /\ Queued(r, i + 1, q) /\ i + 1 \in Nat /\ i + 1 # 1
        BY <1>8, <2>1
      <3> QED
        BY <2>1, <3>1
    <2>2. CASE x # r
      BY <1>8, <2>2
    <2> QED
      BY <2>1, <2>2
  <1>13. Where'
    <2> SUFFICES ASSUME NEW q \in Players
                 PROVE  /\ \A b \in Actors : Entering(b, q)' => room[q] = None
                        /\ \A b \in Actors : Leaving(b, q)' => room[q] = op'[b].in
                        /\ \A x \in Rooms, i \in Nat : Queued(x, i, q)' => room[q] = None
                        /\ session[q] = None =>
                              /\ room[q] = None
                              /\ \A b \in Actors : ~Entering(b, q)' /\ ~Leaving(b, q)'
                              /\ \A x \in Rooms, i \in Nat : ~Queued(x, i, q)'
      BY <1>3 DEF Where
    <2>1. \A b \in Actors : Entering(b, q)' => Entering(b, q) \/ Queued(r, 1, q)
      BY <1>7
    <2>2. \A b \in Actors : Leaving(b, q)' => Leaving(b, q) /\ op'[b] = op[b]
      BY <1>6, <1>7
    <2> QED
      BY <1>12, <2>1, <2>2 DEF Core, Where
  <1>14. OneEntry'
    <2> SUFFICES ASSUME NEW q \in Players
                 PROVE  /\ \A a, b \in Actors : Entering(a, q)' /\ Entering(b, q)' => a = b
                        /\ \A a \in Actors, x \in Rooms, i \in Nat :
                              ~(Entering(a, q)' /\ Queued(x, i, q)')
                        /\ \A x, y \in Rooms, i, j \in Nat :
                              Queued(x, i, q)' /\ Queued(y, j, q)' => x = y /\ i = j
      BY DEF OneEntry
    <2>1. \A a, b \in Actors : Entering(a, q)' /\ Entering(b, q)' => a = b
      BY <1>7 DEF Core, OneEntry
    <2>2. \A a \in Actors, x \in Rooms, i \in Nat : ~(Entering(a, q)' /\ Queued(x, i, q)')
      <3>1. \A x \in Rooms, j \in Nat : Queued(r, 1, q) /\ Queued(x, j, q) => x = r /\ j = 1
        BY DEF Core, OneEntry
      <3>2. \A a \in Actors, x \in Rooms, j \in Nat : ~(Entering(a, q) /\ Queued(x, j, q))
        BY DEF Core, OneEntry
      <3> QED
        BY <1>7, <1>12, <3>1, <3>2
    <2>3. ASSUME NEW x \in Rooms, NEW y \in Rooms, NEW i \in Nat, NEW j \in Nat,
                 Queued(x, i, q)', Queued(y, j, q)'
          PROVE  x = y /\ i = j
      <3>1. CASE x = r /\ y = r
        <4>1. Queued(r, i + 1, q) /\ Queued(r, j + 1, q) /\ i + 1 \in Nat /\ j + 1 \in Nat
          BY <1>8, <2>3, <3>1
        <4>2. i + 1 = j + 1
          BY <4>1 DEF Core, OneEntry
        <4> QED
          BY <3>1, <4>2
      <3>2. CASE x # r /\ y # r
        BY <1>8, <2>3, <3>2 DEF Core, OneEntry
      <3>3. CASE (x = r /\ y # r) \/ (x # r /\ y = r)
        <4>1. PICK k, l \in Nat : Queued(x, k, q) /\ Queued(y, l, q)
          BY <1>12, <2>3
        <4>2. x = y
          BY <4>1 DEF Core, OneEntry
        <4> QED
          BY <3>3, <4>2
      <3> QED
        BY <3>1, <3>2, <3>3
    <2> QED
      BY <2>1, <2>2, <2>3
  <1>15. Placed'
    <2> SUFFICES ASSUME NEW q \in Players, session[q] # None, q \notin left
                 PROVE  \/ room[q] # None
                        \/ \E b \in Actors : Entering(b, q)'
                        \/ \E x \in Rooms, i \in Nat : Queued(x, i, q)'
      BY <1>3 DEF Placed
    <2>1. CASE room[q] # None
      BY <2>1
    <2>2. CASE \E b \in Actors : Entering(b, q)
      BY <1>7, <2>2
    <2>3. CASE \E x \in Rooms, i \in Nat : Queued(x, i, q)
      <3> PICK x \in Rooms, i \in Nat : Queued(x, i, q)
        BY <2>3
      <3>1. CASE x # r
        BY <1>8, <3>1
      <3>2. CASE x = r /\ i = 1
        BY <1>1, <1>7, <3>2
      <3>3. CASE x = r /\ i # 1
        <4>1. i # 0
          BY <1>2 DEF Queued
        <4>2. i - 1 \in Nat /\ i - 1 # 0 /\ (i - 1) + 1 = i
          BY <3>3, <4>1
        <4>3. PICK j \in Nat : j = i - 1 /\ j # 0 /\ j + 1 = i
          BY <4>2
        <4> QED
          BY <1>8, <3>3, <4>3
      <3> QED
        BY <3>1, <3>2, <3>3
    <2> QED
      BY <2>1, <2>2, <2>3 DEF Core, Placed
  <1>16. RoomAgrees'
    BY <1>3 DEF Core, RoomAgrees
  <1> QED
    BY <1>9, <1>10, <1>11, <1>13, <1>14, <1>15, <1>16 DEF Core

LEMMA TurnsKeepCore ==
    ASSUME Core, NEW r \in Rooms, HandOver(r) \/ EndExecute(r) \/ Tick(r)
    PROVE  Core'
  <1>1. UNCHANGED <<objects, room, session, player, jobs, op, left>>
    BY DEF HandOver, EndExecute, Tick, places, people, history
  <1>2. executor' \in [Rooms -> Sessions \cup {Pool, None}]
    BY DEF HandOver, EndExecute, Tick, Core, Types
  <1>3. Jobs'
    <2>1. \A x \in Rooms : executor'[x] = None => op[x].place = "idle" /\ jobs[x] = << >>
      BY ActorsAssumption DEF HandOver, EndExecute, Tick, At, Core, Types, Jobs
    <2> QED
      BY <1>1, <2>1 DEF Core, Jobs
  <1>4. Types' /\ RoomAgrees'
    BY <1>1, <1>2 DEF Core, Types, RoomAgrees
  <1>5. Shape'
    BY <1>1 DEF Core, Shape
  <1>6. /\ \A a \in Actors, p \in Players :
              (Entering(a, p)' <=> Entering(a, p)) /\ (Leaving(a, p)' <=> Leaving(a, p))
        /\ \A x \in Rooms, i \in Nat, p \in Players : Queued(x, i, p)' <=> Queued(x, i, p)
    BY <1>1 DEF Entering, Leaving, Queued
  <1>7. Where' /\ OneEntry' /\ Placed'
    BY <1>1, <1>6 DEF Core, Where, OneEntry, Placed
  <1> QED
    BY <1>3, <1>4, <1>5, <1>7 DEF Core

LEMMA StutterKeepsCore ==
    ASSUME Core, UNCHANGED <<objects, room, session, player, jobs, executor, op, left>>
    PROVE  Core'
  <1>1. /\ \A a \in Actors, p \in Players :
              (Entering(a, p)' <=> Entering(a, p)) /\ (Leaving(a, p)' <=> Leaving(a, p))
        /\ \A x \in Rooms, i \in Nat, p \in Players : Queued(x, i, p)' <=> Queued(x, i, p)
    BY DEF Entering, Leaving, Queued
  <1>2. Where' /\ OneEntry' /\ Placed'
    BY <1>1 DEF Core, Where, OneEntry, Placed
  <1>3. Types' /\ Jobs' /\ Shape' /\ RoomAgrees'
    BY DEF Core, Types, Jobs, Shape, RoomAgrees
  <1> QED
    BY <1>2, <1>3 DEF Core

-----------------------------------------------------------------------------
(* All steps *)

LEMMA NextGreeted ==
    ASSUME Core, Greeted, [Next]_vars
    PROVE  Greeted'
  <1>1. ASSUME NEW a \in Actors, Step(a)
        PROVE  Greeted'
    <2>1. op[a].place # "idle" => op[a].who \in Players
      BY <1>1 DEF Core, Shape
    <2>2. CASE TellEntered(a)
      BY <2>1, <2>2 DEF TellEntered, At, Greeted
    <2>3. CASE ~TellEntered(a)
      BY <1>1, <2>3 DEF Step, AddObject, TellSpawn, CollectList, TellList, RemoveObject, TellLeft,
            TellDespawn, TellDespawnSelf, Find, Broadcast, history, Greeted
    <2> QED
      BY <2>2, <2>3
  <1>2. CASE UNCHANGED vars
    BY <1>2 DEF vars, history, Greeted
  <1>3. ASSUME NEW s \in Sessions, NEW p \in Players, Login(s, p) \/ Relay(s, p)
        PROVE  Greeted'
    BY <1>3 DEF Login, Relay, history, Greeted
  <1>4. ASSUME NEW s \in Sessions,
               (\E r \in Rooms : ReqEnterRoom(s, r)) \/ LeaveGame(s) \/ Disconnect(s)
        PROVE  Greeted'
    BY <1>4 DEF ReqEnterRoom, LeaveGame, Disconnect, history, Greeted
  <1>5. ASSUME NEW r \in Rooms, StartJob(r) \/ HandOver(r) \/ EndExecute(r) \/ Tick(r)
        PROVE  Greeted'
    BY <1>5 DEF StartJob, HandOver, EndExecute, Tick, history, Greeted
  <1> QED
    BY <1>1, <1>2, <1>3, <1>4, <1>5 DEF Next

LEMMA NextCore ==
    ASSUME Core, Greeted, [Next]_vars
    PROVE  Core'
  <1>1. ASSUME NEW s \in Sessions, NEW p \in Players, Login(s, p)
        PROVE  Core'
    BY <1>1, LoginKeepsCore
  <1>2. ASSUME NEW s \in Sessions, NEW p \in Players, Relay(s, p)
        PROVE  Core'
    BY <1>2, RelayKeepsCore
  <1>3. ASSUME NEW s \in Sessions, (\E r \in Rooms : ReqEnterRoom(s, r)) \/ LeaveGame(s)
        PROVE  Core'
    BY <1>3, LeavingKeepsCore
  <1>4. ASSUME NEW s \in Sessions, Disconnect(s)
        PROVE  Core'
    BY <1>4, StutterKeepsCore DEF Disconnect, places, queues, history
  <1>5. ASSUME NEW r \in Rooms, StartJob(r)
        PROVE  Core'
    BY <1>5, StartKeepsCore
  <1>6. ASSUME NEW r \in Rooms, HandOver(r) \/ EndExecute(r) \/ Tick(r)
        PROVE  Core'
    BY <1>6, TurnsKeepCore
  <1>7. ASSUME NEW a \in Actors, Step(a)
        PROVE  Core'
    <2>1. CASE AddObject(a)
      BY <2>1, AddKeepsCore
    <2>2. CASE RemoveObject(a)
      BY <2>2, RemoveKeepsCore
    <2>3. CASE CollectList(a)
      BY <2>3, ListKeepsCore
    <2>4. CASE TellDespawnSelf(a)
      BY <2>4, LastTellKeepsCore
    <2>5. CASE \/ TellEntered(a) \/ TellSpawn(a) \/ TellList(a)
               \/ TellLeft(a) \/ TellDespawn(a) \/ Find(a) \/ Broadcast(a)
      BY <2>5, TellsAndFinds
    <2> QED
      BY <1>7, <2>1, <2>2, <2>3, <2>4, <2>5 DEF Step
  <1>8. CASE UNCHANGED vars
    BY <1>8, StutterKeepsCore DEF vars, places, people, queues, history
  <1> QED
    BY <1>1, <1>2, <1>3, <1>4, <1>5, <1>6, <1>7, <1>8 DEF Next

THEOREM CoreHolds == Spec => [](Core /\ Greeted)
  <1>1. Init => Core /\ Greeted
    BY InitCore DEF Init, Greeted
  <1>2. Core /\ Greeted /\ [Next]_vars => (Core /\ Greeted)'
    BY NextCore, NextGreeted
  <1> QED
    BY <1>1, <1>2, PTL DEF Spec

\* The rooms' maps and Object::room agree at every step, and neither AddObject
\* nor RemoveObject ever returns early, whatever jobs and direct calls overlap
\* (HandleEnterPlayer, HandleLeavePlayer, RelocatePlayerToRoom).
THEOREM PlacesStayInStep == Spec => []PlacesAgree
  <1>1. Core => PlacesAgree
    <2> SUFFICES ASSUME Core PROVE NoFailedEntry
      BY DEF Core, PlacesAgree
    <2>1. ASSUME NEW a \in Actors, At(a, "addObject")
          PROVE  op[a].who \notin objects[op[a].in]
      <3>1. op[a].who \in Players /\ op[a].in \in Rooms
        BY <2>1 DEF At, Core, Shape
      <3>2. room[op[a].who] = None
        BY <2>1, <3>1 DEF At, Core, Where, Entering
      <3> QED
        BY <3>1, <3>2, HomeAssumption DEF Core, RoomAgrees
    <2>2. ASSUME NEW a \in Actors, At(a, "removeObject")
          PROVE  op[a].who \in objects[op[a].in]
      <3>1. op[a].who \in Players /\ op[a].in \in Rooms
        BY <2>2 DEF At, Core, Shape
      <3>2. room[op[a].who] = op[a].in
        BY <2>2, <3>1 DEF At, Core, Where, Leaving
      <3> QED
        BY <3>1, <3>2 DEF Core, RoomAgrees
    <2> QED
      BY <2>1, <2>2 DEF NoFailedEntry
  <1> QED
    BY <1>1, CoreHolds, PTL

\* Nobody whose login was granted is lost between two rooms, nor between the
\* login and the job that lets it in (HandleREQLogin, RelocatePlayerToRoom).
THEOREM NobodyLost == Spec => []EveryPlayerPlaced
  <1>1. Core => EveryPlayerPlaced
    <2> SUFFICES ASSUME Core, NEW p \in Players, session[p] # None, p \notin left
                 PROVE  \/ room[p] # None
                        \/ \E r \in Rooms : \E i \in DOMAIN jobs[r] : jobs[r][i] = EnterOp(p, r)
                        \/ \E a \in Actors :
                              op[a].who = p /\ (At(a, "addObject") \/ op[a].next # None)
      BY DEF EveryPlayerPlaced
    <2>1. \A r \in Rooms : DOMAIN jobs[r] = 1 .. Len(jobs[r])
      BY DEF Core, Types
    <2>2. \A r \in Rooms, i \in Nat :
             Queued(r, i, p) => i \in DOMAIN jobs[r] /\ jobs[r][i] = EnterOp(p, r)
      BY <2>1 DEF Queued
    <2>3. \A a \in Actors :
             Entering(a, p) => op[a].who = p /\ (At(a, "addObject") \/ op[a].next # None)
      BY DEF Entering, At
    <2> QED
      BY <2>2, <2>3 DEF Core, Placed
  <1> QED
    BY <1>1, CoreHolds, PTL

-----------------------------------------------------------------------------
(* Types *)

LEMMA ViewsKeepType ==
    /\ Client!EmptyView \in Client!View
    /\ \A v \in Client!View : \A list : Client!Spawned(v, list) \in Client!View
    /\ \A v \in Client!View : \A p : Client!Despawned(v, p) \in Client!View
    /\ \A v \in Client!View : Client!Cleared(v) \in Client!View
  BY DEF Client!EmptyView, Client!View, Client!Spawned, Client!Despawned, Client!Cleared

LEMMA NextRest ==
    ASSUME Core, Rest, [Next]_vars
    PROVE  Rest'
  <1>1. ASSUME NEW s \in Sessions, NEW p \in Players, Login(s, p) \/ Relay(s, p)
        PROVE  Rest'
    BY <1>1 DEF Login, Relay, history, Rest
  <1>2. ASSUME NEW s \in Sessions,
               (\E r \in Rooms : ReqEnterRoom(s, r)) \/ LeaveGame(s) \/ Disconnect(s)
        PROVE  Rest'
    BY <1>2 DEF ReqEnterRoom, LeaveGame, Disconnect, history, Rest
  <1>3. ASSUME NEW r \in Rooms, StartJob(r) \/ HandOver(r) \/ EndExecute(r) \/ Tick(r)
        PROVE  Rest'
    BY <1>3 DEF StartJob, HandOver, EndExecute, Tick, history, Rest
  <1>4. ASSUME NEW a \in Actors, Step(a)
        PROVE  Rest'
    <2>1. CASE AddObject(a)
      <3>1. op[a].who \in Players /\ op[a].in \in Rooms
        BY <2>1 DEF AddObject, At, Core, Shape
      <3>2. visited' \in [Players -> SUBSET Rooms]
        BY <2>1, <3>1 DEF AddObject, Rest
      <3>3. UNCHANGED <<view, astray>> /\ calm' \in BOOLEAN
        BY <2>1 DEF AddObject, Rest
      <3> QED
        BY <3>2, <3>3 DEF Rest
    <2>2. CASE TellEntered(a)
      BY <2>2, ViewsKeepType DEF TellEntered, Told, Rest
    <2>3. CASE TellSpawn(a)
      BY <2>3, ViewsKeepType DEF TellSpawn, Told, history, Rest
    <2>4. CASE CollectList(a)
      BY <2>4 DEF CollectList, history, Rest
    <2>5. CASE TellList(a)
      BY <2>5, ViewsKeepType DEF TellList, Told, history, Rest
    <2>6. CASE RemoveObject(a)
      BY <2>6 DEF RemoveObject, Rest
    <2>7. CASE TellLeft(a)
      BY <2>7, ViewsKeepType DEF TellLeft, Told, history, Rest
    <2>8. CASE TellDespawn(a)
      BY <2>8, ViewsKeepType DEF TellDespawn, Told, history, Rest
    <2>9. CASE TellDespawnSelf(a)
      BY <2>9, ViewsKeepType DEF TellDespawnSelf, Told, history, Rest
    <2>10. CASE Find(a)
      BY <2>10 DEF Find, Rest
    <2>11. CASE Broadcast(a)
      BY <2>11 DEF Broadcast, Rest
    <2> QED
      BY <1>4, <2>1, <2>2, <2>3, <2>4, <2>5, <2>6, <2>7, <2>8, <2>9, <2>10, <2>11 DEF Step
  <1>5. CASE UNCHANGED vars
    BY <1>5 DEF vars, history, Rest
  <1> QED
    BY <1>1, <1>2, <1>3, <1>4, <1>5 DEF Next

LEMMA OpenShrinks ==
    ASSUME [Next]_vars
    PROVE  open' \subseteq open
  <1>1. ASSUME NEW s \in Sessions, Disconnect(s)
        PROVE  open' \subseteq open
    BY <1>1 DEF Disconnect
  <1>2. ASSUME NEW s \in Sessions, NEW p \in Players, Login(s, p) \/ Relay(s, p)
        PROVE  open' \subseteq open
    BY <1>2 DEF Login, Relay, people
  <1>3. ASSUME NEW s \in Sessions, (\E r \in Rooms : ReqEnterRoom(s, r)) \/ LeaveGame(s)
        PROVE  open' \subseteq open
    BY <1>3 DEF ReqEnterRoom, LeaveGame, people
  <1>4. ASSUME NEW r \in Rooms, StartJob(r) \/ HandOver(r) \/ EndExecute(r) \/ Tick(r)
        PROVE  open' \subseteq open
    BY <1>4 DEF StartJob, HandOver, EndExecute, Tick, people
  <1>5. ASSUME NEW a \in Actors, Step(a)
        PROVE  open' \subseteq open
    BY <1>5 DEF Step, AddObject, TellEntered, TellSpawn, CollectList, TellList, RemoveObject,
          TellLeft, TellDespawn, TellDespawnSelf, Find, Broadcast, people
  <1>6. CASE UNCHANGED vars
    BY <1>6 DEF vars, people
  <1> QED
    BY <1>1, <1>2, <1>3, <1>4, <1>5, <1>6 DEF Next

All == Core /\ Greeted /\ Rest /\ open \subseteq Sessions

LEMMA AllInit == Init => All
  <1> SUFFICES ASSUME Init PROVE Rest /\ Greeted /\ open \subseteq Sessions
    BY InitCore DEF All
  <1>1. calm \in BOOLEAN /\ astray \in BOOLEAN /\ Greeted /\ open \subseteq Sessions
    BY DEF Init, Greeted
  <1>2. view \in [Sessions -> Client!View]
    BY ViewsKeepType DEF Init
  <1>3. visited \in [Players -> SUBSET Rooms]
    BY DEF Init
  <1> QED
    BY <1>1, <1>2, <1>3 DEF Rest

LEMMA AllNext == All /\ [Next]_vars => All'
  BY NextCore, NextGreeted, NextRest, OpenShrinks DEF All

\* The types, and that a room's queue with jobs in it has an executor
\* (JobQueue::Push and Execute).
THEOREM TypeCorrect == Spec => []TypeOK
  <1>1. All => TypeOK
    <2> SUFFICES ASSUME All PROVE TypeOK
      OBVIOUS
    <2>1. \A r \in Rooms : \A i \in DOMAIN jobs[r] : jobs[r][i] \in Op
      BY DEF All, Core, Types
    <2>2. \A r \in Rooms : jobs[r] # << >> => executor[r] # None
      BY DEF All, Core, Jobs
    <2> QED
      BY <2>1, <2>2 DEF All, Core, Types, Greeted, Rest, TypeOK
  <1> QED
    BY <1>1, AllInit, AllNext, PTL DEF Spec

-----------------------------------------------------------------------------
(* What the clients see, as long as it is calm and nobody comes back       *)

\* Nobody but the one who took a player out of a room is going to put it
\* into another.
Out == \A a \in Actors : op[a].place \in LeavePlaces \ {"removeObject"} =>
          /\ room[op[a].who] = None
          /\ \A b \in Actors \ {a} : ~Entering(b, op[a].who)
          /\ \A r \in Rooms, i \in Nat : ~Queued(r, i, op[a].who)

\* Whoever is going to be put into a room has not been there.
Fresh ==
    /\ \A a \in Actors : /\ op[a].place = "addObject" => op[a].in \notin visited[op[a].who]
                         /\ op[a].next # None => op[a].next \notin visited[op[a].who]
    /\ \A p \in Players :
          /\ \A r \in Rooms, i \in Nat : Queued(r, i, p) => r \notin visited[p]
          /\ session[p] = None => visited[p] = {}
          /\ room[p] # None => room[p] \in visited[p]

\* A client has one player.
Alone == \A p, q \in Players : session[p] # None /\ session[p] = session[q] => p = q

OneInside == \A r \in Rooms : \A a, b \in Actors : Inside(a, r) /\ Inside(b, r) => a = b

\* The player that an operation in a room is about is there, unless it leaves.
Attends(a) == op[a].place \in {"broadcast", "enterGame", "spawn", "list", "sendList"}

AttendedBy(a) ==
    /\ Attends(a) => op[a].who \in objects[op[a].in]
    /\ op[a].place = "sendList" => op[a].list = objects[op[a].in]

Attended == \A a \in Actors : AttendedBy(a)

\* What the operation of a has still to tell the client of q: of those in the
\* room, and of the one that left it.
Untold(a, q, x) == \/ /\ op[a].who = q
                      /\ \/ op[a].place = "enterGame"
                         \/ op[a].place \in {"spawn", "list", "sendList"} /\ x # q
                   \/ /\ op[a].who # q /\ x = op[a].who
                      /\ op[a].place \in {"enterGame", "spawn"}

Lingers(a, x) == op[a].place \in {"leaveGame", "despawn"} /\ x = op[a].who

Unheard(r, q, x) == \E a \in Actors : Inside(a, r) /\ Untold(a, q, x)
Lingering(r, x) == \E a \in Actors : Inside(a, r) /\ Lingers(a, x)

\* The client of q shows those in the room of whom it has been told, and one
\* that left but of whom it is still to be told.
Sees(r, q) == LET v == view[session[q]] IN
    \A x \in Players :
       /\ v[x] # "absent" => r \in visited[x]
       /\ x \in objects[r] => v[x] # "destroyed"
       /\ v[x] = "shown" <=> (x \in objects[r] /\ ~Unheard(r, q, x)) \/ Lingering(r, x)

Seeing == \A r \in Rooms : \A q \in objects[r] : session[q] \in open => Sees(r, q)

\* A client whose player is in no room, nor on its way out, sees nobody.
Unseeing == \A s \in open :
    \/ view[s] = Client!EmptyView
    \/ \E p \in Players : /\ session[p] = s
                          /\ room[p] # None \/ (op[s].who = p /\ op[s].place = "leaveGame")

Calm == calm => Alone /\ OneInside /\ Attended /\ Seeing /\ Unseeing /\ ~astray

Views == Out /\ Fresh /\ Calm

LEMMA InitViews == Init => Views
  <1> SUFFICES ASSUME Init PROVE Views
    OBVIOUS
  <1>1. \A a \in Actors : op[a].place = "idle" /\ op[a].next = None
    BY IdleFields DEF Init
  <1>2. \A p \in Players, r \in Rooms, i \in Nat : ~Queued(r, i, p)
    BY DEF Init, Queued
  <1>3. /\ \A p \in Players : room[p] = None /\ session[p] = None /\ visited[p] = {}
        /\ \A r \in Rooms : objects[r] = {}
        /\ \A s \in open : view[s] = Client!EmptyView
        /\ ~astray
    BY DEF Init
  <1>4. Out
    BY <1>1 DEF Out, LeavePlaces
  <1>5. Fresh
    BY <1>1, <1>2, <1>3 DEF Fresh
  <1>6. \A a \in Actors, r \in Rooms : ~Inside(a, r)
    BY <1>1 DEF Inside
  <1>7. Calm
    BY <1>1, <1>3, <1>6 DEF Calm, Alone, OneInside, Attended, AttendedBy, Attends, Seeing, Unseeing
  <1> QED
    BY <1>4, <1>5, <1>7 DEF Views

\* Who is in a room has a client, and is in no other.
LEMMA Inmate ==
    ASSUME Core, NEW r \in Rooms, NEW q \in objects[r]
    PROVE  q \in Players /\ room[q] = r /\ session[q] \in Sessions
  <1>1. q \in Players /\ room[q] = r
    BY DEF Core, Types, RoomAgrees
  <1>2. session[q] # None
    BY <1>1, HomeAssumption DEF Core, Where
  <1> QED
    BY <1>1, <1>2 DEF Core, Types

-----------------------------------------------------------------------------
(* Steps outside of the rooms: packets and the execution of jobs *)

\* An operation of a begins, with what it needs.
Begun(a) ==
    /\ op[a].place = "idle"
    /\ LET o == op'[a] IN
       \/ o.place = "find" /\ o.next = None
       \/ /\ o.place = "addObject" /\ o.next = None
          /\ \/ session[o.who] = None
             \/ \E r \in Rooms, i \in Nat : o.in = r /\ Queued(r, i, o.who)
       \/ /\ o.place = "removeObject"
          /\ o.next = None \/ o.next \notin visited[o.who]

\* A granted login.
Admitted(p) == /\ session[p] = None /\ session'[p] # None
               /\ \A q \in Players \ {p} : session'[q] = session[q]
               /\ calm' => \A q \in Players : session[q] # session'[p]

Outside ==
    /\ UNCHANGED <<objects, room, visited, view, astray>>
    /\ open' \subseteq open /\ (calm' => calm)
    /\ \A a \in Actors : op'[a] = op[a] \/ Begun(a)
    /\ \A x \in Rooms, i \in Nat, q \in Players :
          Queued(x, i, q)' => session[q] = None \/ \E j \in Nat : Queued(x, j, q)
    /\ \A p \in Players : session'[p] = session[p] \/ Admitted(p)

LEMMA OutsideKeepsViews ==
    ASSUME Core, Core', open \subseteq Sessions, Views, Outside
    PROVE  Views'
  <1>1. \A a \in Actors : op'[a] = op[a] \/ Begun(a)
    BY DEF Outside
  <1>2. Out'
    <2> SUFFICES ASSUME NEW a \in Actors, NEW p, p = op'[a].who,
                        op'[a].place \in LeavePlaces \ {"removeObject"}
                 PROVE  /\ room[p] = None
                        /\ \A b \in Actors \ {a} : ~Entering(b, p)'
                        /\ \A r \in Rooms, i \in Nat : ~Queued(r, i, p)'
      BY DEF Out, Outside, Entering, Queued
    <2>1. op'[a] = op[a]
      BY <1>1 DEF Begun, LeavePlaces
    <2>2. p = op[a].who /\ p \in Players /\ session[p] # None
      BY <2>1, ActorsAssumption DEF Core, Shape, LeavePlaces
    <2>3. /\ room[p] = None /\ \A b \in Actors \ {a} : ~Entering(b, p)
          /\ \A r \in Rooms, i \in Nat : ~Queued(r, i, p)
      BY <2>1, <2>2 DEF Views, Out
    <2>4. \A r \in Rooms, i \in Nat : ~Queued(r, i, p)'
      BY <2>2, <2>3 DEF Outside
    <2>5. ASSUME NEW b \in Actors \ {a} PROVE ~Entering(b, p)'
      <3>1. CASE op'[b] = op[b]
        BY <2>3, <3>1 DEF Entering
      <3>2. CASE Begun(b)
        <4>1. Entering(b, p)' => op'[b].place = "addObject" /\ op'[b].who = p
          BY <3>2 DEF Begun, Entering
        <4> QED
          BY <2>2, <2>3, <3>2, <4>1 DEF Begun
      <3> QED
        BY <1>1, <3>1, <3>2
    <2> QED
      BY <2>3, <2>4, <2>5
  <1>3. Fresh'
    <2>1. ASSUME NEW a \in Actors
          PROVE  /\ op'[a].place = "addObject" => op'[a].in \notin visited[op'[a].who]
                 /\ op'[a].next # None => op'[a].next \notin visited[op'[a].who]
      <3>1. CASE op'[a] = op[a]
        BY <3>1 DEF Views, Fresh
      <3>2. CASE Begun(a)
        <4>1. op'[a].place = "addObject" => op'[a].who \in Players
          BY DEF Core, Shape
        <4> QED
          BY <3>2, <4>1 DEF Begun, Views, Fresh
      <3> QED
        BY <1>1, <3>1, <3>2
    <2>2. ASSUME NEW p \in Players
          PROVE  /\ \A r \in Rooms, i \in Nat : Queued(r, i, p)' => r \notin visited[p]
                 /\ session'[p] = None => visited[p] = {}
                 /\ room[p] # None => room[p] \in visited[p]
      BY DEF Views, Fresh, Outside, Admitted
    <2> QED
      BY <2>1, <2>2 DEF Fresh, Outside
  <1>4. Calm'
    <2> SUFFICES ASSUME calm'
                 PROVE  (Alone /\ OneInside /\ Attended /\ Seeing /\ Unseeing /\ ~astray)'
      BY DEF Calm
    <2>1. Alone /\ OneInside /\ Attended /\ Seeing /\ Unseeing /\ ~astray
      BY DEF Outside, Views, Calm
    <2>2. Alone'
      BY <2>1 DEF Outside, Admitted, Alone
    <2>3. \A a \in Actors, r \in Rooms :
             /\ Inside(a, r)' <=> Inside(a, r)
             /\ Inside(a, r) => op'[a] = op[a]
      BY <1>1 DEF Begun, Inside
    <2>4. OneInside'
      BY <2>1, <2>3 DEF OneInside
    <2>5. ASSUME NEW a \in Actors PROVE AttendedBy(a)'
      <3>1. CASE op'[a] = op[a]
        BY <2>1, <3>1 DEF Attended, AttendedBy, Attends, Outside
      <3>2. CASE Begun(a)
        BY <3>2 DEF Begun, AttendedBy, Attends
      <3> QED
        BY <1>1, <3>1, <3>2
    <2>6. \A r \in Rooms, q, x \in Players :
             (Unheard(r, q, x)' <=> Unheard(r, q, x)) /\ (Lingering(r, x)' <=> Lingering(r, x))
      BY <2>3 DEF Unheard, Untold, Lingering, Lingers
    <2>7. ASSUME NEW r \in Rooms, NEW q \in objects[r], session'[q] \in open'
          PROVE  Sees(r, q)'
      <3>1. q \in Players /\ session[q] \in Sessions
        BY Inmate
      <3>2. session'[q] = session[q]
        BY <3>1, ActorsAssumption DEF Outside, Admitted
      <3>3. Sees(r, q)
        BY <2>1, <2>7, <3>2 DEF Seeing, Outside
      <3> QED
        BY <2>6, <3>1, <3>2, <3>3 DEF Sees, Outside
    <2>8. Seeing'
      BY <2>7 DEF Seeing, Outside
    <2>9. ASSUME NEW s \in open'
          PROVE  \/ view[s] = Client!EmptyView
                 \/ \E p \in Players :
                       /\ session'[p] = s
                       /\ room[p] # None \/ (op'[s].who = p /\ op'[s].place = "leaveGame")
      <3>1. s \in open /\ s \in Sessions /\ s \in Actors /\ s # None
        BY ActorsAssumption DEF Outside, Actors
      <3>2. CASE view[s] = Client!EmptyView
        BY <3>2
      <3>3. CASE view[s] # Client!EmptyView
        <4>1. PICK p \in Players : /\ session[p] = s
                                   /\ room[p] # None \/ (op[s].who = p /\ op[s].place = "leaveGame")
          BY <2>1, <3>1, <3>3 DEF Unseeing
        <4>2. session'[p] = s
          BY <3>1, <4>1 DEF Outside, Admitted
        <4>3. op[s].place = "leaveGame" => op'[s] = op[s]
          BY <1>1, <3>1 DEF Begun
        <4> QED
          BY <4>1, <4>2, <4>3
      <3> QED
        BY <3>2, <3>3
    <2>10. Unseeing'
      BY <2>9 DEF Unseeing, Outside
    <2> QED
      BY <2>1, <2>2, <2>4, <2>5, <2>8, <2>10 DEF Attended, Outside
  <1> QED
    BY <1>2, <1>3, <1>4 DEF Views

-----------------------------------------------------------------------------
(* Steps of an operation that move nobody *)

Within(a) ==
    /\ UNCHANGED <<objects, room, session, open, jobs, visited>> /\ (calm' => calm)
    /\ \A b \in Actors \ {a} : op'[b] = op[b]
    /\ op[a].place \notin {"idle", "addObject", "removeObject"}
    /\ op'[a].place \notin {"removeObject", "leaveGame"}
    /\ op'[a].place # "idle" => op'[a].who = op[a].who
    /\ op'[a].place \in LeavePlaces =>
          op[a].place \in {"leaveGame", "despawn"} /\ op'[a].next = op[a].next
    /\ op'[a].place = "addObject" =>
          op[a].place = "despawnSelf" /\ op'[a].in = op[a].next /\ op[a].next # None
    /\ op'[a].place \notin {"idle", "addObject"} => op'[a].in = op[a].in

LEMMA WithinStep ==
    ASSUME Core, NEW a \in Actors,
           \/ TellEntered(a) \/ TellSpawn(a) \/ CollectList(a) \/ TellList(a)
           \/ TellLeft(a) \/ TellDespawn(a) \/ TellDespawnSelf(a) \/ Find(a) \/ Broadcast(a)
    PROVE  Within(a)
  <1>1. op[a] \in Op /\ op \in [Actors -> Op]
    BY DEF Core, Types
  <1>2. CASE TellEntered(a) \/ TellSpawn(a) \/ TellLeft(a) \/ TellDespawn(a)
    <2>1. /\ UNCHANGED <<objects, room, session, open, jobs, visited, calm>>
          /\ \/ op[a].place = "enterGame" /\ Goto(a, "spawn")
             \/ op[a].place = "spawn" /\ Goto(a, "list")
             \/ op[a].place = "leaveGame" /\ Goto(a, "despawn")
             \/ op[a].place = "despawn" /\ Goto(a, "despawnSelf")
      BY <1>2 DEF TellEntered, TellSpawn, TellLeft, TellDespawn, At, places, people, queues, history
    <2> QED
      BY <1>1, <2>1 DEF Goto, Op, Within, LeavePlaces
  <1>3. CASE CollectList(a)
    BY <1>1, <1>3 DEF CollectList, At, places, people, queues, history, Op, Within, LeavePlaces
  <1>4. CASE TellList(a)
    BY <1>1, <1>4, IdleFields
       DEF TellList, At, places, people, queues, history, Within, LeavePlaces
  <1>5. CASE TellDespawnSelf(a)
    <2>1. /\ op[a].place = "despawnSelf" /\ op[a].who \in Players
          /\ op[a].next \in Rooms \cup {None}
          /\ UNCHANGED <<objects, room, session, open, jobs, visited, calm>>
          /\ op' = [op EXCEPT ![a] = IF @.next = None THEN Idle ELSE EnterOp(op[a].who, @.next)]
      BY <1>1, <1>5
         DEF TellDespawnSelf, At, places, people, queues, history, Core, Shape, Op
    <2>2. CASE op[a].next = None
      BY <1>1, <2>1, <2>2, IdleFields DEF Within, LeavePlaces
    <2>3. CASE op[a].next # None
      <3>1. op'[a] = EnterOp(op[a].who, op[a].next) /\ \A b \in Actors \ {a} : op'[b] = op[b]
        BY <1>1, <2>1, <2>3
      <3>2. op'[a].place = "addObject" /\ op'[a].who = op[a].who /\ op'[a].in = op[a].next
        BY <2>1, <2>3, <3>1, OpFields
      <3> QED
        BY <2>1, <2>3, <3>1, <3>2 DEF Within, LeavePlaces
    <2> QED
      BY <2>2, <2>3
  <1>6. CASE Find(a)
    <2>1. /\ op[a].place = "find" /\ (calm' => calm)
          /\ UNCHANGED <<objects, room, session, open, jobs, visited>>
          /\ Goto(a, "broadcast") \/ op' = [op EXCEPT ![a] = Idle]
      BY <1>6 DEF Find, At, places, people, queues
    <2>2. CASE Goto(a, "broadcast")
      BY <1>1, <2>1, <2>2 DEF Goto, Op, Within, LeavePlaces
    <2>3. CASE op' = [op EXCEPT ![a] = Idle]
      BY <1>1, <2>1, <2>3, IdleFields DEF Within, LeavePlaces
    <2> QED
      BY <2>1, <2>2, <2>3
  <1>7. CASE Broadcast(a)
    BY <1>1, <1>7, IdleFields DEF Broadcast, At, places, people, queues, Within, LeavePlaces
  <1> QED
    BY <1>2, <1>3, <1>4, <1>5, <1>6, <1>7

LEMMA WithinKeepsOutFresh ==
    ASSUME Core, Core', NEW a \in Actors, Within(a), Out, Fresh
    PROVE  Out' /\ Fresh'
  <1>1. \A b \in Actors, p \in Players : Entering(b, p)' => Entering(b, p)
    <2> SUFFICES ASSUME NEW b \in Actors, NEW p \in Players, Entering(b, p)'
                 PROVE  Entering(b, p)
      OBVIOUS
    <2>1. CASE b # a
      BY <2>1 DEF Within, Entering
    <2>2. CASE b = a
      <3>1. op'[a].next # None => op'[a].place \in LeavePlaces
        BY DEF Core, Shape
      <3> QED
        BY <2>2, <3>1 DEF Within, Entering, LeavePlaces
    <2> QED
      BY <2>1, <2>2
  <1>2. \A r \in Rooms, i \in Nat, p \in Players : Queued(r, i, p)' <=> Queued(r, i, p)
    BY DEF Within, Queued
  <1>3. Out'
    <2> SUFFICES ASSUME NEW b \in Actors, NEW p, p = op'[b].who,
                        op'[b].place \in LeavePlaces \ {"removeObject"}
                 PROVE  /\ room[p] = None
                        /\ \A c \in Actors \ {b} : ~Entering(c, p)'
                        /\ \A r \in Rooms, i \in Nat : ~Queued(r, i, p)'
      BY DEF Out, Within, Entering, Queued
    <2>1. p = op[b].who /\ op[b].place \in LeavePlaces \ {"removeObject"}
      BY DEF Within, LeavePlaces
    <2>2. p \in Players
      BY <2>1 DEF Core, Shape, LeavePlaces
    <2> QED
      BY <1>1, <1>2, <2>1, <2>2 DEF Out
  <1>4. Fresh'
    <2>1. ASSUME NEW b \in Actors
          PROVE  /\ op'[b].place = "addObject" => op'[b].in \notin visited[op'[b].who]
                 /\ op'[b].next # None => op'[b].next \notin visited[op'[b].who]
      <3>1. CASE b # a
        BY <3>1 DEF Within, Fresh
      <3>2. CASE b = a
        <4>1. op'[a].next # None => op'[a].place \in LeavePlaces
          BY DEF Core, Shape
        <4> QED
          BY <3>2, <4>1 DEF Within, Fresh, LeavePlaces
      <3> QED
        BY <3>1, <3>2
    <2>2. ASSUME NEW p \in Players
          PROVE  /\ \A r \in Rooms, i \in Nat : Queued(r, i, p)' => r \notin visited[p]
                 /\ session[p] = None => visited[p] = {}
                 /\ room[p] # None => room[p] \in visited[p]
      BY <1>2 DEF Fresh
    <2> QED
      BY <2>1, <2>2 DEF Fresh, Within
  <1> QED
    BY <1>3, <1>4

-----------------------------------------------------------------------------
(* Steps that move a player *)

LEMMA AddFacts ==
    ASSUME Core, NEW a \in Actors, AddObject(a), NEW p, p = op[a].who, NEW r, r = op[a].in
    PROVE  /\ op[a].place = "addObject" /\ p \in Players /\ r \in Rooms
           /\ room[p] = None /\ p \notin objects[r] /\ Entering(a, p)
           /\ objects' = [objects EXCEPT ![r] = @ \cup {p}]
           /\ room' = [room EXCEPT ![p] = r]
           /\ visited' = [visited EXCEPT ![p] = @ \cup {r}]
           /\ UNCHANGED <<session, open, jobs, view, astray>>
           /\ calm' => calm /\ ~Busy(a, r)
           /\ op'[a].place = "enterGame" /\ op'[a].who = p /\ op'[a].in = r
           /\ op'[a].next = None
           /\ \A b \in Actors \ {a} : op'[b] = op[b]
  <1>1. /\ op[a] \in Op /\ op[a].place = "addObject" /\ p \in Players /\ r \in Rooms
        /\ op[a].next = None
    BY DEF AddObject, At, Core, Types, Shape, LeavePlaces
  <1>2. Entering(a, p) /\ room[p] = None
    BY <1>1 DEF Entering, Core, Where
  <1>3. p \notin objects[r]
    BY <1>1, <1>2, HomeAssumption DEF Core, RoomAgrees
  <1>4. /\ objects' = [objects EXCEPT ![r] = @ \cup {p}]
        /\ room' = [room EXCEPT ![p] = r]
        /\ visited' = [visited EXCEPT ![p] = @ \cup {r}]
        /\ op' = [op EXCEPT ![a].place = "enterGame"]
        /\ UNCHANGED <<session, open, jobs, view, astray>>
        /\ calm' => calm /\ ~Busy(a, r)
    BY <1>3 DEF AddObject, Goto, people, queues
  <1>5. /\ op'[a].place = "enterGame" /\ op'[a].who = p /\ op'[a].in = r
        /\ op'[a].next = None
        /\ \A b \in Actors \ {a} : op'[b] = op[b]
    BY <1>1, <1>4 DEF Core, Types, Op
  <1> QED
    BY <1>1, <1>2, <1>3, <1>4, <1>5

LEMMA RemoveFacts ==
    ASSUME Core, NEW a \in Actors, RemoveObject(a), NEW p, p = op[a].who, NEW r, r = op[a].in
    PROVE  /\ op[a].place = "removeObject" /\ p \in Players /\ r \in Rooms
           /\ a \in Sessions /\ session[p] = a
           /\ room[p] = r /\ p \in objects[r]
           /\ objects' = [objects EXCEPT ![r] = @ \ {p}]
           /\ room' = [room EXCEPT ![p] = None]
           /\ UNCHANGED <<session, open, jobs, view, visited, astray>>
           /\ calm' => calm /\ ~Busy(a, r)
           /\ op'[a].place = "leaveGame" /\ op'[a].who = p /\ op'[a].in = r
           /\ op'[a].next = op[a].next
           /\ \A b \in Actors \ {a} : op'[b] = op[b]
  <1>1. /\ op[a] \in Op /\ op[a].place = "removeObject" /\ p \in Players /\ r \in Rooms
        /\ a \in Sessions /\ session[p] = a
    BY DEF RemoveObject, At, Core, Types, Shape, LeavePlaces
  <1>2. room[p] = r
    BY <1>1 DEF Leaving, Core, Where
  <1>3. p \in objects[r]
    BY <1>1, <1>2 DEF Core, RoomAgrees
  <1>4. /\ objects' = [objects EXCEPT ![r] = @ \ {p}]
        /\ room' = [room EXCEPT ![p] = None]
        /\ op' = [op EXCEPT ![a].place = "leaveGame"]
        /\ UNCHANGED <<session, open, jobs, view, visited, astray>>
        /\ calm' => calm /\ ~Busy(a, r)
    BY <1>3 DEF RemoveObject, Goto, people, queues
  <1>5. /\ op'[a].place = "leaveGame" /\ op'[a].who = p /\ op'[a].in = r
        /\ op'[a].next = op[a].next
        /\ \A b \in Actors \ {a} : op'[b] = op[b]
    BY <1>1, <1>4 DEF Core, Types, Op
  <1> QED
    BY <1>1, <1>2, <1>3, <1>4, <1>5

LEMMA AddKeepsOutFresh ==
    ASSUME All, NEW a \in Actors, AddObject(a), Out, Fresh
    PROVE  Out' /\ Fresh'
  <1> DEFINE p == op[a].who
             r == op[a].in
  <1>1. /\ op[a].place = "addObject" /\ p \in Players /\ r \in Rooms
        /\ room[p] = None /\ Entering(a, p)
        /\ room' = [room EXCEPT ![p] = r]
        /\ visited' = [visited EXCEPT ![p] = @ \cup {r}]
        /\ UNCHANGED <<session, open, jobs>>
        /\ op'[a].place = "enterGame" /\ op'[a].who = p /\ op'[a].in = r
        /\ op'[a].next = None
        /\ \A b \in Actors \ {a} : op'[b] = op[b]
    BY AddFacts DEF All
  <1>2. /\ \A b \in Actors \ {a} : ~Entering(b, p)
        /\ \A b \in Actors : ~Leaving(b, p)
        /\ \A x \in Rooms, i \in Nat : ~Queued(x, i, p)
        /\ session[p] # None
    <2>1. \A b \in Actors : ~Leaving(b, p)
      <3> SUFFICES ASSUME NEW b \in Actors, Leaving(b, p) PROVE FALSE
        OBVIOUS
      <3>1. room[p] = op[b].in /\ op[b].in \in Rooms
        BY <1>1 DEF All, Core, Where, Shape, Leaving
      <3> QED
        BY <1>1, <3>1, HomeAssumption
    <2> QED
      BY <1>1, <2>1 DEF All, Core, OneEntry, Where
  <1> HIDE DEF p, r
  <1>3. /\ \A b \in Actors, q \in Players : Entering(b, q)' => Entering(b, q) /\ b # a
        /\ \A x \in Rooms, i \in Nat, q \in Players : Queued(x, i, q)' <=> Queued(x, i, q)
    BY <1>1 DEF Entering, Queued
  <1>4. /\ room'[p] = r /\ \A q \in Players \ {p} : room'[q] = room[q]
        /\ \A q \in Players \ {p} : visited'[q] = visited[q]
        /\ visited'[p] = visited[p] \cup {r}
    BY <1>1 DEF All, Core, Types, Rest
  <1>5. Out'
    <2> SUFFICES ASSUME NEW b \in Actors, NEW q, q = op'[b].who,
                        op'[b].place \in LeavePlaces \ {"removeObject"}
                 PROVE  /\ room'[q] = None
                        /\ \A c \in Actors \ {b} : ~Entering(c, q)'
                        /\ \A x \in Rooms, i \in Nat : ~Queued(x, i, q)'
      BY DEF Out, Entering, Queued
    <2>1. b # a /\ q = op[b].who /\ op[b].place \in LeavePlaces \ {"removeObject"}
      BY <1>1 DEF LeavePlaces
    <2>2. q \in Players
      BY <2>1 DEF All, Core, Shape, LeavePlaces
    <2>3. q # p
      BY <1>1, <2>1 DEF Out
    <2> QED
      BY <1>3, <1>4, <2>1, <2>2, <2>3 DEF Out
  <1>6. Fresh'
    <2>1. ASSUME NEW b \in Actors
          PROVE  /\ op'[b].place = "addObject" => op'[b].in \notin visited'[op'[b].who]
                 /\ op'[b].next # None => op'[b].next \notin visited'[op'[b].who]
      <3>1. CASE b = a
        BY <1>1, <3>1
      <3>2. CASE b # a
        <4>1. op'[b] = op[b]
          BY <1>1, <3>2
        <4>2. op[b].next # None => op[b].place # "idle"
          BY DEF All, Core, Shape, LeavePlaces
        <4>3. op[b].place = "addObject" \/ op[b].next # None => op[b].who \in Players \ {p}
          BY <1>2, <3>2, <4>2 DEF All, Core, Shape, Entering, Leaving
        <4> QED
          BY <1>4, <4>1, <4>3 DEF Fresh
      <3> QED
        BY <3>1, <3>2
    <2>2. ASSUME NEW q \in Players
          PROVE  /\ \A x \in Rooms, i \in Nat : Queued(x, i, q)' => x \notin visited'[q]
                 /\ session[q] = None => visited'[q] = {}
                 /\ room'[q] # None => room'[q] \in visited'[q]
      <3>1. CASE q = p
        BY <1>2, <1>3, <1>4, <3>1
      <3>2. CASE q # p
        BY <1>3, <1>4, <3>2 DEF Fresh
      <3> QED
        BY <3>1, <3>2
    <2> QED
      BY <1>1, <2>1, <2>2 DEF Fresh
  <1> QED
    BY <1>5, <1>6

LEMMA RemoveKeepsOutFresh ==
    ASSUME All, NEW a \in Actors, RemoveObject(a), Out, Fresh
    PROVE  Out' /\ Fresh'
  <1> DEFINE p == op[a].who
             r == op[a].in
  <1>1. /\ op[a].place = "removeObject" /\ p \in Players /\ r \in Rooms
        /\ room[p] = r /\ a \in Sessions /\ session[p] = a
        /\ room' = [room EXCEPT ![p] = None]
        /\ UNCHANGED <<session, open, jobs, visited>>
        /\ op'[a].place = "leaveGame" /\ op'[a].who = p /\ op'[a].in = r
        /\ op'[a].next = op[a].next
        /\ \A b \in Actors \ {a} : op'[b] = op[b]
    BY RemoveFacts DEF All
  <1>2. /\ \A b \in Actors : ~Entering(b, p)
        /\ \A x \in Rooms, i \in Nat : ~Queued(x, i, p)
    BY <1>1, HomeAssumption DEF All, Core, Where
  <1> HIDE DEF p, r
  <1>3. /\ \A b \in Actors \ {a}, q \in Players : Entering(b, q)' => Entering(b, q)
        /\ \A q \in Players : Entering(a, q)' => q = p
        /\ \A x \in Rooms, i \in Nat, q \in Players : Queued(x, i, q)' <=> Queued(x, i, q)
    BY <1>1 DEF Entering, Queued
  <1>4. room'[p] = None /\ \A q \in Players \ {p} : room'[q] = room[q]
    BY <1>1 DEF All, Core, Types
  <1>5. Out'
    <2> SUFFICES ASSUME NEW b \in Actors, NEW q, q = op'[b].who,
                        op'[b].place \in LeavePlaces \ {"removeObject"}
                 PROVE  /\ room'[q] = None
                        /\ \A c \in Actors \ {b} : ~Entering(c, q)'
                        /\ \A x \in Rooms, i \in Nat : ~Queued(x, i, q)'
      BY DEF Out, Entering, Queued
    <2>1. CASE b = a
      BY <1>1, <1>2, <1>3, <1>4, <2>1
    <2>2. CASE b # a
      <3>1. q = op[b].who /\ op[b].place \in LeavePlaces \ {"removeObject"}
        BY <1>1, <2>2
      <3>2. q \in Players
        BY <3>1 DEF All, Core, Shape, LeavePlaces
      <3>3. q # p
        BY <1>1, <3>1, HomeAssumption DEF Out
      <3> QED
        BY <1>3, <1>4, <2>2, <3>1, <3>2, <3>3 DEF Out
    <2> QED
      BY <2>1, <2>2
  <1>6. Fresh'
    <2>1. ASSUME NEW b \in Actors
          PROVE  /\ op'[b].place = "addObject" => op'[b].in \notin visited[op'[b].who]
                 /\ op'[b].next # None => op'[b].next \notin visited[op'[b].who]
      <3>1. CASE b = a
        BY <1>1, <3>1 DEF Fresh, p
      <3>2. CASE b # a
        BY <1>1, <3>2 DEF Fresh
      <3> QED
        BY <3>1, <3>2
    <2>2. ASSUME NEW q \in Players
          PROVE  /\ \A x \in Rooms, i \in Nat : Queued(x, i, q)' => x \notin visited[q]
                 /\ session[q] = None => visited[q] = {}
                 /\ room'[q] # None => room'[q] \in visited[q]
      BY <1>3, <1>4 DEF Fresh
    <2> QED
      BY <1>1, <2>1, <2>2 DEF Fresh
  <1> QED
    BY <1>5, <1>6

-----------------------------------------------------------------------------
(* A step of the only operation inside of a room *)

\* a takes a step in its room, where nobody else is inside; elsewhere nothing
\* changes, nor for the clients of those who are there.
Acts(a) ==
    /\ op[a].in \in Rooms /\ UNCHANGED <<session, open>>
    /\ \A b \in Actors \ {a} : op'[b] = op[b] /\ ~Inside(b, op[a].in)
    /\ \A q \in Players : visited[q] \subseteq visited'[q]
    /\ \A x \in Rooms \ {op[a].in} :
          /\ objects'[x] = objects[x] /\ ~Inside(a, x)'
          /\ \A q \in objects[x] : view'[session[q]] = view[session[q]]

LEMMA SeenBefore ==
    ASSUME NEW a \in Actors, Acts(a), NEW r, r = op[a].in, NEW q \in Players, Sees(r, q),
           NEW v, v = view[session[q]], NEW x \in Players
    PROVE  /\ v[x] # "absent" => r \in visited[x]
           /\ x \in objects[r] => v[x] # "destroyed"
           /\ v[x] = "shown" <=> \/ x \in objects[r] /\ ~(Inside(a, r) /\ Untold(a, q, x))
                                 \/ Inside(a, r) /\ Lingers(a, x)
  <1>1. Unheard(r, q, x) <=> Inside(a, r) /\ Untold(a, q, x)
    BY DEF Acts, Unheard
  <1>2. Lingering(r, x) <=> Inside(a, r) /\ Lingers(a, x)
    BY DEF Acts, Lingering
  <1> QED
    BY <1>1, <1>2 DEF Sees

LEMMA SeenAfter ==
    ASSUME NEW a \in Actors, Acts(a), NEW r, r = op[a].in, NEW q \in Players,
           NEW v, v = view'[session[q]],
           \A x \in Players :
              /\ v[x] # "absent" => r \in visited'[x]
              /\ x \in objects'[r] => v[x] # "destroyed"
              /\ v[x] = "shown" <=> \/ x \in objects'[r] /\ ~(Inside(a, r)' /\ Untold(a, q, x)')
                                    \/ Inside(a, r)' /\ Lingers(a, x)'
    PROVE  Sees(r, q)'
  <1>1. \A b \in Actors \ {a} : ~Inside(b, r)'
    BY DEF Acts, Inside
  <1>2. \A x \in Players : Unheard(r, q, x)' <=> Inside(a, r)' /\ Untold(a, q, x)'
    BY <1>1 DEF Unheard
  <1>3. \A x \in Players : Lingering(r, x)' <=> Inside(a, r)' /\ Lingers(a, x)'
    BY <1>1 DEF Lingering
  <1>4. session' = session
    BY DEF Acts
  <1> QED
    BY <1>2, <1>3, <1>4 DEF Sees

LEMMA ActsKeepsCalm ==
    ASSUME Core, Core', NEW a \in Actors, Acts(a), calm, Calm, NEW r, r = op[a].in,
           AttendedBy(a)', Unseeing', ~astray',
           \A q \in objects'[r] : session[q] \in open => Sees(r, q)'
    PROVE  Calm'
  <1>1. Alone /\ OneInside /\ Attended /\ Seeing
    BY DEF Calm
  <1>2. Alone'
    BY <1>1 DEF Acts, Alone
  <1>3. /\ \A b \in Actors \ {a}, x \in Rooms : Inside(b, x)' <=> Inside(b, x)
        /\ \A b \in Actors \ {a} : ~Inside(b, r)
        /\ \A x \in Rooms \ {r} : ~Inside(a, x)'
    BY DEF Acts, Inside
  <1>4. OneInside'
    BY <1>1, <1>3 DEF OneInside
  <1>5. ASSUME NEW b \in Actors \ {a} PROVE AttendedBy(b)'
    <2>1. op'[b] = op[b]
      BY DEF Acts
    <2>2. ASSUME Attends(b) PROVE objects'[op[b].in] = objects[op[b].in]
      <3>1. op[b].in \in Rooms
        BY <2>2 DEF Core, Shape, Attends
      <3>2. Inside(b, op[b].in)
        BY <2>2 DEF Attends, Inside
      <3>3. op[b].in # r
        BY <1>3, <3>2
      <3> QED
        BY <3>1, <3>3 DEF Acts
    <2>3. AttendedBy(b)
      BY <1>1 DEF Attended
    <2> QED
      BY <2>1, <2>2, <2>3 DEF AttendedBy, Attends
  <1>6. Attended'
    BY <1>5 DEF Attended
  <1>7. ASSUME NEW x \in Rooms, NEW q \in objects'[x], session[q] \in open
        PROVE  Sees(x, q)'
    <2>1. CASE x = r
      BY <1>7, <2>1
    <2>2. CASE x # r
      <3>1. q \in objects[x] /\ view'[session[q]] = view[session[q]] /\ session' = session
            /\ objects'[x] = objects[x]
        BY <2>2 DEF Acts
      <3>2. q \in Players /\ Sees(x, q)
        BY <1>1, <1>7, <3>1, Inmate DEF Seeing
      <3>3. ~Inside(a, x)
        <4> SUFFICES ASSUME Inside(a, x) PROVE FALSE
          OBVIOUS
        <4> QED
          BY <2>2 DEF Inside
      <3>4. ASSUME NEW y \in Players
            PROVE  /\ Unheard(x, q, y)' <=> Unheard(x, q, y)
                   /\ Lingering(x, y)' <=> Lingering(x, y)
        <4>1. \A b \in Actors : Inside(b, x)' <=> Inside(b, x)
          BY <1>3, <2>2, <3>3
        <4>2. \A b \in Actors : Inside(b, x) => op'[b] = op[b]
          BY <3>3 DEF Acts
        <4> QED
          BY <4>1, <4>2 DEF Unheard, Untold, Lingering, Lingers
      <3>5. \A y \in Players : x \in visited[y] => x \in visited'[y]
        BY DEF Acts
      <3> QED
        BY <3>1, <3>2, <3>4, <3>5 DEF Sees
    <2> QED
      BY <2>1, <2>2
  <1>8. Seeing'
    BY <1>7 DEF Seeing, Acts
  <1> QED
    BY <1>2, <1>4, <1>6, <1>8 DEF Calm

\* A step that tells something, at most to the client of the player and to
\* those of the others in the room.
LEMMA WithinActs ==
    ASSUME Core, NEW a \in Actors, Within(a), Alone, Out, AttendedBy(a), NEW r, r = op[a].in,
           \A b \in Actors \ {a} : ~Inside(b, r),
           NEW T, T \subseteq {session[op[a].who]} \cup {session[q] : q \in objects[r]},
           op[a].place = "find" => T = {},
           \A s \in Sessions \ T : view'[s] = view[s]
    PROVE  Acts(a)
  <1> DEFINE p == op[a].who
  <1>1. /\ op[a].place \notin {"idle", "addObject", "removeObject"} /\ p \in Players /\ r \in Rooms
        /\ op[a] \in Op
    BY DEF Within, Core, Shape, Types
  <1>2. CASE op[a].place = "find"
    <2>1. \A x \in Rooms : \A q \in objects[x] : view'[session[q]] = view[session[q]]
      BY <1>2, Inmate
    <2> QED
      BY <1>1, <2>1 DEF Acts, Within, Inside
  <1>3. CASE op[a].place # "find"
    <2>1. room[p] \in {r, None}
      <3>1. CASE Attends(a)
        <4>1. p \in objects[r]
          BY <3>1 DEF AttendedBy
        <4> QED
          BY <1>1, <4>1, Inmate
      <3>2. CASE op[a].place \in LeavePlaces \ {"removeObject"}
        BY <3>2 DEF Out
      <3>3. op[a].place \in Places
        BY <1>1 DEF Op
      <3> QED
        BY <1>1, <1>3, <3>1, <3>2, <3>3 DEF Attends, LeavePlaces, Places, EnterPlaces
    <2>2. ASSUME NEW x \in Rooms \ {r}, NEW q \in objects[x]
          PROVE  view'[session[q]] = view[session[q]]
      <3>1. q \in Players /\ room[q] = x /\ session[q] \in Sessions /\ session[q] # None
        BY Inmate, ActorsAssumption
      <3>2. session[q] # session[p]
        BY <1>1, <2>1, <3>1, HomeAssumption DEF Alone
      <3>3. \A y \in objects[r] : session[y] # session[q]
        <4> SUFFICES ASSUME NEW y \in objects[r], session[y] = session[q] PROVE FALSE
          OBVIOUS
        <4>1. y \in Players /\ room[y] = r
          BY <1>1, Inmate
        <4> QED
          BY <3>1, <4>1 DEF Alone
      <3> QED
        BY <3>1, <3>2, <3>3
    <2> QED
      BY <1>1, <2>2 DEF Acts, Within, Inside
  <1> QED
    BY <1>2, <1>3

LEMMA StillUnseeing ==
    ASSUME open \subseteq Sessions, NEW a \in Actors, Within(a), op[a].place # "leaveGame", Unseeing,
           \A s \in open : \/ view'[s] = view[s]
                           \/ \E p \in Players : session[p] = s /\ room[p] # None
    PROVE  Unseeing'
  <1> SUFFICES ASSUME NEW s \in open
               PROVE  \/ view'[s] = Client!EmptyView
                      \/ \E p \in Players :
                            /\ session[p] = s
                            /\ room[p] # None \/ (op'[s].who = p /\ op'[s].place = "leaveGame")
    BY DEF Unseeing, Within
  <1>1. CASE \E p \in Players : session[p] = s /\ room[p] # None
    BY <1>1
  <1>2. CASE view'[s] = view[s] /\ ~\E p \in Players : session[p] = s /\ room[p] # None
    <2>1. \/ view[s] = Client!EmptyView
          \/ \E p \in Players : session[p] = s /\ op[s].who = p /\ op[s].place = "leaveGame"
      BY <1>2 DEF Unseeing
    <2>2. op[s].place = "leaveGame" => op'[s] = op[s]
      BY DEF Within, Actors
    <2> QED
      BY <1>2, <2>1, <2>2 DEF Actors
  <1> QED
    BY <1>1, <1>2

-----------------------------------------------------------------------------
(* What each step of an operation tells *)

\* What is known of the room r, and of the client of each player q that is in
\* it, when a is the only one inside, with an operation about p.
Around(a, p, r) ==
    /\ calm /\ Core /\ Core' /\ Out /\ Fresh /\ Calm /\ open \subseteq Sessions
    /\ Alone /\ OneInside /\ Attended /\ Seeing /\ Unseeing /\ ~astray
    /\ UNCHANGED <<objects, room, session, open, visited>>
    /\ p \in Players /\ r \in Rooms /\ session[p] \in Sessions
    /\ op[a] \in Op /\ op \in [Actors -> Op] /\ Inside(a, r)
    /\ \A b \in Actors \ {a} : ~Inside(b, r)
    /\ Attends(a) => p \in objects[r]
    /\ ~Attends(a) => /\ op[a].place \in {"leaveGame", "despawn", "despawnSelf"}
                      /\ room[p] = None /\ p \notin objects[r] /\ session[p] = a
    /\ \A q \in objects[r] :
          /\ q \in Players /\ room[q] = r /\ session[q] \in Sessions
          /\ r \in visited[q] /\ (q # p => session[q] # session[p])
          /\ session[q] \in open => \A x \in Players :
                LET v == view[session[q]] IN
                /\ v[x] \in {"absent", "shown", "destroyed"}
                /\ v[x] # "absent" => r \in visited[x]
                /\ x \in objects[r] => v[x] # "destroyed"
                /\ v[x] = "shown" <=> (x \in objects[r] /\ ~Untold(a, q, x)) \/ Lingers(a, x)

LEMMA InsideFacts ==
    ASSUME All, All', Views, NEW a \in Actors, Within(a), calm', op[a].place # "find",
           NEW p, p = op[a].who, NEW r, r = op[a].in
    PROVE  Around(a, p, r)
  <1>1. /\ calm /\ Core /\ Core' /\ Out /\ Fresh /\ Calm /\ open \subseteq Sessions
        /\ Alone /\ OneInside /\ Attended /\ Seeing /\ Unseeing /\ ~astray
        /\ UNCHANGED <<objects, room, session, open, visited>>
    BY DEF Within, All, Views, Calm
  <1>2. /\ op[a].place \notin {"idle", "addObject", "removeObject", "find"}
        /\ op[a] \in Op /\ op \in [Actors -> Op]
    BY <1>1 DEF Within, Core, Types
  <1>3. p \in Players /\ r \in Rooms /\ Inside(a, r)
    BY <1>1, <1>2 DEF Core, Shape, Inside
  <1>4. \A b \in Actors \ {a} : ~Inside(b, r)
    BY <1>1, <1>3 DEF OneInside
  <1>5. Attends(a) => p \in objects[r]
    BY <1>1 DEF Attended, AttendedBy
  <1>6. ASSUME ~Attends(a)
        PROVE  /\ op[a].place \in {"leaveGame", "despawn", "despawnSelf"}
               /\ room[p] = None /\ p \notin objects[r] /\ session[p] = a /\ a \in Sessions
    <2>1. op[a].place \in {"leaveGame", "despawn", "despawnSelf"}
      BY <1>2, <1>6 DEF Attends, Op, Places, EnterPlaces, LeavePlaces
    <2>2. room[p] = None /\ session[p] = a /\ a \in Sessions
      BY <1>1, <2>1 DEF Out, LeavePlaces, Core, Shape
    <2>3. p \notin objects[r]
      BY <1>1, <1>3, <2>2, HomeAssumption DEF Core, RoomAgrees
    <2> QED
      BY <2>1, <2>2, <2>3
  <1>7. session[p] \in Sessions
    BY <1>1, <1>3, <1>5, <1>6, Inmate
  <1>8. ASSUME NEW q \in objects[r]
        PROVE  /\ q \in Players /\ room[q] = r /\ session[q] \in Sessions
               /\ r \in visited[q] /\ (q # p => session[q] # session[p])
    <2>1. q \in Players /\ room[q] = r /\ session[q] \in Sessions
      BY <1>1, <1>3, Inmate
    <2>2. r \in visited[q]
      BY <1>1, <1>3, <2>1, HomeAssumption DEF Fresh
    <2> QED
      BY <1>1, <1>3, <2>1, <2>2, ActorsAssumption DEF Alone
  <1>9. ASSUME NEW q \in objects[r], session[q] \in open, NEW x \in Players,
               NEW v, v = view[session[q]]
        PROVE  /\ v[x] \in {"absent", "shown", "destroyed"}
               /\ v[x] # "absent" => r \in visited[x]
               /\ x \in objects[r] => v[x] # "destroyed"
               /\ v[x] = "shown" <=> (x \in objects[r] /\ ~Untold(a, q, x)) \/ Lingers(a, x)
    <2>1. v[x] \in {"absent", "shown", "destroyed"}
      BY <1>1, <1>9 DEF All, Rest, Client!View
    <2>2. Sees(r, q)
      BY <1>1, <1>3, <1>9 DEF Seeing
    <2>3. Unheard(r, q, x) <=> Untold(a, q, x)
      BY <1>3, <1>4 DEF Unheard
    <2>4. Lingering(r, x) <=> Lingers(a, x)
      BY <1>3, <1>4 DEF Lingering
    <2> QED
      BY <1>9, <2>1, <2>2, <2>3, <2>4 DEF Sees
  <1> QED
    BY <1>1, <1>2, <1>3, <1>4, <1>5, <1>6, <1>7, <1>8, <1>9 DEF Around


LEMMA TellEnteredKeepsCalm ==
    ASSUME All, All', Views, NEW a \in Actors, TellEntered(a), calm',
           NEW p, p = op[a].who, NEW r, r = op[a].in
    PROVE  Calm'
  <1>1. op[a].place = "enterGame" /\ astray' = astray /\ Within(a) /\ Attends(a)
    BY WithinStep DEF TellEntered, At, history, All, Attends
  <1>2. Around(a, p, r)
    BY <1>1, InsideFacts
  <1>3. \A s \in Sessions : view'[s] = IF s \in {session[p]} \cap open
                                       THEN Client!Spawned(view[s], {p}) ELSE view[s]
    BY DEF TellEntered, Told
  <1>4. op'[a].place = "spawn" /\ op'[a].who = p /\ op'[a].in = r
    BY <1>2 DEF TellEntered, Goto, Op, Around
  <1>5. Acts(a)
    <2>1. PICK T : T = {session[p]}
      OBVIOUS
    <2>2. T \subseteq {session[op[a].who]} \cup {session[q] : q \in objects[r]}
      BY <2>1
    <2>3. \A s \in Sessions \ T : view'[s] = view[s]
      BY <1>3, <2>1
    <2> QED
      BY <1>1, <1>2, <2>2, <2>3, WithinActs DEF Attended, Around
  <1>6. AttendedBy(a)'
    BY <1>1, <1>2, <1>4 DEF AttendedBy, Attends, Around
  <1>7. ASSUME NEW q \in objects'[r], session[q] \in open
        PROVE  Sees(r, q)'
    <2>1. q \in objects[r] /\ q \in Players
      BY <1>2 DEF Around
    <2>2. PICK v, w : v = view[session[q]] /\ w = view'[session[q]]
      OBVIOUS
    <2>3. w = IF q = p THEN Client!Spawned(v, {p}) ELSE v
      BY <1>1, <1>2, <1>3, <1>7, <2>1, <2>2 DEF Around
    <2>4. ASSUME NEW x \in Players
          PROVE  /\ w[x] # "absent" => r \in visited'[x]
                 /\ x \in objects'[r] => w[x] # "destroyed"
                 /\ w[x] = "shown" <=>
                       \/ x \in objects'[r] /\ ~(Inside(a, r)' /\ Untold(a, q, x)')
                       \/ Inside(a, r)' /\ Lingers(a, x)'
      <3>1. /\ v[x] \in {"absent", "shown", "destroyed"}
            /\ v[x] # "absent" => r \in visited[x]
            /\ x \in objects[r] => v[x] # "destroyed"
            /\ v[x] = "shown" <=> x \in objects[r] /\ q # p /\ x # p
        BY <1>1, <1>2, <1>7, <2>1, <2>2 DEF Untold, Lingers, Around
      <3>2. /\ Inside(a, r)' /\ ~Lingers(a, x)'
            /\ Untold(a, q, x)' <=> IF q = p THEN x # p ELSE x = p
        BY <1>4 DEF Inside, Untold, Lingers
      <3> QED
        BY <1>1, <1>2, <2>1, <2>3, <3>1, <3>2 DEF Client!Spawned, Around
    <2> QED
      BY <1>5, <2>1, <2>2, <2>4, SeenAfter
  <1>8. Unseeing'
    <2>1. \A s \in open : view'[s] = view[s] \/ \E q \in Players : session[q] = s /\ room[q] # None
      BY <1>1, <1>2, <1>3, HomeAssumption DEF Around
    <2> QED
      BY <1>1, <1>2, <2>1, StillUnseeing DEF Around
  <1> QED
    BY <1>1, <1>2, <1>5, <1>6, <1>7, <1>8, ActsKeepsCalm DEF Around

LEMMA TellSpawnKeepsCalm ==
    ASSUME All, All', Views, NEW a \in Actors, TellSpawn(a), calm',
           NEW p, p = op[a].who, NEW r, r = op[a].in
    PROVE  Calm'
  <1>1. op[a].place = "spawn" /\ astray' = astray /\ Within(a) /\ Attends(a)
    BY WithinStep DEF TellSpawn, At, history, All, Attends
  <1>2. Around(a, p, r)
    BY <1>1, InsideFacts
  <1>3. \A s \in Sessions : view'[s] = IF s \in Others(r, p) \cap open
                                       THEN Client!Spawned(view[s], {p}) ELSE view[s]
    BY DEF TellSpawn, Told
  <1>4. op'[a].place = "list" /\ op'[a].who = p /\ op'[a].in = r
    BY <1>2 DEF TellSpawn, Goto, Op, Around
  <1>5. Acts(a)
    <2>1. PICK T : T = Others(r, p)
      OBVIOUS
    <2>2. T \subseteq {session[op[a].who]} \cup {session[q] : q \in objects[r]}
      BY <2>1 DEF Others
    <2>3. \A s \in Sessions \ T : view'[s] = view[s]
      BY <1>3, <2>1
    <2> QED
      BY <1>1, <1>2, <2>2, <2>3, WithinActs DEF Attended, Around
  <1>6. AttendedBy(a)'
    BY <1>1, <1>2, <1>4 DEF AttendedBy, Attends, Around
  <1>7. ASSUME NEW q \in objects'[r], session[q] \in open
        PROVE  Sees(r, q)'
    <2>1. q \in objects[r] /\ q \in Players
      BY <1>2 DEF Around
    <2>2. PICK v, w : v = view[session[q]] /\ w = view'[session[q]]
      OBVIOUS
    <2>3. w = IF q # p THEN Client!Spawned(v, {p}) ELSE v
      <3>1. session[q] \in Others(r, p) <=> q # p
        BY <1>2, <2>1 DEF Around, Others
      <3>2. session[q] \in Sessions
        BY <1>2, <2>1 DEF Around
      <3> QED
        BY <1>1, <1>2, <1>3, <1>7, <2>1, <2>2, <3>1, <3>2 DEF Around
    <2>4. ASSUME NEW x \in Players
          PROVE  /\ w[x] # "absent" => r \in visited'[x]
                 /\ x \in objects'[r] => w[x] # "destroyed"
                 /\ w[x] = "shown" <=>
                       \/ x \in objects'[r] /\ ~(Inside(a, r)' /\ Untold(a, q, x)')
                       \/ Inside(a, r)' /\ Lingers(a, x)'
      <3>1. /\ v[x] \in {"absent", "shown", "destroyed"}
            /\ v[x] # "absent" => r \in visited[x]
            /\ x \in objects[r] => v[x] # "destroyed"
            /\ v[x] = "shown" <=> x \in objects[r] /\ (IF q = p THEN x = p ELSE x # p)
        BY <1>1, <1>2, <1>7, <2>1, <2>2 DEF Untold, Lingers, Around
      <3>2. /\ Inside(a, r)' /\ ~Lingers(a, x)'
            /\ Untold(a, q, x)' <=> q = p /\ x # p
        BY <1>4 DEF Inside, Untold, Lingers
      <3> QED
        BY <1>1, <1>2, <2>1, <2>3, <3>1, <3>2 DEF Client!Spawned, Around
    <2> QED
      BY <1>5, <2>1, <2>2, <2>4, SeenAfter
  <1>8. Unseeing'
    <2>1. \A s \in open : view'[s] = view[s] \/ \E q \in Players : session[q] = s /\ room[q] # None
      BY <1>1, <1>2, <1>3, HomeAssumption DEF Around, Others
    <2> QED
      BY <1>1, <1>2, <2>1, StillUnseeing DEF Around
  <1> QED
    BY <1>1, <1>2, <1>5, <1>6, <1>7, <1>8, ActsKeepsCalm DEF Around

LEMMA CollectListKeepsCalm ==
    ASSUME All, All', Views, NEW a \in Actors, CollectList(a), calm',
           NEW p, p = op[a].who, NEW r, r = op[a].in
    PROVE  Calm'
  <1>1. op[a].place = "list" /\ astray' = astray /\ Within(a) /\ Attends(a)
    BY WithinStep DEF CollectList, At, history, All, Attends
  <1>2. Around(a, p, r)
    BY <1>1, InsideFacts
  <1>3. view' = view
    BY DEF CollectList
  <1>4. /\ op'[a].place = "sendList" /\ op'[a].who = p /\ op'[a].in = r
        /\ op'[a].list = objects[r]
    BY <1>2 DEF CollectList, Op, Around
  <1>5. Acts(a)
    <2>1. PICK T : T = {}
      OBVIOUS
    <2>2. T \subseteq {session[op[a].who]} \cup {session[q] : q \in objects[r]}
      BY <2>1
    <2>3. \A s \in Sessions \ T : view'[s] = view[s]
      BY <1>3, <2>1
    <2> QED
      BY <1>1, <1>2, <2>2, <2>3, WithinActs DEF Attended, Around
  <1>6. AttendedBy(a)'
    BY <1>1, <1>2, <1>4 DEF AttendedBy, Attends, Around
  <1>7. ASSUME NEW q \in objects'[r], session[q] \in open
        PROVE  Sees(r, q)'
    <2>1. q \in objects[r] /\ q \in Players
      BY <1>2 DEF Around
    <2>2. PICK v, w : v = view[session[q]] /\ w = view'[session[q]]
      OBVIOUS
    <2>3. w = v
      BY <1>1, <1>2, <1>3, <1>7, <2>1, <2>2 DEF Around
    <2>4. ASSUME NEW x \in Players
          PROVE  /\ w[x] # "absent" => r \in visited'[x]
                 /\ x \in objects'[r] => w[x] # "destroyed"
                 /\ w[x] = "shown" <=>
                       \/ x \in objects'[r] /\ ~(Inside(a, r)' /\ Untold(a, q, x)')
                       \/ Inside(a, r)' /\ Lingers(a, x)'
      <3>1. /\ v[x] \in {"absent", "shown", "destroyed"}
            /\ v[x] # "absent" => r \in visited[x]
            /\ x \in objects[r] => v[x] # "destroyed"
            /\ v[x] = "shown" <=> x \in objects[r] /\ (q = p => x = p)
        BY <1>1, <1>2, <1>7, <2>1, <2>2 DEF Untold, Lingers, Around
      <3>2. /\ Inside(a, r)' /\ ~Lingers(a, x)'
            /\ Untold(a, q, x)' <=> q = p /\ x # p
        BY <1>4 DEF Inside, Untold, Lingers
      <3> QED
        BY <1>1, <1>2, <2>1, <2>3, <3>1, <3>2 DEF Client!Spawned, Around
    <2> QED
      BY <1>5, <2>1, <2>2, <2>4, SeenAfter
  <1>8. Unseeing'
    <2>1. \A s \in open : view'[s] = view[s] \/ \E q \in Players : session[q] = s /\ room[q] # None
      BY <1>1, <1>2, <1>3, HomeAssumption DEF Around
    <2> QED
      BY <1>1, <1>2, <2>1, StillUnseeing DEF Around
  <1> QED
    BY <1>1, <1>2, <1>5, <1>6, <1>7, <1>8, ActsKeepsCalm DEF Around

LEMMA TellListKeepsCalm ==
    ASSUME All, All', Views, NEW a \in Actors, TellList(a), calm',
           NEW p, p = op[a].who, NEW r, r = op[a].in
    PROVE  Calm'
  <1>1. op[a].place = "sendList" /\ astray' = astray /\ Within(a) /\ Attends(a)
    BY WithinStep DEF TellList, At, history, All, Attends
  <1>2. Around(a, p, r)
    BY <1>1, InsideFacts
  <1>3. \A s \in Sessions : view'[s] = IF s \in {session[p]} \cap open
                                       THEN Client!Spawned(view[s], objects[r]) ELSE view[s]
    <2>1. op[a].list = objects[r]
      BY <1>1, <1>2 DEF Around, Attended, AttendedBy
    <2> QED
      BY <2>1 DEF TellList, Told
  <1>4. op'[a].place = "idle"
    BY <1>2, IdleFields DEF TellList, Around
  <1>5. Acts(a)
    <2>1. PICK T : T = {session[p]}
      OBVIOUS
    <2>2. T \subseteq {session[op[a].who]} \cup {session[q] : q \in objects[r]}
      BY <2>1
    <2>3. \A s \in Sessions \ T : view'[s] = view[s]
      BY <1>3, <2>1
    <2> QED
      BY <1>1, <1>2, <2>2, <2>3, WithinActs DEF Attended, Around
  <1>6. AttendedBy(a)'
    BY <1>1, <1>2, <1>4 DEF AttendedBy, Attends, Around
  <1>7. ASSUME NEW q \in objects'[r], session[q] \in open
        PROVE  Sees(r, q)'
    <2>1. q \in objects[r] /\ q \in Players
      BY <1>2 DEF Around
    <2>2. PICK v, w : v = view[session[q]] /\ w = view'[session[q]]
      OBVIOUS
    <2>3. w = IF q = p THEN Client!Spawned(v, objects[r]) ELSE v
      BY <1>1, <1>2, <1>3, <1>7, <2>1, <2>2 DEF Around
    <2>4. ASSUME NEW x \in Players
          PROVE  /\ w[x] # "absent" => r \in visited'[x]
                 /\ x \in objects'[r] => w[x] # "destroyed"
                 /\ w[x] = "shown" <=>
                       \/ x \in objects'[r] /\ ~(Inside(a, r)' /\ Untold(a, q, x)')
                       \/ Inside(a, r)' /\ Lingers(a, x)'
      <3>1. /\ v[x] \in {"absent", "shown", "destroyed"}
            /\ v[x] # "absent" => r \in visited[x]
            /\ x \in objects[r] => v[x] # "destroyed"
            /\ v[x] = "shown" <=> x \in objects[r] /\ (q = p => x = p)
        BY <1>1, <1>2, <1>7, <2>1, <2>2 DEF Untold, Lingers, Around
      <3>2. ~Inside(a, r)'
        BY <1>4 DEF Inside, Untold, Lingers
      <3> QED
        BY <1>1, <1>2, <2>1, <2>3, <3>1, <3>2 DEF Client!Spawned, Around
    <2> QED
      BY <1>5, <2>1, <2>2, <2>4, SeenAfter
  <1>8. Unseeing'
    <2>1. \A s \in open : view'[s] = view[s] \/ \E q \in Players : session[q] = s /\ room[q] # None
      BY <1>1, <1>2, <1>3, HomeAssumption DEF Around
    <2> QED
      BY <1>1, <1>2, <2>1, StillUnseeing DEF Around
  <1> QED
    BY <1>1, <1>2, <1>5, <1>6, <1>7, <1>8, ActsKeepsCalm DEF Around

LEMMA TellLeftKeepsCalm ==
    ASSUME All, All', Views, NEW a \in Actors, TellLeft(a), calm',
           NEW p, p = op[a].who, NEW r, r = op[a].in
    PROVE  Calm'
  <1>1. op[a].place = "leaveGame" /\ astray' = astray /\ Within(a) /\ ~Attends(a)
    BY WithinStep DEF TellLeft, At, history, All, Attends
  <1>2. Around(a, p, r)
    BY <1>1, InsideFacts
  <1>3. \A s \in Sessions : view'[s] = IF s \in {session[p]} \cap open
                                       THEN Client!Cleared(view[s]) ELSE view[s]
    BY DEF TellLeft, Told
  <1>4. op'[a].place = "despawn" /\ op'[a].who = p /\ op'[a].in = r
    BY <1>2 DEF TellLeft, Goto, Op, Around
  <1>5. Acts(a)
    <2>1. PICK T : T = {session[p]}
      OBVIOUS
    <2>2. T \subseteq {session[op[a].who]} \cup {session[q] : q \in objects[r]}
      BY <2>1
    <2>3. \A s \in Sessions \ T : view'[s] = view[s]
      BY <1>3, <2>1
    <2> QED
      BY <1>1, <1>2, <2>2, <2>3, WithinActs, SMTT(30) DEF Attended, Around
  <1>6. AttendedBy(a)'
    BY <1>1, <1>2, <1>4 DEF AttendedBy, Attends, Around
  <1>7. ASSUME NEW q \in objects'[r], session[q] \in open
        PROVE  Sees(r, q)'
    <2>1. q \in objects[r] /\ q \in Players
      BY <1>2 DEF Around
    <2>2. PICK v, w : v = view[session[q]] /\ w = view'[session[q]]
      OBVIOUS
    <2>3. w = v
      BY <1>1, <1>2, <1>3, <1>7, <2>1, <2>2 DEF Around
    <2>4. ASSUME NEW x \in Players
          PROVE  /\ w[x] # "absent" => r \in visited'[x]
                 /\ x \in objects'[r] => w[x] # "destroyed"
                 /\ w[x] = "shown" <=>
                       \/ x \in objects'[r] /\ ~(Inside(a, r)' /\ Untold(a, q, x)')
                       \/ Inside(a, r)' /\ Lingers(a, x)'
      <3>1. /\ v[x] \in {"absent", "shown", "destroyed"}
            /\ v[x] # "absent" => r \in visited[x]
            /\ x \in objects[r] => v[x] # "destroyed"
            /\ v[x] = "shown" <=> x \in objects[r] \/ x = p
        BY <1>1, <1>2, <1>7, <2>1, <2>2 DEF Untold, Lingers, Around
      <3>2. Inside(a, r)' /\ ~Untold(a, q, x)' /\ (Lingers(a, x)' <=> x = p)
        BY <1>4 DEF Inside, Untold, Lingers
      <3> QED
        BY <1>1, <1>2, <2>1, <2>3, <3>1, <3>2 DEF Client!Spawned, Around
    <2> QED
      BY <1>5, <2>1, <2>2, <2>4, SeenAfter
  <1>8. Unseeing'
    <2> SUFFICES ASSUME NEW s \in open
                 PROVE  \/ view'[s] = Client!EmptyView
                        \/ \E q \in Players :
                              /\ session[q] = s
                              /\ room[q] # None \/ (op'[s].who = q /\ op'[s].place = "leaveGame")
      BY <1>2 DEF Unseeing, Around
    <2>1. CASE s = a
      BY <1>1, <1>2, <1>3, <2>1 DEF Client!Cleared, Around
    <2>2. CASE s # a
      <3>1. s \in Actors /\ view'[s] = view[s] /\ op'[s] = op[s]
        BY <1>1, <1>2, <1>3, <2>2 DEF Around, Within, Actors
      <3> QED
        BY <1>2, <3>1 DEF Around, Unseeing
    <2> QED
      BY <2>1, <2>2
  <1> QED
    BY <1>1, <1>2, <1>5, <1>6, <1>7, <1>8, ActsKeepsCalm DEF Around

LEMMA TellDespawnKeepsCalm ==
    ASSUME All, All', Views, NEW a \in Actors, TellDespawn(a), calm',
           NEW p, p = op[a].who, NEW r, r = op[a].in
    PROVE  Calm'
  <1>1. op[a].place = "despawn" /\ astray' = astray /\ Within(a) /\ ~Attends(a)
    BY WithinStep DEF TellDespawn, At, history, All, Attends
  <1>2. Around(a, p, r)
    BY <1>1, InsideFacts
  <1>3. \A s \in Sessions : view'[s] = IF s \in Others(r, p) \cap open
                                       THEN Client!Despawned(view[s], p) ELSE view[s]
    BY DEF TellDespawn, Told
  <1>4. op'[a].place = "despawnSelf" /\ op'[a].who = p /\ op'[a].in = r
    BY <1>2 DEF TellDespawn, Goto, Op, Around
  <1>5. Acts(a)
    <2>1. PICK T : T = Others(r, p)
      OBVIOUS
    <2>2. T \subseteq {session[op[a].who]} \cup {session[q] : q \in objects[r]}
      BY <2>1 DEF Others
    <2>3. \A s \in Sessions \ T : view'[s] = view[s]
      BY <1>3, <2>1
    <2> QED
      BY <1>1, <1>2, <2>2, <2>3, WithinActs DEF Attended, Around
  <1>6. AttendedBy(a)'
    BY <1>1, <1>2, <1>4 DEF AttendedBy, Attends, Around
  <1>7. ASSUME NEW q \in objects'[r], session[q] \in open
        PROVE  Sees(r, q)'
    <2>1. q \in objects[r] /\ q \in Players
      BY <1>2 DEF Around
    <2>2. PICK v, w : v = view[session[q]] /\ w = view'[session[q]]
      OBVIOUS
    <2>3. w = Client!Despawned(v, p)
      <3>1. session[q] \in Others(r, p) <=> q # p
        BY <1>2, <2>1 DEF Around, Others
      <3>2. session[q] \in Sessions
        BY <1>2, <2>1 DEF Around
      <3> QED
        BY <1>1, <1>2, <1>3, <1>7, <2>1, <2>2, <3>1, <3>2 DEF Around
    <2>4. ASSUME NEW x \in Players
          PROVE  /\ w[x] # "absent" => r \in visited'[x]
                 /\ x \in objects'[r] => w[x] # "destroyed"
                 /\ w[x] = "shown" <=>
                       \/ x \in objects'[r] /\ ~(Inside(a, r)' /\ Untold(a, q, x)')
                       \/ Inside(a, r)' /\ Lingers(a, x)'
      <3>1. /\ v[x] \in {"absent", "shown", "destroyed"}
            /\ v[x] # "absent" => r \in visited[x]
            /\ x \in objects[r] => v[x] # "destroyed"
            /\ v[x] = "shown" <=> x \in objects[r] \/ x = p
        BY <1>1, <1>2, <1>7, <2>1, <2>2 DEF Untold, Lingers, Around
      <3>2. Inside(a, r)' /\ ~Untold(a, q, x)' /\ ~Lingers(a, x)'
        BY <1>4 DEF Inside, Untold, Lingers
      <3> QED
        <4>1. v \in Client!View
          BY <1>2, <2>1, <2>2 DEF Around, All, Rest
        <4>2. w[x] = IF x = p /\ v[p] # "absent" THEN "destroyed" ELSE v[x]
          BY <1>2, <2>3, <4>1 DEF Around, Client!View, Client!Despawned
        <4> QED
          BY <1>1, <1>2, <2>1, <3>1, <3>2, <4>2 DEF Around
    <2> QED
      BY <1>5, <2>1, <2>2, <2>4, SeenAfter
  <1>8. Unseeing'
    <2>1. \A s \in open : view'[s] = view[s] \/ \E q \in Players : session[q] = s /\ room[q] # None
      BY <1>1, <1>2, <1>3, HomeAssumption DEF Around, Others
    <2> QED
      BY <1>1, <1>2, <2>1, StillUnseeing DEF Around
  <1> QED
    BY <1>1, <1>2, <1>5, <1>6, <1>7, <1>8, ActsKeepsCalm DEF Around

LEMMA TellDespawnSelfKeepsCalm ==
    ASSUME All, All', Views, NEW a \in Actors, TellDespawnSelf(a), calm',
           NEW p, p = op[a].who, NEW r, r = op[a].in
    PROVE  Calm'
  <1>1. op[a].place = "despawnSelf" /\ astray' = astray /\ Within(a) /\ ~Attends(a)
    BY WithinStep DEF TellDespawnSelf, At, history, All, Attends
  <1>2. Around(a, p, r)
    BY <1>1, InsideFacts
  <1>3. \A s \in Sessions : view'[s] = IF s \in {session[p]} \cap open
                                       THEN Client!Despawned(view[s], p) ELSE view[s]
    BY DEF TellDespawnSelf, Told
  <1>4. op'[a].place \in {"idle", "addObject"}
    <2>1. op'[a] = IF op[a].next = None THEN Idle ELSE EnterOp(p, op[a].next)
      BY <1>2 DEF TellDespawnSelf, Around
    <2>2. op[a].next \in Rooms \cup {None}
      BY <1>2 DEF Around, Op
    <2> QED
      BY <1>2, <2>1, <2>2, IdleFields, OpFields DEF Around
  <1>5. Acts(a)
    <2>1. PICK T : T = {session[p]}
      OBVIOUS
    <2>2. T \subseteq {session[op[a].who]} \cup {session[q] : q \in objects[r]}
      BY <2>1
    <2>3. \A s \in Sessions \ T : view'[s] = view[s]
      BY <1>3, <2>1
    <2> QED
      BY <1>1, <1>2, <2>2, <2>3, WithinActs DEF Attended, Around
  <1>6. AttendedBy(a)'
    BY <1>1, <1>2, <1>4 DEF AttendedBy, Attends, Around
  <1>7. ASSUME NEW q \in objects'[r], session[q] \in open
        PROVE  Sees(r, q)'
    <2>1. q \in objects[r] /\ q \in Players
      BY <1>2 DEF Around
    <2>2. PICK v, w : v = view[session[q]] /\ w = view'[session[q]]
      OBVIOUS
    <2>3. w = v
      BY <1>1, <1>2, <1>3, <1>7, <2>1, <2>2 DEF Around
    <2>4. ASSUME NEW x \in Players
          PROVE  /\ w[x] # "absent" => r \in visited'[x]
                 /\ x \in objects'[r] => w[x] # "destroyed"
                 /\ w[x] = "shown" <=>
                       \/ x \in objects'[r] /\ ~(Inside(a, r)' /\ Untold(a, q, x)')
                       \/ Inside(a, r)' /\ Lingers(a, x)'
      <3>1. /\ v[x] \in {"absent", "shown", "destroyed"}
            /\ v[x] # "absent" => r \in visited[x]
            /\ x \in objects[r] => v[x] # "destroyed"
            /\ v[x] = "shown" <=> x \in objects[r]
        BY <1>1, <1>2, <1>7, <2>1, <2>2 DEF Untold, Lingers, Around
      <3>2. ~Inside(a, r)'
        BY <1>4 DEF Inside, Untold, Lingers
      <3> QED
        BY <1>1, <1>2, <2>1, <2>3, <3>1, <3>2 DEF Client!Spawned, Around
    <2> QED
      BY <1>5, <2>1, <2>2, <2>4, SeenAfter
  <1>8. Unseeing'
    <2> SUFFICES ASSUME NEW s \in open
                 PROVE  \/ view'[s] = Client!EmptyView
                        \/ \E q \in Players :
                              /\ session[q] = s
                              /\ room[q] # None \/ (op'[s].who = q /\ op'[s].place = "leaveGame")
      BY <1>2 DEF Unseeing, Around
    <2>1. CASE s = a
      <3>1. \A q \in Players : session[q] = s => q = p
        BY <1>1, <1>2, <2>1, ActorsAssumption DEF Around, Alone
      <3>2. view[s] = Client!EmptyView
        BY <1>1, <1>2, <2>1, <3>1 DEF Around, Unseeing
      <3>3. Client!Despawned(Client!EmptyView, p) = Client!EmptyView
        BY <1>2 DEF Around, Client!Despawned, Client!EmptyView
      <3> QED
        BY <1>2, <1>3, <3>2, <3>3 DEF Around
    <2>2. CASE s # a
      <3>1. s \in Actors /\ view'[s] = view[s] /\ op'[s] = op[s]
        BY <1>1, <1>2, <1>3, <2>2 DEF Around, Within, Actors
      <3> QED
        BY <1>2, <3>1 DEF Around, Unseeing
    <2> QED
      BY <2>1, <2>2
  <1> QED
    BY <1>1, <1>2, <1>5, <1>6, <1>7, <1>8, ActsKeepsCalm DEF Around

LEMMA BroadcastKeepsCalm ==
    ASSUME All, All', Views, NEW a \in Actors, Broadcast(a), calm',
           NEW p, p = op[a].who, NEW r, r = op[a].in
    PROVE  Calm'
  <1>1. op[a].place = "broadcast" /\ view' = view /\ Within(a) /\ Attends(a)
    BY WithinStep DEF Broadcast, At, All, Attends
  <1>2. Around(a, p, r)
    BY <1>1, InsideFacts
  <1>3. op'[a].place = "idle"
    BY <1>2, IdleFields DEF Broadcast, Around
  <1>4. ~astray'
    <2> SUFFICES ASSUME NEW s \in Others(r, None) \cap open
                 PROVE  p \in Client!Shown(view[s])
      BY DEF Broadcast
    <2>1. PICK q \in objects[r] : s = session[q]
      BY DEF Others
    <2>2. view[s][p] = "shown" <=> (p \in objects[r] /\ ~Untold(a, q, p)) \/ Lingers(a, p)
      BY <1>2, <2>1 DEF Around
    <2> QED
      BY <1>1, <1>2, <2>2 DEF Around, Untold, Client!Shown
  <1>5. Acts(a)
    <2>1. PICK T : T = {}
      OBVIOUS
    <2> QED
      BY <1>1, <1>2, <2>1, WithinActs DEF Attended, Around
  <1>6. AttendedBy(a)'
    BY <1>3 DEF AttendedBy, Attends
  <1>7. ASSUME NEW q \in objects'[r], session[q] \in open
        PROVE  Sees(r, q)'
    <2>1. q \in objects[r] /\ q \in Players
      BY <1>2 DEF Around
    <2>2. PICK v : v = view[session[q]]
      OBVIOUS
    <2>3. ASSUME NEW x \in Players
          PROVE  /\ v[x] # "absent" => r \in visited'[x]
                 /\ x \in objects'[r] => v[x] # "destroyed"
                 /\ v[x] = "shown" <=>
                       \/ x \in objects'[r] /\ ~(Inside(a, r)' /\ Untold(a, q, x)')
                       \/ Inside(a, r)' /\ Lingers(a, x)'
      <3>1. /\ v[x] # "absent" => r \in visited[x]
            /\ x \in objects[r] => v[x] # "destroyed"
            /\ v[x] = "shown" <=> x \in objects[r]
        BY <1>1, <1>2, <1>7, <2>1, <2>2 DEF Untold, Lingers, Around
      <3>2. ~Inside(a, r)'
        BY <1>3 DEF Inside
      <3> QED
        BY <1>2, <3>1, <3>2 DEF Around
    <2> QED
      BY <1>1, <1>5, <2>1, <2>2, <2>3, SeenAfter
  <1>8. Unseeing'
    BY <1>1, <1>2, StillUnseeing DEF Around
  <1> QED
    BY <1>2, <1>4, <1>5, <1>6, <1>7, <1>8, ActsKeepsCalm DEF Around

LEMMA FindKeepsCalm ==
    ASSUME All, All', Views, NEW a \in Actors, Find(a), calm',
           NEW p, p = op[a].who, NEW r, r = op[a].in
    PROVE  Calm'
  <1>1. /\ op[a].place = "find" /\ view' = view /\ Within(a) /\ astray' = astray
        /\ calm /\ Core /\ Core' /\ Out /\ Fresh /\ Calm /\ open \subseteq Sessions
        /\ UNCHANGED <<objects, room, session, open, visited>>
        /\ \A b \in Actors \ {a} : ~Inside(b, r)
    BY WithinStep DEF Find, At, Busy, places, people, All, Views
  <1>2. Alone /\ OneInside /\ Attended /\ Seeing /\ Unseeing /\ ~astray
    BY <1>1 DEF Calm
  <1>3. r \in Rooms /\ p \in Players /\ op[a] \in Op
    BY <1>1 DEF Core, Shape, Types
  <1>4. op'[a].place = "idle" \/ (op'[a].place = "broadcast" /\ op'[a].who = p /\ op'[a].in = r
                                    /\ p \in objects[r])
    BY <1>1, <1>3, IdleFields DEF Find, Goto, Core, Types, Op
  <1>5. Acts(a)
    <2>1. PICK T : T = {}
      OBVIOUS
    <2>2. AttendedBy(a) /\ \A s \in Sessions \ T : view'[s] = view[s]
      BY <1>1, <1>2 DEF Attended
    <2>3. T \subseteq {session[op[a].who]} \cup {session[q] : q \in objects[r]}
      BY <2>1
    <2> QED
      BY <1>1, <1>2, <2>1, <2>2, <2>3, WithinActs
  <1>6. AttendedBy(a)'
    BY <1>1, <1>4 DEF AttendedBy, Attends
  <1>7. ASSUME NEW q \in objects'[r], session[q] \in open
        PROVE  Sees(r, q)'
    <2>1. q \in objects[r] /\ q \in Players
      BY <1>1, <1>3, <1>7, Inmate
    <2>2. PICK v : v = view[session[q]]
      OBVIOUS
    <2>3. Sees(r, q)
      BY <1>2, <1>3, <1>7, <2>1 DEF Seeing
    <2>4. ASSUME NEW x \in Players
          PROVE  /\ v[x] # "absent" => r \in visited'[x]
                 /\ x \in objects'[r] => v[x] # "destroyed"
                 /\ v[x] = "shown" <=>
                       \/ x \in objects'[r] /\ ~(Inside(a, r)' /\ Untold(a, q, x)')
                       \/ Inside(a, r)' /\ Lingers(a, x)'
      <3>1. /\ v[x] # "absent" => r \in visited[x]
            /\ x \in objects[r] => v[x] # "destroyed"
            /\ v[x] = "shown" <=> \/ x \in objects[r] /\ ~(Inside(a, r) /\ Untold(a, q, x))
                                  \/ Inside(a, r) /\ Lingers(a, x)
        BY <1>5, <2>1, <2>2, <2>3, SeenBefore
      <3>2. ~Inside(a, r)
        BY <1>1 DEF Inside
      <3>3. ~Untold(a, q, x)' /\ ~Lingers(a, x)'
        BY <1>4 DEF Untold, Lingers
      <3> QED
        BY <1>1, <3>1, <3>2, <3>3
    <2> QED
      BY <1>1, <1>5, <2>1, <2>2, <2>4, SeenAfter
  <1>8. Unseeing'
    BY <1>1, <1>2, StillUnseeing
  <1> QED
    BY <1>1, <1>2, <1>5, <1>6, <1>7, <1>8, ActsKeepsCalm

\* The client of one who enters sees nobody: it has just logged in, or has
\* handled S_LEAVE_GAME.
LEMMA AddObjectKeepsCalm ==
    ASSUME All, All', Views, NEW a \in Actors, AddObject(a), calm',
           NEW p, p = op[a].who, NEW r, r = op[a].in
    PROVE  Calm'
  <1>1. /\ op[a].place = "addObject" /\ p \in Players /\ r \in Rooms
        /\ room[p] = None /\ p \notin objects[r] /\ Entering(a, p)
        /\ objects' = [objects EXCEPT ![r] = @ \cup {p}]
        /\ room' = [room EXCEPT ![p] = r]
        /\ visited' = [visited EXCEPT ![p] = @ \cup {r}]
        /\ UNCHANGED <<session, open, view, astray>>
        /\ calm /\ ~Busy(a, r)
        /\ op'[a].place = "enterGame" /\ op'[a].who = p /\ op'[a].in = r
        /\ \A b \in Actors \ {a} : op'[b] = op[b]
        /\ Core /\ Core' /\ Out /\ Fresh /\ Calm /\ open \subseteq Sessions
    BY AddFacts DEF All, Views
  <1>2. Alone /\ OneInside /\ Attended /\ Seeing /\ Unseeing /\ ~astray
    BY <1>1 DEF Calm
  <1>3. /\ objects'[r] = objects[r] \cup {p} /\ \A x \in Rooms \ {r} : objects'[x] = objects[x]
        /\ room'[p] = r /\ \A q \in Players \ {p} : room'[q] = room[q]
        /\ \A q \in Players : visited[q] \subseteq visited'[q]
        /\ r \in visited'[p]
    BY <1>1 DEF Core, Types, All, Rest
  <1>4. Acts(a)
    <2>1. \A b \in Actors \ {a} : ~Inside(b, r)
      BY <1>1 DEF Busy
    <2>2. \A x \in Rooms \ {r} : ~Inside(a, x)'
      BY <1>1 DEF Inside
    <2> QED
      BY <1>1, <1>3, <2>1, <2>2 DEF Acts
  <1>5. AttendedBy(a)'
    BY <1>1, <1>3 DEF AttendedBy, Attends
  <1>6. ASSUME session[p] \in open PROVE view[session[p]] = Client!EmptyView
    <2>1. session[p] # None /\ session[p] \in Actors
      BY <1>1, <1>6, ActorsAssumption DEF Actors
    <2>2. ~(op[session[p]].who = p /\ op[session[p]].place = "leaveGame")
      <3> SUFFICES ASSUME op[session[p]].who = p, op[session[p]].place = "leaveGame"
                   PROVE  FALSE
        OBVIOUS
      <3>1. \A b \in Actors \ {session[p]} : ~Entering(b, p)
        BY <1>1, <2>1 DEF Out, LeavePlaces
      <3> QED
        BY <1>1, <3>1
    <2>3. \A q \in Players : session[q] = session[p] => q = p
      BY <1>1, <1>2, <2>1 DEF Alone
    <2> QED
      BY <1>1, <1>2, <1>6, <2>2, <2>3 DEF Unseeing
  <1>7. ASSUME NEW q \in objects'[r], session[q] \in open
        PROVE  Sees(r, q)'
    <2>1. PICK v : v = view[session[q]]
      OBVIOUS
    <2>2. q \in Players
      BY <1>1, <1>3, Inmate
    <2>3. ASSUME NEW x \in Players
          PROVE  /\ v[x] # "absent" => r \in visited'[x]
                 /\ x \in objects'[r] => v[x] # "destroyed"
                 /\ v[x] = "shown" <=>
                       \/ x \in objects'[r] /\ ~(Inside(a, r)' /\ Untold(a, q, x)')
                       \/ Inside(a, r)' /\ Lingers(a, x)'
      <3>1. /\ Inside(a, r)' /\ ~Lingers(a, x)'
            /\ Untold(a, q, x)' <=> q = p \/ x = p
        BY <1>1 DEF Inside, Untold, Lingers
      <3>2. CASE q = p
        <4>1. v[x] = "absent"
          BY <1>6, <1>7, <2>1, <3>2 DEF Client!EmptyView
        <4> QED
          BY <3>1, <3>2, <4>1
      <3>3. CASE q # p
        <4>1. q \in objects[r]
          BY <1>3, <3>3
        <4>2. Sees(r, q)
          BY <1>1, <1>2, <1>7, <4>1 DEF Seeing
        <4>3. /\ v[x] # "absent" => r \in visited[x]
              /\ x \in objects[r] => v[x] # "destroyed"
              /\ v[x] = "shown" <=> \/ x \in objects[r] /\ ~(Inside(a, r) /\ Untold(a, q, x))
                                    \/ Inside(a, r) /\ Lingers(a, x)
          BY <1>4, <2>1, <2>2, <4>2, SeenBefore
        <4>4. ~Inside(a, r)
          BY <1>1 DEF Inside
        <4>5. r \notin visited[p]
          BY <1>1 DEF Fresh
        <4> QED
          BY <1>1, <1>3, <3>1, <3>3, <4>3, <4>4, <4>5
      <3> QED
        BY <3>2, <3>3
    <2> QED
      BY <1>1, <1>4, <2>1, <2>2, <2>3, SeenAfter
  <1>8. Unseeing'
    <2> SUFFICES ASSUME NEW s \in open
                 PROVE  \/ view[s] = Client!EmptyView
                        \/ \E q \in Players :
                              /\ session[q] = s
                              /\ room'[q] # None \/ (op'[s].who = q /\ op'[s].place = "leaveGame")
      BY <1>1 DEF Unseeing
    <2>1. op[s].place = "leaveGame" => op'[s] = op[s]
      BY <1>1 DEF Actors
    <2>2. \A q \in Players : room[q] # None => room'[q] # None
      BY <1>1, <1>3
    <2> QED
      BY <1>2, <2>1, <2>2 DEF Unseeing
  <1> QED
    BY <1>1, <1>2, <1>4, <1>5, <1>7, <1>8, ActsKeepsCalm

LEMMA RemoveObjectKeepsCalm ==
    ASSUME All, All', Views, NEW a \in Actors, RemoveObject(a), calm',
           NEW p, p = op[a].who, NEW r, r = op[a].in
    PROVE  Calm'
  <1>1. /\ op[a].place = "removeObject" /\ p \in Players /\ r \in Rooms
        /\ a \in Sessions /\ session[p] = a
        /\ room[p] = r /\ p \in objects[r]
        /\ objects' = [objects EXCEPT ![r] = @ \ {p}]
        /\ room' = [room EXCEPT ![p] = None]
        /\ UNCHANGED <<session, open, view, visited, astray>>
        /\ calm /\ ~Busy(a, r)
        /\ op'[a].place = "leaveGame" /\ op'[a].who = p /\ op'[a].in = r
        /\ \A b \in Actors \ {a} : op'[b] = op[b]
        /\ Core /\ Core' /\ Out /\ Fresh /\ Calm /\ open \subseteq Sessions
    BY RemoveFacts DEF All, Views
  <1>2. Alone /\ OneInside /\ Attended /\ Seeing /\ Unseeing /\ ~astray
    BY <1>1 DEF Calm
  <1>3. /\ objects'[r] = objects[r] \ {p} /\ \A x \in Rooms \ {r} : objects'[x] = objects[x]
        /\ \A q \in Players \ {p} : room'[q] = room[q]
    BY <1>1 DEF Core, Types
  <1>4. Acts(a)
    <2>1. \A b \in Actors \ {a} : ~Inside(b, r)
      BY <1>1 DEF Busy
    <2>2. \A x \in Rooms \ {r} : ~Inside(a, x)'
      BY <1>1 DEF Inside
    <2> QED
      BY <1>1, <1>3, <2>1, <2>2 DEF Acts
  <1>5. AttendedBy(a)'
    BY <1>1 DEF AttendedBy, Attends
  <1>6. ASSUME NEW q \in objects'[r], session[q] \in open
        PROVE  Sees(r, q)'
    <2>1. q \in objects[r] /\ q # p /\ q \in Players
      BY <1>1, <1>3, Inmate
    <2>2. PICK v : v = view[session[q]]
      OBVIOUS
    <2>3. Sees(r, q)
      BY <1>1, <1>2, <1>6, <2>1 DEF Seeing
    <2>4. ASSUME NEW x \in Players
          PROVE  /\ v[x] # "absent" => r \in visited[x]
                 /\ x \in objects'[r] => v[x] # "destroyed"
                 /\ v[x] = "shown" <=>
                       \/ x \in objects'[r] /\ ~(Inside(a, r)' /\ Untold(a, q, x)')
                       \/ Inside(a, r)' /\ Lingers(a, x)'
      <3>1. /\ v[x] # "absent" => r \in visited[x]
            /\ x \in objects[r] => v[x] # "destroyed"
            /\ v[x] = "shown" <=> \/ x \in objects[r] /\ ~(Inside(a, r) /\ Untold(a, q, x))
                                  \/ Inside(a, r) /\ Lingers(a, x)
        BY <1>4, <2>1, <2>2, <2>3, SeenBefore
      <3>2. ~Inside(a, r)
        BY <1>1 DEF Inside
      <3>3. Inside(a, r)' /\ ~Untold(a, q, x)' /\ (Lingers(a, x)' <=> x = p)
        BY <1>1, <2>1 DEF Inside, Untold, Lingers
      <3> QED
        BY <1>1, <1>3, <3>1, <3>2, <3>3
    <2> QED
      BY <1>1, <1>4, <2>1, <2>2, <2>4, SeenAfter
  <1>7. Unseeing'
    <2> SUFFICES ASSUME NEW s \in open
                 PROVE  \/ view[s] = Client!EmptyView
                        \/ \E q \in Players :
                              /\ session[q] = s
                              /\ room'[q] # None \/ (op'[s].who = q /\ op'[s].place = "leaveGame")
      BY <1>1 DEF Unseeing
    <2>1. CASE s = a
      BY <1>1, <2>1
    <2>2. CASE s # a
      <3>1. op'[s] = op[s]
        BY <1>1, <2>2 DEF Actors
      <3>2. \A q \in Players : session[q] = s => room'[q] = room[q]
        BY <1>1, <1>3, <2>2
      <3> QED
        BY <1>2, <3>1, <3>2 DEF Unseeing
    <2> QED
      BY <2>1, <2>2
  <1> QED
    BY <1>1, <1>2, <1>4, <1>5, <1>6, <1>7, ActsKeepsCalm

-----------------------------------------------------------------------------
(* Packets and the execution of jobs are steps outside of the rooms *)

\* A job is posted: it begins, or it waits.
LEMMA PostOutside ==
    ASSUME Core, NEW s \in Sessions, NEW r \in Rooms, NEW p \in Players, NEW job \in Op,
           (job = EnterOp(p, r) /\ session[p] = None) \/ job = RelayOp(p, r), Post(s, r, job)
    PROVE  /\ \A a \in Actors : op'[a] = op[a] \/ Begun(a)
           /\ \A x \in Rooms, i \in Nat, q \in Players :
                 Queued(x, i, q)' => session[q] = None \/ \E j \in Nat : Queued(x, j, q)
  <1>1. /\ job.who = p /\ job.next = None
        /\ (job.place = "addObject" /\ session[p] = None) \/ job.place = "find"
        /\ \A q \in Players : job = EnterOp(q, r) => session[q] = None
    <2>1. \A q \in Players : /\ EnterOp(q, r).place = "addObject" /\ EnterOp(q, r).who = q
                             /\ RelayOp(q, r).place = "find" /\ RelayOp(q, r).who = q
                             /\ EnterOp(q, r).next = None /\ RelayOp(q, r).next = None
      BY OpFields
    <2> QED
      BY <2>1
  <1>2. job = EnterOp(p, r) \/ job = RelayOp(p, r)
    OBVIOUS
  <1>3. \A a \in Actors : op'[a] = op[a] \/ Begun(a)
    BY <1>1, <1>2, PostSteps DEF Begun
  <1>4. ASSUME NEW x \in Rooms, NEW i \in Nat, NEW q \in Players, Queued(x, i, q)'
        PROVE  session[q] = None \/ \E j \in Nat : Queued(x, j, q)
    <2>1. i \in 1 .. Len(jobs'[x]) /\ jobs'[x][i] = EnterOp(q, x)
      BY <1>4 DEF Queued, EnterOp, Idle
    <2>2. \/ i \in 1 .. Len(jobs[x]) /\ jobs'[x][i] = jobs[x][i]
          \/ x = r /\ jobs'[x][i] = job
      BY <1>2, <2>1, PostSteps
    <2> QED
      BY <1>1, <2>1, <2>2 DEF Queued
  <1> QED
    BY <1>3, <1>4

LEMMA LoginOutside ==
    ASSUME Core, Calm, NEW s \in Sessions, NEW p \in Players, Login(s, p)
    PROVE  Outside
  <1>1. /\ session[p] = None /\ session' = [session EXCEPT ![p] = s]
        /\ Post(s, Home, EnterOp(p, Home)) /\ s # None /\ Home \in Rooms
        /\ UNCHANGED <<objects, room, open, view, visited, astray>>
        /\ calm' => calm /\ Logins(s) = 0
    BY HomeAssumption, ActorsAssumption DEF Login, places
  <1>2. /\ \A a \in Actors : op'[a] = op[a] \/ Begun(a)
        /\ \A x \in Rooms, i \in Nat, q \in Players :
              Queued(x, i, q)' => session[q] = None \/ \E j \in Nat : Queued(x, j, q)
    <2>1. PICK r \in Rooms : r = Home
      BY <1>1
    <2>2. PICK job \in Op : job = EnterOp(p, r)
      BY OpFields, HomeAssumption
    <2>3. Post(s, r, job) /\ ((job = EnterOp(p, r) /\ session[p] = None) \/ job = RelayOp(p, r))
      BY <1>1, <2>1, <2>2
    <2> QED
      BY <2>3, PostOutside
  <1>3. session'[p] = s /\ \A q \in Players \ {p} : session'[q] = session[q]
    BY <1>1 DEF Core, Types
  <1>4. ASSUME calm' PROVE \A q \in Players : session[q] # s
    <2> SUFFICES ASSUME NEW q \in Players, session[q] = s PROVE FALSE
      OBVIOUS
    <2>1. {y \in Players : session[y] = s} = {q}
      BY <1>1, <1>4 DEF Calm, Alone
    <2>2. Cardinality({q}) = 1
      BY FS_Singleton
    <2> QED
      BY <1>1, <1>4, <2>1, <2>2 DEF Logins
  <1>5. Admitted(p)
    BY <1>1, <1>3, <1>4 DEF Admitted
  <1> QED
    BY <1>1, <1>2, <1>3, <1>5 DEF Outside

LEMMA RelayOutside ==
    ASSUME Core, Greeted, NEW s \in Sessions, NEW p \in Players, Relay(s, p)
    PROVE  Outside
  <1>1. /\ room[player[s]] \in Rooms
        /\ Post(s, room[player[s]], RelayOp(p, room[player[s]]))
        /\ UNCHANGED <<objects, room, session, open, view, visited, calm, astray>>
    BY DEF Relay, InRoom, Greeted, Core, Types, places, people, history
  <1>2. PICK r \in Rooms : r = room[player[s]]
    BY <1>1
  <1>3. PICK job \in Op : job = RelayOp(p, r)
    BY OpFields, HomeAssumption
  <1>4. Post(s, r, job) /\ ((job = EnterOp(p, r) /\ session[p] = None) \/ job = RelayOp(p, r))
    BY <1>1, <1>2, <1>3
  <1>5. /\ \A a \in Actors : op'[a] = op[a] \/ Begun(a)
        /\ \A x \in Rooms, i \in Nat, q \in Players :
              Queued(x, i, q)' => session[q] = None \/ \E j \in Nat : Queued(x, j, q)
    BY <1>4, PostOutside
  <1> QED
    BY <1>1, <1>5 DEF Outside

\* A handler begins to take its player out of its room.  Without returns the
\* room it is to be put into is a new one.
LEMMA LeavingOutside ==
    ASSUME Core, Greeted, ~MayReturn, NEW s \in Sessions,
           LeaveGame(s) \/ \E r \in Rooms : ReqEnterRoom(s, r)
    PROVE  Outside
  <1> DEFINE p == player[s]
  <1>1. PICK n \in Rooms \cup {None} :
           /\ op' = [op EXCEPT ![s] = LeaveOp(p, room[p], n)]
           /\ n # None => n \notin visited[p]
           /\ CanHandle(s) /\ p \in Players /\ room[p] \in Rooms
           /\ UNCHANGED <<objects, room, session, open, jobs, view, visited, calm, astray>>
    <2>1. ASSUME LeaveGame(s)
          PROVE  /\ op' = [op EXCEPT ![s] = LeaveOp(p, room[p], None)]
                 /\ CanHandle(s) /\ p \in Players /\ room[p] \in Rooms
                 /\ UNCHANGED <<objects, room, session, open, jobs, view, visited, calm, astray>>
      BY <2>1 DEF LeaveGame, places, people, queues, Core, Types
    <2>2. ASSUME NEW r \in Rooms, ReqEnterRoom(s, r)
          PROVE  /\ op' = [op EXCEPT ![s] = LeaveOp(p, room[p], r)] /\ r \notin visited[p]
                 /\ CanHandle(s) /\ p \in Players /\ room[p] \in Rooms
                 /\ UNCHANGED <<objects, room, session, open, jobs, view, visited, calm, astray>>
      BY <2>2 DEF ReqEnterRoom, InRoom, Greeted, places, people, queues, history, Core, Types
    <2> QED
      BY <2>1, <2>2
  <1> HIDE DEF p
  <1>2. s \in Actors /\ op[s].place = "idle"
    BY <1>1 DEF CanHandle, At, Actors
  <1>3. op'[s] = LeaveOp(p, room[p], n) /\ \A b \in Actors \ {s} : op'[b] = op[b]
    BY <1>1, <1>2 DEF Core, Types
  <1>4. op'[s].place = "removeObject" /\ op'[s].who = p /\ op'[s].next = n
    BY <1>1, <1>3, OpFields
  <1>5. Begun(s)
    BY <1>1, <1>2, <1>4 DEF Begun
  <1>6. \A x \in Rooms, i \in Nat, q \in Players : Queued(x, i, q)' => Queued(x, i, q)
    BY <1>1 DEF Queued
  <1> QED
    BY <1>1, <1>3, <1>5, <1>6 DEF Outside

LEMMA StartOutside ==
    ASSUME Core, NEW r \in Rooms, StartJob(r)
    PROVE  Outside
  <1> DEFINE job == jobs[r][1]
  <1>1. /\ r \in Actors /\ op[r].place = "idle"
        /\ jobs[r] \in Seq(Op) /\ jobs[r] # << >>
        /\ UNCHANGED <<objects, room, session, open, view, visited, calm, astray>>
    BY DEF StartJob, At, Core, Types, Actors, places, people, history
  <1>2. /\ 1 \in 1 .. Len(jobs[r]) /\ Head(jobs[r]) = job /\ Len(jobs[r]) \in Nat
        /\ Len(Tail(jobs[r])) = Len(jobs[r]) - 1
        /\ \A i \in 1 .. Len(jobs[r]) - 1 : Tail(jobs[r])[i] = jobs[r][i + 1]
    BY <1>1
  <1>3. /\ op'[r] = job /\ \A b \in Actors \ {r} : op'[b] = op[b]
        /\ jobs'[r] = Tail(jobs[r]) /\ \A x \in Rooms \ {r} : jobs'[x] = jobs[x]
    BY <1>1, <1>2 DEF StartJob, Core, Types
  <1>4. PICK p \in Players : job = EnterOp(p, r) \/ job = RelayOp(p, r)
    BY <1>2 DEF Core, Jobs
  <1>5. Begun(r)
    <2>1. CASE job = EnterOp(p, r)
      <3>1. Queued(r, 1, p)
        BY <1>2, <2>1 DEF Queued
      <3>2. op'[r].place = "addObject" /\ op'[r].next = None /\ op'[r].who = p /\ op'[r].in = r
        BY <1>3, <2>1, OpFields, HomeAssumption
      <3> QED
        BY <1>1, <3>1, <3>2 DEF Begun
    <2>2. CASE job = RelayOp(p, r)
      <3>1. op'[r].place = "find" /\ op'[r].next = None
        BY <1>3, <2>2, OpFields, HomeAssumption
      <3> QED
        BY <1>1, <3>1 DEF Begun
    <2> QED
      BY <1>4, <2>1, <2>2
  <1> HIDE DEF job
  <1>6. ASSUME NEW x \in Rooms, NEW i \in Nat, NEW q \in Players, Queued(x, i, q)'
        PROVE  \E j \in Nat : Queued(x, j, q)
    <2>1. CASE x # r
      BY <1>3, <1>6, <2>1 DEF Queued
    <2>2. CASE x = r
      <3>1. i \in 1 .. Len(Tail(jobs[r])) /\ Tail(jobs[r])[i] = EnterOp(q, r)
        BY <1>3, <1>6, <2>2 DEF Queued, EnterOp, Idle
      <3>2. i + 1 \in 1 .. Len(jobs[r]) /\ jobs[r][i + 1] = EnterOp(q, r) /\ i + 1 \in Nat
        BY <1>2, <3>1
      <3> QED
        BY <2>2, <3>2 DEF Queued
    <2> QED
      BY <2>1, <2>2
  <1> QED
    BY <1>1, <1>3, <1>5, <1>6 DEF Outside

LEMMA StillOutside ==
    ASSUME UNCHANGED <<objects, room, session, jobs, op, visited, view, calm, astray>>,
           open' \subseteq open
    PROVE  Outside
  <1>1. \A x \in Rooms, i \in Nat, q \in Players : Queued(x, i, q)' => Queued(x, i, q)
    BY DEF Queued
  <1> QED
    BY <1>1 DEF Outside

-----------------------------------------------------------------------------
(* All steps *)

LEMMA StepKeepsViews ==
    ASSUME All, All', Views, NEW a \in Actors, Step(a)
    PROVE  Views'
  <1>1. Core /\ Core' /\ Out /\ Fresh
    BY DEF All, Views
  <1>2. PICK p, r : p = op[a].who /\ r = op[a].in
    OBVIOUS
  <1>3. CASE AddObject(a)
    <2>1. calm' => Calm'
      BY <1>2, <1>3, AddObjectKeepsCalm
    <2> QED
      BY <1>1, <1>3, <2>1, AddKeepsOutFresh DEF Views, Calm
  <1>4. CASE RemoveObject(a)
    <2>1. calm' => Calm'
      BY <1>2, <1>4, RemoveObjectKeepsCalm
    <2> QED
      BY <1>1, <1>4, <2>1, RemoveKeepsOutFresh DEF Views, Calm
  <1>5. CASE \/ TellEntered(a) \/ TellSpawn(a) \/ CollectList(a) \/ TellList(a)
             \/ TellLeft(a) \/ TellDespawn(a) \/ TellDespawnSelf(a) \/ Find(a) \/ Broadcast(a)
    <2>1. Out' /\ Fresh'
      BY <1>1, <1>5, WithinStep, WithinKeepsOutFresh
    <2>2. calm' => Calm'
      BY <1>2, <1>5, TellEnteredKeepsCalm, TellSpawnKeepsCalm, CollectListKeepsCalm,
         TellListKeepsCalm, TellLeftKeepsCalm, TellDespawnKeepsCalm, TellDespawnSelfKeepsCalm,
         FindKeepsCalm, BroadcastKeepsCalm
    <2> QED
      BY <2>1, <2>2 DEF Views, Calm
  <1> QED
    BY <1>3, <1>4, <1>5 DEF Step

LEMMA NextKeepsViews ==
    ASSUME ~MayReturn, All, All', Views, [Next]_vars
    PROVE  Views'
  <1>1. /\ Core /\ Core' /\ Greeted /\ Calm /\ open \subseteq Sessions
    BY DEF All, Views
  <1>2. ASSUME NEW s \in Sessions, NEW p \in Players, Login(s, p)
        PROVE  Outside
    BY <1>1, <1>2, LoginOutside
  <1>3. ASSUME NEW s \in Sessions, NEW p \in Players, Relay(s, p)
        PROVE  Outside
    BY <1>1, <1>3, RelayOutside
  <1>4. ASSUME NEW s \in Sessions, (\E r \in Rooms : ReqEnterRoom(s, r)) \/ LeaveGame(s)
        PROVE  Outside
    BY <1>1, <1>4, LeavingOutside
  <1>5. ASSUME NEW r \in Rooms, StartJob(r)
        PROVE  Outside
    BY <1>1, <1>5, StartOutside
  <1>6. ASSUME \/ \E s \in Sessions : Disconnect(s)
               \/ \E r \in Rooms : HandOver(r) \/ EndExecute(r) \/ Tick(r)
               \/ UNCHANGED vars
        PROVE  Outside
    BY <1>6, StillOutside
       DEF Disconnect, HandOver, EndExecute, Tick, vars, places, people, queues, history
  <1>7. CASE Outside
    BY <1>1, <1>7, OutsideKeepsViews
  <1>8. ASSUME NEW a \in Actors, Step(a)
        PROVE  Views'
    BY <1>8, StepKeepsViews
  <1> QED
    BY <1>2, <1>3, <1>4, <1>5, <1>6, <1>7, <1>8 DEF Next

THEOREM ViewsHold == ~MayReturn => (Spec => [](All /\ Views))
  <1> SUFFICES ASSUME ~MayReturn PROVE Spec => [](All /\ Views)
    OBVIOUS
  <1>1. Init => All /\ Views
    BY AllInit, InitViews
  <1>2. All /\ Views /\ [Next]_vars => (All /\ Views)'
    BY AllNext, NextKeepsViews
  <1> QED
    BY <1>1, <1>2, PTL DEF Spec

\* Unless players come back to a room they left, and as long as no two
\* operations met in a room and no client has two players, each client shows
\* exactly the players of its room whenever nobody is inside of the room, and
\* nobody once its player has left (HandleEnterPlayer, HandleLeavePlayer,
\* and the client's HandleSpawn and HandleDespawn).
THEOREM ClientsSeeTheirRoom == ~MayReturn => (Spec => []CalmViewsMatch)
  <1> SUFFICES ASSUME ~MayReturn PROVE Spec => []CalmViewsMatch
    OBVIOUS
  <1>1. All /\ Views => CalmViewsMatch
    <2> SUFFICES ASSUME All, Views, calm
                 PROVE  /\ ViewMatchesRoom
                        /\ \A s \in open : At(s, "idle") /\ player[s] \in greeted
                                             /\ room[player[s]] = None
                              => Client!Shown(view[s]) = {}
      BY DEF CalmViewsMatch
    <2>1. Alone /\ Seeing /\ Unseeing /\ Core /\ Greeted /\ open \subseteq Sessions
      BY DEF All, Views, Calm
    <2>2. ASSUME NEW r \in Rooms, Quiet(r), NEW q \in objects[r], session[q] \in open
          PROVE  Client!Shown(view[session[q]]) = objects[r]
      <3>1. Sees(r, q) /\ objects[r] \subseteq Players
        BY <2>1, <2>2 DEF Seeing, Core, Types
      <3>2. \A x \in Players : ~Unheard(r, q, x) /\ ~Lingering(r, x)
        BY <2>2 DEF Quiet, Unheard, Lingering
      <3> QED
        BY <3>1, <3>2 DEF Sees, Client!Shown
    <2>3. ASSUME NEW s \in open, At(s, "idle"), player[s] \in greeted, room[player[s]] = None
          PROVE  Client!Shown(view[s]) = {}
      <3>1. player[s] \in Players /\ session[player[s]] = s /\ s # None
        BY <2>1, <2>3, HomeAssumption, ActorsAssumption DEF Greeted, Core, Shape
      <3>2. view[s] = Client!EmptyView
        BY <2>1, <2>3, <3>1 DEF Unseeing, Alone, At
      <3> QED
        BY <3>2 DEF Client!EmptyView, Client!Shown
    <2> QED
      BY <2>2, <2>3 DEF ViewMatchesRoom
  <1> QED
    BY <1>1, ViewsHold, PTL

\* And whatever is relayed reaches only clients that show the player it is
\* about (HandleMove, HandleREQMove, HandleREQShoot, HandleREQAttack).
THEOREM RelaysFindActors == ~MayReturn => (Spec => []RelaysReachActors)
  <1> SUFFICES ASSUME ~MayReturn PROVE Spec => []RelaysReachActors
    OBVIOUS
  <1>1. All /\ Views => RelaysReachActors
    BY DEF Views, Calm, RelaysReachActors
  <1> QED
    BY <1>1, ViewsHold, PTL

=============================================================================
