-------------------------------- MODULE Room --------------------------------
(***************************************************************************)
(* Players, rooms and what each client is told: ServerPacketHandler (run   *)
(* on the worker that received the packet, one packet of a session at a    *)
(* time), Room and RoomManager.                                            *)
(*                                                                         *)
(* Entering at login and relaying what clients do are jobs of the room,    *)
(* one at a time.  Leaving, and both halves of a change of room, are       *)
(* called directly by the packet handler and may overlap a job of the      *)
(* room: that is the case Overlap, in which each access to _objects is     *)
(* taken as atomic.                                                        *)
(*                                                                         *)
(* An operation on a room is a sequence of steps, one per access to        *)
(* _objects and per send.  Sends of one session stay in order (SendPath),  *)
(* so that a client's view is what it has when it has handled all that was *)
(* sent to it.  What is relayed (where a player walks, what it shoots) is  *)
(* the subject of Arena.tla; here it matters to whom.                      *)
(***************************************************************************)
EXTENDS Naturals, Sequences, FiniteSets

CONSTANTS Rooms, Home,     \* Home is GetRoom(1)
          Sessions,
          Players,         \* one per successful login
          MaxLogins,       \* logins of a session
          MaxJobs,         \* jobs in a room's queue
          Overlap,         \* direct calls may overlap jobs and each other
          MayReturn,       \* a player may come back to a room it left
          Pool, None

ASSUME HomeAssumption == Home \in Rooms /\ None \notin Rooms \cup Players
ASSUME ActorsAssumption == /\ Rooms \cap Sessions = {} /\ None \notin Sessions
                           /\ Pool \notin Sessions \cup {None}
ASSUME FlagsAssumption == Overlap \in BOOLEAN /\ MayReturn \in BOOLEAN

Actors == Sessions \cup Rooms  \* packet handlers, and the jobs of each room

VARIABLES objects,   \* _objects of each room
          room,      \* Object::room of each player
          session,   \* Player::session
          player,    \* GameSession::player
          open,      \* sessions that exist: the weak_ptr session can be locked
          jobs,      \* the job queue of each room
          executor,  \* who executes it: a handler's thread, the pool, nobody
          op,        \* the room operation each actor is in
          view,      \* the view of each client
          greeted,   \* history: players whose S_ENTER_GAME was sent
          visited,   \* history: rooms each player has been in
          left,      \* history: players that left by C_LEAVE_GAME
          calm,      \* history: no operations met in a room, and no client
                     \* logged in twice
          astray     \* history: what was relayed last went to a client in
                     \* which the player it is about is not shown

people  == <<session, player, open>>
queues  == <<jobs, executor>>
places  == <<objects, room>>
history == <<greeted, visited, left, calm, astray>>
vars    == <<places, people, queues, op, view, history>>

Client == INSTANCE ClientWorld

EnterPlaces == {"addObject", "enterGame", "spawn", "list", "sendList"}
LeavePlaces == {"removeObject", "leaveGame", "despawn", "despawnSelf"}
Places == {"idle", "find", "broadcast"} \cup EnterPlaces \cup LeavePlaces

\* who, in which room, the room to enter after leaving, and the list that is
\* about to be sent.
Op == [place : Places, who : Players \cup {None}, in : Rooms \cup {None},
       next : Rooms \cup {None}, list : SUBSET Players]

Idle == [place |-> "idle", who |-> None, in |-> None, next |-> None, list |-> {}]

EnterOp(p, r) == [Idle EXCEPT !.place = "addObject", !.who = p, !.in = r]
LeaveOp(p, r, next) == [Idle EXCEPT !.place = "removeObject", !.who = p, !.in = r, !.next = next]
RelayOp(p, r) == [Idle EXCEPT !.place = "find", !.who = p, !.in = r]

Init == /\ objects = [r \in Rooms |-> {}]
        /\ room = [p \in Players |-> None]
        /\ session = [p \in Players |-> None]
        /\ player = [s \in Sessions |-> None]
        /\ open = Sessions
        /\ jobs = [r \in Rooms |-> << >>]
        /\ executor = [r \in Rooms |-> None]
        /\ op = [a \in Actors |-> Idle]
        /\ view = [s \in Sessions |-> Client!EmptyView]
        /\ greeted = {}
        /\ visited = [p \in Players |-> {}]
        /\ left = {}
        /\ calm = TRUE
        /\ astray = FALSE

At(a, place) == op[a].place = place
Goto(a, place) == op' = [op EXCEPT ![a].place = place]

-----------------------------------------------------------------------------
(* Jobs: DoAsync, and the executor of a room's queue (JobQueue.tla) *)

\* Fault: the job is queued without a look at who executes the queue.
PostOnly(s, r, job) ==
    /\ Len(jobs[r]) < MaxJobs
    /\ jobs' = [jobs EXCEPT ![r] = Append(@, job)]
    /\ UNCHANGED <<executor, op>>

\* A queue that nobody executes is empty: the poster's thread executes it,
\* beginning with this job.
Post(s, r, job) ==
    \/ /\ executor[r] = None
       /\ executor' = [executor EXCEPT ![r] = s]
       /\ op' = [op EXCEPT ![r] = job]
       /\ UNCHANGED jobs
    \/ /\ executor[r] # None
       /\ Len(jobs[r]) < MaxJobs
       /\ jobs' = [jobs EXCEPT ![r] = Append(@, job)]
       /\ UNCHANGED <<executor, op>>

StartJob(r) ==
    /\ executor[r] # None
    /\ At(r, "idle")
    /\ jobs[r] # << >>
    /\ op' = [op EXCEPT ![r] = Head(jobs[r])]
    /\ jobs' = [jobs EXCEPT ![r] = Tail(@)]
    /\ UNCHANGED <<places, people, executor, view, history>>

\* Time is up: the queue goes to the pool by way of the global queue.
HandOver(r) ==
    /\ executor[r] \in Sessions
    /\ At(r, "idle")
    /\ jobs[r] # << >>
    /\ executor' = [executor EXCEPT ![r] = Pool]
    /\ UNCHANGED <<places, people, jobs, op, view, history>>

EndExecute(r) ==
    /\ executor[r] # None
    /\ At(r, "idle")
    /\ jobs[r] = << >>
    /\ executor' = [executor EXCEPT ![r] = None]
    /\ UNCHANGED <<places, people, jobs, op, view, history>>

\* A room's tick is executed by some other thread.
Tick(r) ==
    /\ executor[r] = None
    /\ executor' = [executor EXCEPT ![r] = Pool]
    /\ UNCHANGED <<places, people, jobs, op, view, history>>

-----------------------------------------------------------------------------
(* Packet handlers *)

\* The worker of the session is free for its next packet.
CanHandle(s) ==
    /\ s \in open
    /\ At(s, "idle")
    /\ \A r \in Rooms : executor[r] # s

Logins(s) == Cardinality({p \in Players : session[p] = s})

\* C_REQ_LOGIN that AuthenticateUser grants: CreatePlayer, then a job.
Login(s, p) ==
    /\ CanHandle(s)
    /\ Logins(s) < MaxLogins
    /\ session[p] = None
    /\ session' = [session EXCEPT ![p] = s]
    /\ player' = [player EXCEPT ![s] = p]
    /\ calm' = (calm /\ Logins(s) = 0)
    /\ Post(s, Home, EnterOp(p, Home))
    /\ UNCHANGED <<places, open, view, greeted, visited, left, astray>>

\* The player is in a room, as the handlers see.  That the client knows its
\* player is no guard of theirs but an assumption on the client, which acts
\* only after S_ENTER_GAME.
InRoom(s) == CanHandle(s) /\ player[s] \in greeted /\ room[player[s]] # None

\* C_MOVE and C_REQ_ATTACK, which name any player the client has seen,
\* C_REQ_MOVE and C_REQ_SHOOT, which name its own: a job of the room that
\* the sender is in now.
Relay(s, p) ==
    /\ InRoom(s)
    /\ p \in greeted
    /\ Post(s, room[player[s]], RelayOp(p, room[player[s]]))
    /\ UNCHANGED <<places, people, view, history>>

\* C_LEAVE_GAME: HandleLeavePlayer is called directly.
LeaveGame(s) ==
    LET p == player[s] IN
    /\ CanHandle(s)
    /\ p # None /\ room[p] # None
    /\ op' = [op EXCEPT ![s] = LeaveOp(p, room[p], None)]
    /\ left' = left \cup {p}
    /\ UNCHANGED <<places, people, queues, view, greeted, visited, calm, astray>>

\* Fault: the player enters the room without having left the other.
ReqEnterRoomStays(s, r) ==
    /\ InRoom(s)
    /\ MayReturn \/ r \notin visited[player[s]]
    /\ op' = [op EXCEPT ![s] = EnterOp(player[s], r)]
    /\ UNCHANGED <<places, people, queues, view, history>>

\* C_REQ_ENTER_ROOM: RelocatePlayerToRoom calls both halves directly.
ReqEnterRoom(s, r) ==
    LET p == player[s] IN
    /\ InRoom(s)
    /\ MayReturn \/ r \notin visited[p]
    /\ op' = [op EXCEPT ![s] = LeaveOp(p, room[p], r)]
    /\ UNCHANGED <<places, people, queues, view, history>>

\* The session ends.  OnDisconnected leaves the player in its room.
Disconnect(s) ==
    /\ CanHandle(s)
    /\ open' = open \ {s}
    /\ UNCHANGED <<places, session, player, queues, op, view, history>>

-----------------------------------------------------------------------------
(* Room: EnterRoom, LeaveRoom, and the relaying jobs.  An actor is a handler *)
(* or the room's job.                                                        *)

\* The actor is inside of the room: it is past its first access.
Inside(a, r) ==
    op[a].in = r /\ op[a].place \notin {"idle", "addObject", "removeObject", "find"}

Busy(a, r) == \E b \in Actors \ {a} : Inside(b, r)

Told(targets, f(_)) ==
    view' = [s \in Sessions |-> IF s \in targets \cap open THEN f(view[s]) ELSE view[s]]

\* Broadcast: the sessions of all the players in the room but one.
Others(r, except) == {session[q] : q \in objects[r] \ {except}}

\* EnterRoom up to the random position; AddObject does nothing when the
\* player is there already.
AddObject(a) ==
    LET p == op[a].who  r == op[a].in IN
    /\ At(a, "addObject")
    /\ Overlap \/ ~Busy(a, r)
    /\ IF p \in objects[r]
       THEN UNCHANGED <<places, visited>>
       ELSE /\ objects' = [objects EXCEPT ![r] = @ \cup {p}]
            /\ room' = [room EXCEPT ![p] = r]
            /\ visited' = [visited EXCEPT ![p] = @ \cup {r}]
    /\ calm' = (calm /\ ~Busy(a, r))
    /\ Goto(a, "enterGame")
    /\ UNCHANGED <<people, queues, view, greeted, left, astray>>

\* S_ENTER_GAME to the player itself.
TellEntered(a) ==
    LET p == op[a].who IN
    /\ At(a, "enterGame")
    /\ Told({session[p]}, LAMBDA v : Client!Spawned(v, {p}))
    /\ greeted' = greeted \cup {p}
    /\ Goto(a, "spawn")
    /\ UNCHANGED <<places, people, queues, visited, left, calm, astray>>

\* S_SPAWN to the others.
TellSpawn(a) ==
    LET p == op[a].who IN
    /\ At(a, "spawn")
    /\ Told(Others(op[a].in, p), LAMBDA v : Client!Spawned(v, {p}))
    /\ Goto(a, "list")
    /\ UNCHANGED <<places, people, queues, history>>

\* The list of the players in the room, then S_SPAWN with it.
CollectList(a) ==
    /\ At(a, "list")
    /\ op' = [op EXCEPT ![a].list = objects[op[a].in], ![a].place = "sendList"]
    /\ UNCHANGED <<places, people, queues, view, history>>

TellList(a) ==
    /\ At(a, "sendList")
    /\ Told({session[op[a].who]}, LAMBDA v : Client!Spawned(v, op[a].list))
    /\ op' = [op EXCEPT ![a] = Idle]
    /\ UNCHANGED <<places, people, queues, history>>

\* LeaveRoom; when RemoveObject fails a change of room ends with it.
RemoveObject(a) ==
    LET p == op[a].who  r == op[a].in IN
    /\ At(a, "removeObject")
    /\ Overlap \/ ~Busy(a, r)
    /\ IF p \in objects[r]
       THEN /\ objects' = [objects EXCEPT ![r] = @ \ {p}]
            /\ room' = [room EXCEPT ![p] = None]
            /\ Goto(a, "leaveGame")
       ELSE /\ op' = [op EXCEPT ![a].place = "leaveGame", ![a].next = None]
            /\ UNCHANGED places
    /\ calm' = (calm /\ ~Busy(a, r))
    /\ UNCHANGED <<people, queues, view, greeted, visited, left, astray>>

\* Fault: the player itself gets no S_LEAVE_GAME.
TellLeftNot(a) ==
    /\ At(a, "leaveGame")
    /\ Goto(a, "despawn")
    /\ UNCHANGED <<places, people, queues, view, history>>

\* S_LEAVE_GAME to the player itself.
TellLeft(a) ==
    /\ At(a, "leaveGame")
    /\ Told({session[op[a].who]}, Client!Cleared)
    /\ Goto(a, "despawn")
    /\ UNCHANGED <<places, people, queues, history>>

\* S_DESPAWN to the others, and then to the player itself.
TellDespawn(a) ==
    LET p == op[a].who IN
    /\ At(a, "despawn")
    /\ Told(Others(op[a].in, p), LAMBDA v : Client!Despawned(v, p))
    /\ Goto(a, "despawnSelf")
    /\ UNCHANGED <<places, people, queues, history>>

\* Fault: the second half of a change of room is forgotten.
TellDespawnSelfEnds(a) ==
    LET p == op[a].who IN
    /\ At(a, "despawnSelf")
    /\ Told({session[p]}, LAMBDA v : Client!Despawned(v, p))
    /\ op' = [op EXCEPT ![a] = Idle]
    /\ UNCHANGED <<places, people, queues, history>>

\* RelocatePlayerToRoom goes on with HandleEnterPlayer.
TellDespawnSelf(a) ==
    LET p == op[a].who IN
    /\ At(a, "despawnSelf")
    /\ Told({session[p]}, LAMBDA v : Client!Despawned(v, p))
    /\ op' = [op EXCEPT ![a] = IF @.next = None THEN Idle ELSE EnterOp(p, @.next)]
    /\ UNCHANGED <<places, people, queues, history>>

\* Fault: the player is not looked up.
FindNot(a) ==
    LET r == op[a].in IN
    /\ At(a, "find")
    /\ Overlap \/ ~Busy(a, r)
    /\ Goto(a, "broadcast")
    /\ calm' = (calm /\ ~Busy(a, r))
    /\ UNCHANGED <<places, people, queues, view, greeted, visited, left, astray>>

\* HandleMove, HandleREQMove, HandleREQShoot, HandleREQAttack: the player may
\* have left since the job was posted.
Find(a) ==
    LET r == op[a].in IN
    /\ At(a, "find")
    /\ Overlap \/ ~Busy(a, r)
    /\ IF op[a].who \in objects[r] THEN Goto(a, "broadcast") ELSE op' = [op EXCEPT ![a] = Idle]
    /\ calm' = (calm /\ ~Busy(a, r))
    /\ UNCHANGED <<places, people, queues, view, greeted, visited, left, astray>>

\* S_MOVE, S_RES_MOVE, S_RES_SHOOT or S_RES_ATTACK to everybody in the room;
\* the client looks the player up in Players and uses the actor.
Broadcast(a) ==
    /\ At(a, "broadcast")
    /\ astray' = (calm /\ \E s \in Others(op[a].in, None) \cap open :
                             op[a].who \notin Client!Shown(view[s]))
    /\ op' = [op EXCEPT ![a] = Idle]
    /\ UNCHANGED <<places, people, queues, view, greeted, visited, left, calm>>

Step(a) == \/ AddObject(a) \/ TellEntered(a) \/ TellSpawn(a) \/ CollectList(a) \/ TellList(a)
           \/ RemoveObject(a) \/ TellLeft(a) \/ TellDespawn(a) \/ TellDespawnSelf(a)
           \/ Find(a) \/ Broadcast(a)

Next == \/ \E s \in Sessions : \/ \E p \in Players : Login(s, p) \/ Relay(s, p)
                               \/ \E r \in Rooms : ReqEnterRoom(s, r)
                               \/ LeaveGame(s)
                               \/ Disconnect(s)
        \/ \E r \in Rooms : StartJob(r) \/ HandOver(r) \/ EndExecute(r) \/ Tick(r)
        \/ \E a \in Actors : Step(a)

Spec == Init /\ [][Next]_vars

-----------------------------------------------------------------------------
(* Properties *)

\* Types; a queue with jobs has an executor.
TypeOK ==
    /\ objects \in [Rooms -> SUBSET Players]
    /\ room \in [Players -> Rooms \cup {None}]
    /\ session \in [Players -> Sessions \cup {None}]
    /\ player \in [Sessions -> Players \cup {None}]
    /\ open \subseteq Sessions
    /\ \A r \in Rooms : \A i \in DOMAIN jobs[r] : jobs[r][i] \in Op
    /\ executor \in [Rooms -> Sessions \cup {Pool, None}]
    /\ \A r \in Rooms : jobs[r] # << >> => executor[r] # None
    /\ op \in [Actors -> Op]
    /\ view \in [Sessions -> Client!View]
    /\ greeted \subseteq Players /\ left \subseteq Players
    /\ visited \in [Players -> SUBSET Rooms]
    /\ calm \in BOOLEAN /\ astray \in BOOLEAN

\* Object::room and the rooms' maps agree, so that a player is in one room
\* at most, whatever handlers and jobs do at once.
RoomAgrees == \A p \in Players, r \in Rooms : p \in objects[r] <=> room[p] = r

\* "If it is there, something is wrong" (AddObject), and "if it is not there,
\* something is wrong" (RemoveObject): neither early return is ever taken.
NoFailedEntry ==
    /\ \A a \in Actors : At(a, "addObject") => op[a].who \notin objects[op[a].in]
    /\ \A a \in Actors : At(a, "removeObject") => op[a].who \in objects[op[a].in]

\* What the server has of a player's place is of one piece, whatever overlaps:
\* a player is in one room at most, the one it refers to, and every operation
\* finds it where it was when the operation was called.
PlacesAgree == RoomAgrees /\ NoFailedEntry

\* A player whose login was granted is in a room, unless it left by itself,
\* or somebody is about to put it there: a job, or a handler that takes it
\* from one room to another.  No second half of a change is ever lost.
EveryPlayerPlaced ==
    \A p \in Players : session[p] # None /\ p \notin left =>
        \/ room[p] # None
        \/ \E r \in Rooms : \E i \in DOMAIN jobs[r] : jobs[r][i] = EnterOp(p, r)
        \/ \E a \in Actors : op[a].who = p /\ (At(a, "addObject") \/ op[a].next # None)

\* Nobody is inside of the room.
Quiet(r) == \A a \in Actors : ~Inside(a, r)

\* What clients see is the room they are in: the client of a player shows
\* exactly the room's players.  ("the entry is made known to the other
\* players", "the list of those who entered before is sent to the new
\* player", "the leaving is made known")
ViewMatchesRoom ==
    \A r \in Rooms : Quiet(r) => \A p \in objects[r] :
        session[p] \in open => Client!Shown(view[session[p]]) = objects[r]

\* So it is as long as no two operations met in a room and nobody logged in
\* twice (and nobody came back to a room: MayReturn); and the client of a
\* player that left shows nobody.
CalmViewsMatch ==
    calm => /\ ViewMatchesRoom
            /\ \A s \in open :
                  LET p == player[s] IN
                  At(s, "idle") /\ p \in greeted /\ room[p] = None =>
                      Client!Shown(view[s]) = {}

\* Until then, too, whatever is relayed in a room is about a player that
\* every client it reaches shows: no handler of the client meets an entry
\* of Players whose actor was destroyed.
RelaysReachActors == calm => ~astray
=============================================================================
