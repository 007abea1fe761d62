-------------------------------- MODULE Arena --------------------------------
(***************************************************************************)
(* Walking and shooting in one room: what a player asks for goes to the    *)
(* server (C_REQ_MOVE, C_REQ_SHOOT, C_REQ_ATTACK), is applied there by a   *)
(* job of the room and sent to everybody in it, and each client plays it   *)
(* on a pawn of its own.  Every client reports the arrival of every pawn   *)
(* (C_MOVE), its own or not, and the server relays that, too.              *)
(*                                                                         *)
(* A client and its player have one name; who has entered stays (leaving   *)
(* is the subject of Room.tla).  Packets between a client and the server   *)
(* stay in order, and the jobs of the room are executed one at a time in   *)
(* the order in which they were posted (JobQueue.tla): a packet stays in   *)
(* up until its job is executed.                                           *)
(***************************************************************************)
EXTENDS Naturals, Sequences

CONSTANTS Clients,
          Places,      \* where a pawn can be or be sent
          Starts,      \* those where players enter
          Way,         \* somewhere between two places
          Movers, Shooters,  \* the clients that walk, that shoot, in a model
          MaxMoves, MaxShots,
          MaxHp, Damage,
          None

ASSUME ArenaAssumption == /\ Movers \cup Shooters \subseteq Clients
                          /\ Starts \subseteq Places /\ Way \notin Places /\ None \notin Places \cup {Way}
                          /\ MaxMoves \in Nat /\ MaxShots \in Nat
                          /\ MaxHp \in Nat /\ Damage \in Nat

VARIABLES objects,   \* _objects of the room
          posInfo,   \* Object::posInfo: place, and whether its state is RUN
          up, down,  \* packets on their way to the server, to the client
          pawn,      \* Players of each client: its pawns
          bullets,   \* Objects of each client
          moves, shots,
          hits,      \* history: the hits reported, <<bullet, target>>
          asked,     \* history: where each player was last sent
          late,      \* history: players for which an arrival elsewhere was
                     \* applied after that
          hurt,      \* history: targets of the attacks so far
          missed     \* history: of those, the ones before a client entered

server  == <<objects, posInfo>>
world   == <<pawn, bullets>>
bounds  == <<moves, shots, hits>>
history == <<asked, late, hurt, missed>>
vars    == <<server, up, down, world, bounds, history>>

Where == Places \cup {Way}
Info == [at : Where, run : BOOLEAN]
Bullet == [id : 1 .. MaxShots, by : Clients]

Up == [type : {"reqMove", "move", "reqShoot"}, who : Clients, info : Info, bullet : 0 .. MaxShots]
      \cup [type : {"reqAttack"}, who : Clients, target : Clients, bullet : 1 .. MaxShots]

Down == [type : {"resMove", "move", "resShoot"}, who : Clients, info : Info, bullet : 0 .. MaxShots]
        \cup [type : {"resAttack"}, who : Clients, target : Clients, bullet : 1 .. MaxShots]
        \cup [type : {"spawn"}, list : UNION {[S -> Info] : S \in SUBSET Clients}]

\* What a client has of a player: the actor's place and DestInfo, the target
\* of its path following, whether the state is RUN, and CurrentHp.
Pawn == [at : Where, dest : Where, goal : Where \cup {None}, run : BOOLEAN, hp : 0 .. MaxHp]

\* SpawnActor, BeginPlay, then SetPlayerInfo.
Spawn(info) == [at |-> info.at, dest |-> info.at, goal |-> None, run |-> info.run, hp |-> MaxHp]

\* HandleSpawn: who is in Players already is left alone.
Spawned(ps, list) ==
    [p \in DOMAIN ps \cup DOMAIN list |-> IF p \in DOMAIN ps THEN ps[p] ELSE Spawn(list[p])]

Init == /\ objects = {}
        /\ posInfo \in [Clients -> [at : Starts, run : {FALSE}]]
        /\ up = [c \in Clients |-> << >>]
        /\ down = [c \in Clients |-> << >>]
        /\ pawn = [c \in Clients |-> << >>]
        /\ bullets = [c \in Clients |-> {}]
        /\ moves = 0 /\ shots = 0
        /\ hits = {}
        /\ asked = [p \in Clients |-> posInfo[p].at]
        /\ late = {}
        /\ hurt = {}
        /\ missed = [c \in Clients |-> {}]

-----------------------------------------------------------------------------
(* The player at a client, and the client's ticks *)

SendPacket(c, pkt) == up' = [up EXCEPT ![c] = Append(@, pkt)]

Here(c) == c \in DOMAIN pawn[c]

\* The pawn's PlayerInfo, with where it is or where it was sent.
Packet(type, c, p, at, bullet) ==
    [type |-> type, who |-> p, info |-> [at |-> at, run |-> pawn[c][p].run], bullet |-> bullet]

\* OnMoveMouseClick.
Click(c, to) ==
    /\ c \in Movers /\ Here(c) /\ moves < MaxMoves
    /\ moves' = moves + 1
    /\ SendPacket(c, Packet("reqMove", c, c, to, 0))
    /\ UNCHANGED <<server, down, world, shots, hits, history>>

\* OnAttackMouseClick; the bullet's id is the server's to give, and here its
\* number.
ShootClick(c) ==
    /\ c \in Shooters /\ Here(c) /\ shots < MaxShots
    /\ shots' = shots + 1
    /\ SendPacket(c, Packet("reqShoot", c, c, pawn[c][c].at, shots + 1))
    /\ UNCHANGED <<server, down, world, moves, hits, history>>

Alive(c) == {p \in DOMAIN pawn[c] : pawn[c][p].hp > 0}

\* Path following, which goes on whatever becomes of the state, but not for
\* the dead.  Where a pawn is on its way is told to others only by its own
\* client, in a shot.
WalkOn(c) ==
    /\ c \in Alive(c)
    /\ pawn[c][c].goal # None
    /\ pawn[c][c].at \notin {Way, pawn[c][c].goal}
    /\ pawn' = [pawn EXCEPT ![c][c].at = Way]
    /\ UNCHANGED <<server, up, down, bullets, bounds, history>>

WalkTo(c, p) ==
    /\ p \in Alive(c)
    /\ pawn[c][p].goal # None
    /\ pawn' = [pawn EXCEPT ![c][p].at = pawn[c][p].goal, ![c][p].goal = None]
    /\ UNCHANGED <<server, up, down, bullets, bounds, history>>

\* CheckArrival and OnArrival.
Arrives(c, p) == p \in DOMAIN pawn[c] /\ pawn[c][p].run /\ pawn[c][p].at = pawn[c][p].dest

\* Fault: the packet is made before the state is set.
ArriveRunning(c, p) ==
    /\ Arrives(c, p)
    /\ pawn' = [pawn EXCEPT ![c][p].run = FALSE]
    /\ SendPacket(c, Packet("move", c, p, pawn[c][p].dest, 0))
    /\ UNCHANGED <<server, down, bullets, bounds, history>>

Arrive(c, p) ==
    /\ Arrives(c, p)
    /\ pawn' = [pawn EXCEPT ![c][p].run = FALSE]
    /\ SendPacket(c, [Packet("move", c, p, pawn[c][p].dest, 0) EXCEPT !.info.run = FALSE])
    /\ UNCHANGED <<server, down, bullets, bounds, history>>

\* OnSphereOverlap, on the client of the one who shot; the dead do not
\* collide.  That a bullet hits a target once is a bound of the model: the
\* code reports every overlap.
Hit(c, b, p) ==
    /\ b \in bullets[c] /\ b.by = c
    /\ p \in Alive(c) \ {c}
    /\ <<b.id, p>> \notin hits
    /\ hits' = hits \cup {<<b.id, p>>}
    /\ SendPacket(c, [type |-> "reqAttack", who |-> c, target |-> p, bullet |-> b.id])
    /\ UNCHANGED <<server, down, world, moves, shots, history>>

\* The bullet's time or distance is up.
BulletEnds(c, b) ==
    /\ b \in bullets[c]
    /\ bullets' = [bullets EXCEPT ![c] = @ \ {b}]
    /\ UNCHANGED <<server, up, down, pawn, bounds, history>>

-----------------------------------------------------------------------------
(* Jobs of the room *)

Tell(to, pkt) == [c \in Clients |-> IF c \in to THEN Append(down[c], pkt) ELSE down[c]]

\* The first packet of a client, as a job of the room.
Job(c, type) == up[c] # << >> /\ Head(up[c]).type = type

Broadcast(c, pkt) == /\ up' = [up EXCEPT ![c] = Tail(@)]
                     /\ down' = Tell(objects, pkt)

\* EnterRoom, for a login: S_ENTER_GAME and the list to the new player,
\* S_SPAWN to the others.
EnterRoom(p) ==
    /\ p \notin objects
    /\ objects' = objects \cup {p}
    /\ LET self == [type |-> "spawn", list |-> [q \in {p} |-> posInfo[q]]]
           list == [type |-> "spawn", list |-> [q \in objects' |-> posInfo[q]]]
       IN  down' = [Tell(objects, self) EXCEPT ![p] = @ \o <<self, list>>]
    /\ missed' = [missed EXCEPT ![p] = hurt]
    /\ UNCHANGED <<posInfo, up, world, bounds, asked, late, hurt>>

HandleREQMove(c) ==
    LET pkt == Head(up[c]) IN
    /\ Job(c, "reqMove")
    /\ posInfo' = [posInfo EXCEPT ![pkt.who] = pkt.info]
    /\ Broadcast(c, [pkt EXCEPT !.type = "resMove"])
    /\ asked' = [asked EXCEPT ![pkt.who] = pkt.info.at]
    /\ late' = late \ {pkt.who}
    /\ UNCHANGED <<objects, world, bounds, hurt, missed>>

\* Fault: the arrival is relayed and not applied.
HandleMoveRelays(c) ==
    LET pkt == Head(up[c]) IN
    /\ Job(c, "move")
    /\ Broadcast(c, pkt)
    /\ late' = IF pkt.info.at = asked[pkt.who] THEN late \ {pkt.who} ELSE late \cup {pkt.who}
    /\ UNCHANGED <<server, world, bounds, asked, hurt, missed>>

HandleMove(c) ==
    LET pkt == Head(up[c]) IN
    /\ Job(c, "move")
    /\ posInfo' = [posInfo EXCEPT ![pkt.who] = pkt.info]
    /\ Broadcast(c, pkt)
    /\ late' = IF pkt.info.at = asked[pkt.who] THEN late \ {pkt.who} ELSE late \cup {pkt.who}
    /\ UNCHANGED <<objects, world, bounds, asked, hurt, missed>>

HandleREQShoot(c) ==
    LET pkt == Head(up[c]) IN
    /\ Job(c, "reqShoot")
    /\ posInfo' = [posInfo EXCEPT ![pkt.who] = pkt.info]
    /\ Broadcast(c, [pkt EXCEPT !.type = "resShoot"])
    /\ UNCHANGED <<objects, world, bounds, history>>

HandleREQAttack(c) ==
    LET pkt == Head(up[c]) IN
    /\ Job(c, "reqAttack")
    /\ Broadcast(c, [pkt EXCEPT !.type = "resAttack"])
    /\ hurt' = hurt \cup {pkt.target}
    /\ UNCHANGED <<server, world, bounds, asked, late, missed>>

-----------------------------------------------------------------------------
(* What a client does with the server's packets *)

\* The first packet of the server.
Got(c, type) == down[c] # << >> /\ Head(down[c]).type = type

Handled(c) == down' = [down EXCEPT ![c] = Tail(@)]

\* S_ENTER_GAME and S_SPAWN.
HandleSpawn(c) ==
    /\ Got(c, "spawn")
    /\ pawn' = [pawn EXCEPT ![c] = Spawned(@, Head(down[c]).list)]
    /\ Handled(c)
    /\ UNCHANGED <<server, up, bullets, bounds, history>>

\* Fault: the pawn is sent to the destination it had.
HandleResMoveSwapped(c) ==
    LET pkt == Head(down[c])  to == pkt.info.at IN
    /\ Got(c, "resMove")
    /\ IF pkt.who \in DOMAIN pawn[c]
       THEN pawn' = [pawn EXCEPT ![c][pkt.who] =
                        [@ EXCEPT !.dest = to, !.goal = pawn[c][pkt.who].dest, !.run = TRUE]]
       ELSE UNCHANGED pawn
    /\ Handled(c)
    /\ UNCHANGED <<server, up, bullets, bounds, history>>

\* S_RES_MOVE: SetDestInfo and MoveToTargetLocation.
HandleResMove(c) ==
    LET pkt == Head(down[c])  to == pkt.info.at IN
    /\ Got(c, "resMove")
    /\ IF pkt.who \in DOMAIN pawn[c]
       THEN pawn' = [pawn EXCEPT ![c][pkt.who] =
                        [@ EXCEPT !.dest = to, !.goal = to, !.run = TRUE]]
       ELSE UNCHANGED pawn
    /\ Handled(c)
    /\ UNCHANGED <<server, up, bullets, bounds, history>>

\* S_MOVE: SetDestInfoDirectly, unless it is the client's own.
ClientMove(c) ==
    LET pkt == Head(down[c])  at == pkt.info.at IN
    /\ Got(c, "move")
    /\ IF pkt.who \in DOMAIN pawn[c] \ {c}
       THEN pawn' = [pawn EXCEPT ![c][pkt.who] =
                        [@ EXCEPT !.dest = at, !.at = at, !.run = pkt.info.run]]
       ELSE UNCHANGED pawn
    /\ Handled(c)
    /\ UNCHANGED <<server, up, bullets, bounds, history>>

\* S_RES_SHOOT: FireWeapon, if the time of FireRate is over.
HandleResShoot(c) ==
    LET pkt == Head(down[c]) IN
    /\ Got(c, "resShoot")
    /\ \/ pkt.who \in DOMAIN pawn[c] /\
          bullets' = [bullets EXCEPT ![c] = @ \cup {[id |-> pkt.bullet, by |-> pkt.who]}]
       \/ UNCHANGED bullets
    /\ Handled(c)
    /\ UNCHANGED <<server, up, pawn, bounds, history>>

\* Fault: the damage is the bullet's, where there is one.
HandleResAttackByBullet(c) ==
    LET pkt == Head(down[c]) IN
    /\ Got(c, "resAttack")
    /\ IF {pkt.who, pkt.target} \subseteq DOMAIN pawn[c] /\ \E b \in bullets[c] : b.id = pkt.bullet
       THEN pawn' = [pawn EXCEPT ![c][pkt.target].hp = IF @ > Damage THEN @ - Damage ELSE 0]
       ELSE UNCHANGED pawn
    /\ bullets' = [bullets EXCEPT ![c] = {b \in @ : b.id # pkt.bullet}]
    /\ Handled(c)
    /\ UNCHANGED <<server, up, bounds, history>>

\* S_RES_ATTACK: TakeDamage, and the end of the bullet.
HandleResAttack(c) ==
    LET pkt == Head(down[c]) IN
    /\ Got(c, "resAttack")
    /\ IF {pkt.who, pkt.target} \subseteq DOMAIN pawn[c]
       THEN /\ pawn' = [pawn EXCEPT ![c][pkt.target].hp = IF @ > Damage THEN @ - Damage ELSE 0]
            /\ bullets' = [bullets EXCEPT ![c] = {b \in @ : b.id # pkt.bullet}]
       ELSE UNCHANGED world
    /\ Handled(c)
    /\ UNCHANGED <<server, up, bounds, history>>

-----------------------------------------------------------------------------

RoomJob(c) == HandleREQMove(c) \/ HandleMove(c) \/ HandleREQShoot(c) \/ HandleREQAttack(c)

HandleRecvPacket(c) == \/ HandleSpawn(c) \/ HandleResMove(c) \/ ClientMove(c)
                       \/ HandleResShoot(c) \/ HandleResAttack(c)

Next == \E c \in Clients :
            \/ EnterRoom(c)
            \/ \E to \in Places : Click(c, to)
            \/ ShootClick(c)
            \/ WalkOn(c)
            \/ \E p \in Clients : WalkTo(c, p) \/ Arrive(c, p)
            \/ \E b \in Bullet : BulletEnds(c, b) \/ \E p \in Clients : Hit(c, b, p)
            \/ RoomJob(c)
            \/ HandleRecvPacket(c)

HandleSome == \E c \in Clients : RoomJob(c) \/ HandleRecvPacket(c)

\* As long as packets are under way some are handled; nobody has to click, to
\* walk or to arrive.
Spec == Init /\ [][Next]_vars /\ WF_vars(HandleSome)

-----------------------------------------------------------------------------
(* Properties *)

\* Types of all variables; a client has pawns only of players in the room,
\* and a pawn that runs has its destination as its goal or is there.
TypeOK ==
    /\ objects \subseteq Clients
    /\ posInfo \in [Clients -> Info]
    /\ up \in [Clients -> Seq(Up)]
    /\ down \in [Clients -> Seq(Down)]
    /\ DOMAIN pawn = Clients
    /\ \A c \in Clients :
          /\ DOMAIN pawn[c] \subseteq objects
          /\ \A p \in DOMAIN pawn[c] :
                LET w == pawn[c][p] IN
                w \in Pawn /\ (w.run => w.goal = w.dest \/ w.at = w.dest)
    /\ bullets \in [Clients -> SUBSET Bullet]
    /\ moves \in 0 .. MaxMoves /\ shots \in 0 .. MaxShots
    /\ hits \subseteq (1 .. MaxShots) \X Clients
    /\ asked \in [Clients -> Where]
    /\ late \subseteq Clients /\ hurt \subseteq Clients
    /\ missed \in [Clients -> SUBSET Clients]

NoTraffic == \A c \in Clients : up[c] = << >> /\ down[c] = << >>

\* Nothing is under way, and the player walks on no client.
Settled(p) == /\ NoTraffic
              /\ \A c \in objects : pawn[c][p].goal = None /\ ~pawn[c][p].run

SeenAsIs(p) == \A c \in objects : pawn[c][p].at = posInfo[p].at

\* "The move is made known, to the player itself as well" (HandleMove,
\* HandleREQMove): when all has settled every client shows the player where
\* the server has it.
MoveMadeKnown == \A p \in objects : Settled(p) => SeenAsIs(p)

\* So it is for every player for which no arrival came late: whatever order
\* requests, shots on the way, arrivals on the several clients and the
\* entry of new clients are handled in.
PositionsAgree == \A p \in objects \ late : Settled(p) => SeenAsIs(p)

\* The server keeps no health; each client takes it from the same attacks.
\* When nothing is under way two clients that saw all attacks on a player agree,
\* whether or not they had the bullet.
HealthAgrees ==
    NoTraffic => \A c, d \in objects : \A p \in objects \ (missed[c] \cup missed[d]) :
                    pawn[c][p].hp = pawn[d][p].hp

\* Reports of arrivals that are relayed do not make new ones: when nobody
\* clicks any more the packets come to an end.
TrafficDiesOut == <>[]NoTraffic
=============================================================================
