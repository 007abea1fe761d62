----------------------------- MODULE ArenaProofs -----------------------------
(***************************************************************************)
(* Proofs about Arena.tla: types; that all clients and the server place a  *)
(* player alike once everything has settled; and that the clients agree on *)
(* its health.                                                             *)
(***************************************************************************)
EXTENDS Arena, SequenceTheorems, FiniteSetTheorems, TLAPS

-----------------------------------------------------------------------------
(* Types.  A queue is a sequence of packets of one kind; that arrivals are *)
(* reported standing, and that a runner's goal, while it has one, is its   *)
(* destination, is what the type invariant needs beyond itself.            *)

ToServer == {k \in Up : /\ k.type = "move" => ~k.info.run
                        /\ k.type = "reqShoot" => k.bullet \in 1 .. MaxShots}

Lists == UNION {[S -> Info] : S \in SUBSET Clients}

Told == [type : {"resMove", "move", "resShoot"}, who : Clients, info : Info, bullet : 0 .. MaxShots]

ToClient == {k \in Told : /\ k.type = "move" => ~k.info.run
                          /\ k.type = "resShoot" => k.bullet \in 1 .. MaxShots}
            \cup [type : {"resAttack"}, who : Clients, target : Clients, bullet : 1 .. MaxShots]
            \cup [type : {"spawn"}, list : Lists]

Walker == {w \in Pawn : w.run => w.goal = w.dest \/ (w.goal = None /\ w.at = w.dest)}

Typed == /\ objects \subseteq Clients
         /\ posInfo \in [Clients -> Info]
         /\ up \in [Clients -> Seq(ToServer)]
         /\ down \in [Clients -> Seq(ToClient)]
         /\ DOMAIN pawn = Clients
         /\ \A c \in Clients : /\ DOMAIN pawn[c] \subseteq Clients
                               /\ \A p \in DOMAIN pawn[c] : pawn[c][p] \in Walker
         /\ bullets \in [Clients -> SUBSET Bullet]
         /\ shots \in Nat
         /\ asked \in [Clients -> Where]
         /\ late \subseteq Clients /\ hurt \subseteq Clients
         /\ missed \in [Clients -> SUBSET Clients]

(* Queues *)

\* What is put at the end of a queue, and what is left of one.
LEMMA Appended ==
    ASSUME NEW S, NEW q \in Seq(S), NEW k \in S
    PROVE  /\ Append(q, k) \in Seq(S)
           /\ Len(q) \in Nat
           /\ Len(Append(q, k)) = Len(q) + 1
           /\ \A i \in 1 .. Len(q) : Append(q, k)[i] = q[i]
           /\ Append(q, k)[Len(q) + 1] = k
  BY AppendProperties, LenProperties

LEMMA Removed ==
    ASSUME NEW S, NEW q \in Seq(S), q # << >>
    PROVE  /\ Tail(q) \in Seq(S)
           /\ Head(q) = q[1] /\ Head(q) \in S
           /\ Len(q) \in Nat /\ Len(q) >= 1
           /\ Len(Tail(q)) = Len(q) - 1
           /\ \A i \in 1 .. Len(q) - 1 : Tail(q)[i] = q[i + 1]
  <1>1. /\ Tail(q) \in Seq(S) /\ Head(q) \in S
        /\ Len(Tail(q)) = Len(q) - 1
        /\ \A i \in 1 .. Len(Tail(q)) : Tail(q)[i] = q[i + 1]
    BY HeadTailProperties
  <1>2. Len(q) \in Nat /\ Len(q) >= 1
    BY EmptySeq, LenProperties
  <1>3. Head(q) = q[1]
    OBVIOUS
  <1> QED
    BY <1>1, <1>2, <1>3

LEMMA Nothing ==
    ASSUME NEW S
    PROVE  << >> \in Seq(S) /\ Len(<< >>) = 0 /\ DOMAIN << >> = {}
  <1>1. << >> \in Seq(S) /\ Len(<< >>) = 0
    BY EmptySeq
  <1>2. DOMAIN << >> = 1 .. Len(<< >>)
    BY <1>1, LenProperties
  <1>3. 1 .. 0 = {}
    OBVIOUS
  <1> QED
    BY <1>1, <1>2, <1>3

\* The packets of a queue to the server, and what the server tells of them.
LEMMA UpPackets ==
    ASSUME NEW k \in ToServer
    PROVE  /\ k.type \in {"reqMove", "move", "reqShoot", "reqAttack"} /\ k.who \in Clients
           /\ k.type # "reqAttack" => k.info \in Info /\ k.info.at \in Where
           /\ k.type = "reqAttack" => k.target \in Clients
  BY DEF ToServer, Up, Info

LEMMA AnswerPackets ==
    ASSUME NEW k \in ToServer
    PROVE  /\ k.type = "move" => k \in ToClient /\ ~k.info.run
           /\ k.type = "reqMove" =>
                 LET r == [k EXCEPT !.type = "resMove"]
                 IN  r \in ToClient /\ r.type = "resMove" /\ r.who = k.who /\ r.info = k.info
           /\ k.type = "reqShoot" =>
                 LET r == [k EXCEPT !.type = "resShoot"]
                 IN  r \in ToClient /\ r.type = "resShoot" /\ r.who = k.who
           /\ k.type = "reqAttack" =>
                 LET r == [k EXCEPT !.type = "resAttack"]
                 IN  r \in ToClient /\ r.type = "resAttack" /\ r.who = k.who /\ r.target = k.target
  <1>1. CASE k.type = "reqAttack"
    BY <1>1 DEF ToServer, Up, ToClient
  <1>2. CASE k.type = "move"
    BY <1>2 DEF ToServer, Up, ToClient, Told
  <1>3. CASE k.type = "reqMove"
    BY <1>3 DEF ToServer, Up, ToClient, Told
  <1>4. CASE k.type = "reqShoot"
    BY <1>4 DEF ToServer, Up, ToClient, Told
  <1> QED
    BY <1>1, <1>2, <1>3, <1>4, UpPackets

LEMMA DownPackets ==
    ASSUME NEW k \in ToClient
    PROVE  /\ k.type \in {"resMove", "move", "resShoot", "resAttack", "spawn"}
           /\ k.type \in {"resMove", "move", "resShoot"} =>
                 k.who \in Clients /\ k.info \in Info /\ k.info.at \in Where /\ k.info.run \in BOOLEAN
           /\ k.type = "move" => ~k.info.run
           /\ k.type = "resShoot" => k.bullet \in 1 .. MaxShots
           /\ k.type = "resAttack" => k.who \in Clients /\ k.target \in Clients
           /\ k.type = "spawn" => /\ DOMAIN k.list \subseteq Clients
                                  /\ \A p \in DOMAIN k.list : k.list[p] \in Info
  BY DEF ToClient, Told, Info, Lists

(* Pawns *)

\* A step that changes at most the pawn of p at c.
OnePawn(c, p, w) ==
    /\ DOMAIN pawn' = DOMAIN pawn
    /\ \A d \in Clients : DOMAIN pawn'[d] = DOMAIN pawn[d]
    /\ pawn'[c][p] = w
    /\ \A d \in Clients : \A r \in DOMAIN pawn[d] : d # c \/ r # p => pawn'[d][r] = pawn[d][r]

LEMMA OnePawnChanges ==
    ASSUME Typed, NEW c \in Clients, NEW p \in DOMAIN pawn[c], NEW w,
           pawn' = [pawn EXCEPT ![c] = [@ EXCEPT ![p] = w]]
    PROVE  OnePawn(c, p, w)
  BY DEF Typed, OnePawn

LEMMA WalksOn ==
    ASSUME Typed, NEW c \in Clients, WalkOn(c)
    PROVE  /\ c \in DOMAIN pawn[c] /\ pawn[c][c] \in Walker
           /\ OnePawn(c, c, [pawn[c][c] EXCEPT !.at = Way])
  <1>1. c \in DOMAIN pawn[c] /\ pawn[c][c] \in Walker
    BY DEF WalkOn, Alive, Typed
  <1>2. pawn' = [pawn EXCEPT ![c] = [@ EXCEPT ![c] = [pawn[c][c] EXCEPT !.at = Way]]]
    BY <1>1 DEF WalkOn, Typed
  <1> QED
    BY <1>1, <1>2, OnePawnChanges

LEMMA WalksTo ==
    ASSUME Typed, NEW c \in Clients, NEW p \in Clients, WalkTo(c, p)
    PROVE  /\ p \in DOMAIN pawn[c] /\ pawn[c][p] \in Walker /\ pawn[c][p].goal # None
           /\ OnePawn(c, p, [pawn[c][p] EXCEPT !.at = pawn[c][p].goal, !.goal = None])
  <1>1. p \in DOMAIN pawn[c] /\ pawn[c][p] \in Walker /\ pawn[c][p].goal # None
    BY DEF WalkTo, Alive, Typed
  <1> DEFINE w == [pawn[c][p] EXCEPT !.at = pawn[c][p].goal, !.goal = None]
  <1>2. pawn' = [pawn EXCEPT ![c] = [@ EXCEPT ![p] = w]]
    BY <1>1 DEF WalkTo, Typed, Walker, Pawn
  <1> QED
    BY <1>1, <1>2, OnePawnChanges

LEMMA Arrived ==
    ASSUME Typed, NEW c \in Clients, NEW p \in Clients, Arrive(c, p)
    PROVE  /\ p \in DOMAIN pawn[c] /\ pawn[c][p] \in Walker
           /\ pawn[c][p].run /\ pawn[c][p].at = pawn[c][p].dest
           /\ OnePawn(c, p, [pawn[c][p] EXCEPT !.run = FALSE])
           /\ \E k \in ToServer : /\ k.type = "move" /\ k.who = p /\ k.info.at = pawn[c][p].dest
                                  /\ up' = [up EXCEPT ![c] = Append(@, k)]
  <1> DEFINE k == [Packet("move", c, p, pawn[c][p].dest, 0) EXCEPT !.info.run = FALSE]
  <1>1. p \in DOMAIN pawn[c] /\ pawn[c][p] \in Walker /\ pawn[c][p].run /\ pawn[c][p].at = pawn[c][p].dest
    BY DEF Arrive, Arrives, Typed
  <1>2. pawn' = [pawn EXCEPT ![c] = [@ EXCEPT ![p] = [pawn[c][p] EXCEPT !.run = FALSE]]]
    BY <1>1 DEF Arrive, Typed
  <1> DEFINE x == Packet("move", c, p, pawn[c][p].dest, 0)
  <1>2a. /\ x \in [type : {"move"}, who : Clients, info : Info, bullet : 0 .. MaxShots]
         /\ x.who = p /\ x.info.at = pawn[c][p].dest
    BY <1>1, ArenaAssumption DEF Info, Walker, Pawn, Packet
  <1>3. k \in ToServer /\ k.type = "move" /\ k.who = p /\ k.info.at = pawn[c][p].dest
    <2> HIDE DEF x
    <2>1. /\ k \in [type : {"move"}, who : Clients, info : Info, bullet : 0 .. MaxShots]
          /\ k.who = p /\ k.info.at = pawn[c][p].dest /\ ~k.info.run
      BY <1>2a DEF Info, x
    <2> HIDE DEF k
    <2> QED
      BY <2>1 DEF ToServer, Up
  <1>4. up' = [up EXCEPT ![c] = Append(@, k)]
    BY DEF Arrive, SendPacket
  <1> QED
    BY <1>1, <1>2, <1>3, <1>4, OnePawnChanges

LEMMA Clicked ==
    ASSUME Typed, NEW c \in Clients, NEW to \in Places, Click(c, to)
    PROVE  \E k \in ToServer : /\ k.type = "reqMove" /\ k.who = c
                               /\ up' = [up EXCEPT ![c] = Append(@, k)]
  <1> DEFINE k == Packet("reqMove", c, c, to, 0)
  <1>1. pawn[c][c] \in Walker
    BY DEF Click, Here, Typed
  <1>2. k \in ToServer
    BY <1>1, ArenaAssumption DEF ToServer, Up, Info, Walker, Pawn, Packet, Where
  <1> QED
    BY <1>2 DEF Click, SendPacket, Packet

LEMMA ShotAt ==
    ASSUME Typed, NEW c \in Clients, ShootClick(c)
    PROVE  /\ c \in DOMAIN pawn[c]
           /\ \E k \in ToServer : /\ k.type = "reqShoot" /\ k.who = c /\ k.info.at = pawn[c][c].at
                                  /\ up' = [up EXCEPT ![c] = Append(@, k)]
  <1> DEFINE k == Packet("reqShoot", c, c, pawn[c][c].at, shots + 1)
  <1>1. c \in DOMAIN pawn[c] /\ pawn[c][c] \in Walker
    BY DEF ShootClick, Here, Typed
  <1>2. shots + 1 \in 0 .. MaxShots /\ shots + 1 \in 1 .. MaxShots
    BY ArenaAssumption DEF ShootClick, Typed
  <1>3. k \in ToServer
    BY <1>1, <1>2, ArenaAssumption DEF ToServer, Up, Info, Walker, Pawn, Packet
  <1> QED
    BY <1>1, <1>3 DEF ShootClick, SendPacket, Packet

LEMMA HitReported ==
    ASSUME Typed, NEW c \in Clients, NEW b \in Bullet, NEW p \in Clients, Hit(c, b, p)
    PROVE  /\ c \in Clients /\ p \in DOMAIN pawn[c]
           /\ \E k \in ToServer : /\ k.type = "reqAttack" /\ k.who = c /\ k.target = p
                                  /\ up' = [up EXCEPT ![c] = Append(@, k)]
  <1> DEFINE k == [type |-> "reqAttack", who |-> c, target |-> p, bullet |-> b.id]
  <1>1. p \in DOMAIN pawn[c]
    BY DEF Hit, Alive
  <1>2. k \in ToServer
    BY DEF ToServer, Up, Bullet
  <1> QED
    BY <1>1, <1>2 DEF Hit, SendPacket

(* Jobs of the room: a packet is taken and one is told to all. *)

Serves(c, k) == /\ up[c] # << >> /\ Head(up[c]) \in ToServer /\ k \in ToClient
                /\ up' = [up EXCEPT ![c] = Tail(@)]
                /\ down' = Tell(objects, k)
                /\ UNCHANGED <<objects, world, bounds, missed>>

LEMMA FirstUp ==
    ASSUME Typed, NEW c \in Clients, up[c] # << >>
    PROVE  Head(up[c]) \in ToServer
  BY Removed, up[c] \in Seq(ToServer) DEF Typed

LEMMA ServesREQMove ==
    ASSUME Typed, NEW c \in Clients, HandleREQMove(c)
    PROVE  LET k == Head(up[c])  r == [k EXCEPT !.type = "resMove"]
           IN  /\ Serves(c, r) /\ k.type = "reqMove" /\ k.who \in Clients /\ k.info \in Info /\ k.info.at \in Where
               /\ r.type = "resMove" /\ r.who = k.who /\ r.info = k.info
               /\ posInfo' = [posInfo EXCEPT ![k.who] = k.info]
               /\ asked' = [asked EXCEPT ![k.who] = k.info.at]
               /\ late' = late \ {k.who}
               /\ hurt' = hurt
  <1>1. Head(up[c]) \in ToServer
    BY FirstUp DEF HandleREQMove, Job
  <1>2. HandleREQMove(c)
    OBVIOUS
  <1> QED
    BY <1>1, <1>2, UpPackets, AnswerPackets DEF HandleREQMove, Job, Broadcast, Serves

LEMMA ServesMove ==
    ASSUME Typed, NEW c \in Clients, HandleMove(c)
    PROVE  LET k == Head(up[c])
           IN  /\ Serves(c, k) /\ k.type = "move" /\ k.who \in Clients /\ k.info \in Info /\ k.info.at \in Where
               /\ posInfo' = [posInfo EXCEPT ![k.who] = k.info]
               /\ late' = IF k.info.at = asked[k.who] THEN late \ {k.who} ELSE late \cup {k.who}
               /\ asked' = asked /\ hurt' = hurt
  <1>1. Head(up[c]) \in ToServer
    BY FirstUp DEF HandleMove, Job
  <1>2. HandleMove(c)
    OBVIOUS
  <1> QED
    BY <1>1, <1>2, UpPackets, AnswerPackets DEF HandleMove, Job, Broadcast, Serves

LEMMA ServesREQShoot ==
    ASSUME Typed, NEW c \in Clients, HandleREQShoot(c)
    PROVE  LET k == Head(up[c])  r == [k EXCEPT !.type = "resShoot"]
           IN  /\ Serves(c, r) /\ k.type = "reqShoot" /\ k.who \in Clients /\ k.info \in Info
               /\ r.type = "resShoot" /\ r.who = k.who
               /\ posInfo' = [posInfo EXCEPT ![k.who] = k.info]
               /\ UNCHANGED history
  <1>1. Head(up[c]) \in ToServer
    BY FirstUp DEF HandleREQShoot, Job
  <1>2. HandleREQShoot(c)
    OBVIOUS
  <1> QED
    BY <1>1, <1>2, UpPackets, AnswerPackets DEF HandleREQShoot, Job, Broadcast, Serves, history

LEMMA ServesREQAttack ==
    ASSUME Typed, NEW c \in Clients, HandleREQAttack(c)
    PROVE  LET k == Head(up[c])  r == [k EXCEPT !.type = "resAttack"]
           IN  /\ Serves(c, r) /\ k.type = "reqAttack" /\ k.who \in Clients /\ k.target \in Clients
               /\ r.type = "resAttack" /\ r.who = k.who /\ r.target = k.target
               /\ hurt' = hurt \cup {k.target}
               /\ UNCHANGED <<posInfo, asked, late>>
  <1>1. Head(up[c]) \in ToServer
    BY FirstUp DEF HandleREQAttack, Job
  <1>2. HandleREQAttack(c)
    OBVIOUS
  <1> QED
    BY <1>1, <1>2, UpPackets, AnswerPackets DEF HandleREQAttack, Job, Broadcast, Serves, server

(* A client handles a packet. *)

Receives(c) == /\ down[c] # << >> /\ Head(down[c]) \in ToClient
               /\ down' = [down EXCEPT ![c] = Tail(@)]
               /\ UNCHANGED <<server, up, bounds, history>>

LEMMA FirstDown ==
    ASSUME Typed, NEW c \in Clients, down[c] # << >>
    PROVE  Head(down[c]) \in ToClient
  BY Removed, down[c] \in Seq(ToClient) DEF Typed

LEMMA ReceivesSome ==
    ASSUME Typed, NEW c \in Clients, HandleRecvPacket(c)
    PROVE  Receives(c)
  <1>1. down[c] # << >>
    BY DEF HandleRecvPacket, HandleSpawn, HandleResMove, ClientMove, HandleResShoot, HandleResAttack, Got
  <1>2. Head(down[c]) \in ToClient
    BY <1>1, FirstDown
  <1> QED
    BY <1>1, <1>2 DEF HandleRecvPacket, HandleSpawn, HandleResMove, ClientMove, HandleResShoot, HandleResAttack,
                      Handled, Receives

LEMMA ReceivesSpawn ==
    ASSUME Typed, NEW c \in Clients, HandleSpawn(c)
    PROVE  LET k == Head(down[c])
           IN  /\ k.type = "spawn" /\ DOMAIN k.list \subseteq Clients
               /\ DOMAIN pawn' = DOMAIN pawn
               /\ \A d \in Clients : d # c => pawn'[d] = pawn[d]
               /\ DOMAIN pawn'[c] = DOMAIN pawn[c] \cup DOMAIN k.list
               /\ \A p \in DOMAIN pawn[c] : pawn'[c][p] = pawn[c][p]
               /\ \A p \in DOMAIN k.list \ DOMAIN pawn[c] :
                     pawn'[c][p] = Spawn(k.list[p]) /\ k.list[p] \in Info /\ pawn'[c][p] \in Walker
               /\ bullets' = bullets
  <1> DEFINE k == Head(down[c])
  <1>1. k.type = "spawn" /\ k \in ToClient
    BY FirstDown DEF HandleSpawn, Got
  <1>2. DOMAIN k.list \subseteq Clients /\ \A p \in DOMAIN k.list : k.list[p] \in Info
    BY <1>1, DownPackets
  <1> HIDE DEF k
  <1>3. pawn' = [pawn EXCEPT ![c] = Spawned(@, k.list)] /\ bullets' = bullets
    BY DEF HandleSpawn, k
  <1>4. \A p \in DOMAIN k.list : Spawn(k.list[p]) \in Walker
    BY <1>2, ArenaAssumption DEF Spawn, Walker, Pawn, Info
  <1>5. /\ DOMAIN pawn' = DOMAIN pawn
        /\ \A d \in Clients : d # c => pawn'[d] = pawn[d]
        /\ pawn'[c] = Spawned(pawn[c], k.list)
    BY <1>3 DEF Typed
  <1>6. /\ DOMAIN pawn'[c] = DOMAIN pawn[c] \cup DOMAIN k.list
        /\ \A p \in DOMAIN pawn[c] : pawn'[c][p] = pawn[c][p]
        /\ \A p \in DOMAIN k.list \ DOMAIN pawn[c] : pawn'[c][p] = Spawn(k.list[p])
    BY <1>5 DEF Spawned
  <1> QED
    BY <1>1, <1>2, <1>3, <1>4, <1>5, <1>6 DEF k

LEMMA ReceivesResMove ==
    ASSUME Typed, NEW c \in Clients, HandleResMove(c)
    PROVE  LET k == Head(down[c])
               w == [pawn[c][k.who] EXCEPT !.dest = k.info.at, !.goal = k.info.at, !.run = TRUE]
           IN  /\ k.type = "resMove" /\ k.who \in Clients /\ k.info.at \in Where
               /\ k.who \in DOMAIN pawn[c] => w \in Walker /\ OnePawn(c, k.who, w)
               /\ k.who \notin DOMAIN pawn[c] => pawn' = pawn
               /\ bullets' = bullets
  <1> DEFINE k == Head(down[c])
             w == [pawn[c][k.who] EXCEPT !.dest = k.info.at, !.goal = k.info.at, !.run = TRUE]
  <1>1. k.type = "resMove" /\ k \in ToClient
    BY FirstDown DEF HandleResMove, Got
  <1>2. k.who \in Clients /\ k.info.at \in Where
    BY <1>1, DownPackets
  <1> HIDE DEF k
  <1>3. bullets' = bullets /\ (k.who \notin DOMAIN pawn[c] => pawn' = pawn)
    BY DEF HandleResMove, k
  <1>4. ASSUME k.who \in DOMAIN pawn[c] PROVE w \in Walker /\ OnePawn(c, k.who, w)
    <2>1. pawn' = [pawn EXCEPT ![c] = [@ EXCEPT ![k.who] = w]]
      BY <1>4 DEF HandleResMove, k, Typed
    <2>2. pawn[c][k.who] \in Pawn
      BY <1>4 DEF Typed, Walker
    <2>3. w \in Walker
      BY <2>2, <1>2 DEF Pawn, Walker
    <2> QED
      BY <2>1, <2>3, <1>4, OnePawnChanges
  <1> QED
    BY <1>1, <1>2, <1>3, <1>4 DEF k

LEMMA ReceivesMove ==
    ASSUME Typed, NEW c \in Clients, ClientMove(c)
    PROVE  LET k == Head(down[c])
               w == [pawn[c][k.who] EXCEPT !.dest = k.info.at, !.at = k.info.at, !.run = k.info.run]
           IN  /\ k.type = "move" /\ k.who \in Clients /\ k.info.at \in Where /\ ~k.info.run
               /\ k.who \in DOMAIN pawn[c] \ {c} => w \in Walker /\ OnePawn(c, k.who, w)
               /\ k.who \notin DOMAIN pawn[c] \ {c} => pawn' = pawn
               /\ bullets' = bullets
  <1> DEFINE k == Head(down[c])
             w == [pawn[c][k.who] EXCEPT !.dest = k.info.at, !.at = k.info.at, !.run = k.info.run]
  <1>1. k.type = "move" /\ k \in ToClient
    BY FirstDown DEF ClientMove, Got
  <1>2. k.who \in Clients /\ k.info.at \in Where /\ ~k.info.run /\ k.info.run \in BOOLEAN
    BY <1>1, DownPackets
  <1> HIDE DEF k
  <1>3. bullets' = bullets /\ (k.who \notin DOMAIN pawn[c] \ {c} => pawn' = pawn)
    BY DEF ClientMove, k
  <1>4. ASSUME k.who \in DOMAIN pawn[c] \ {c} PROVE w \in Walker /\ OnePawn(c, k.who, w)
    <2>1. pawn' = [pawn EXCEPT ![c] = [@ EXCEPT ![k.who] = w]]
      BY <1>4 DEF ClientMove, k, Typed
    <2>2. pawn[c][k.who] \in Pawn
      BY <1>4 DEF Typed, Walker
    <2>3. w \in Walker
      BY <2>2, <1>2 DEF Pawn, Walker
    <2> QED
      BY <2>1, <2>3, <1>4, OnePawnChanges
  <1> QED
    BY <1>1, <1>2, <1>3, <1>4 DEF k

LEMMA ReceivesAttack ==
    ASSUME Typed, NEW c \in Clients, HandleResAttack(c)
    PROVE  LET k == Head(down[c])
               w == [pawn[c][k.target] EXCEPT !.hp = IF @ > Damage THEN @ - Damage ELSE 0]
           IN  /\ k.type = "resAttack" /\ k.who \in Clients /\ k.target \in Clients
               /\ {k.who, k.target} \subseteq DOMAIN pawn[c] => w \in Walker /\ OnePawn(c, k.target, w)
               /\ ~({k.who, k.target} \subseteq DOMAIN pawn[c]) => pawn' = pawn
               /\ bullets' \in [Clients -> SUBSET Bullet]
  <1> DEFINE k == Head(down[c])
             w == [pawn[c][k.target] EXCEPT !.hp = IF @ > Damage THEN @ - Damage ELSE 0]
  <1>1. k.type = "resAttack" /\ k \in ToClient
    BY FirstDown DEF HandleResAttack, Got
  <1>2. k.who \in Clients /\ k.target \in Clients
    BY <1>1, DownPackets
  <1> HIDE DEF k
  <1>3. /\ ~({k.who, k.target} \subseteq DOMAIN pawn[c]) => pawn' = pawn
        /\ bullets' \in [Clients -> SUBSET Bullet]
    <2>1. CASE ~({k.who, k.target} \subseteq DOMAIN pawn[c])
      <3>1. pawn' = pawn /\ bullets' = bullets
        BY <2>1 DEF HandleResAttack, k, world
      <3> QED
        BY <2>1, <3>1 DEF Typed
    <2>2. CASE {k.who, k.target} \subseteq DOMAIN pawn[c]
      <3>1. bullets' = [bullets EXCEPT ![c] = {b \in @ : b.id # k.bullet}]
        BY <2>2 DEF HandleResAttack, k
      <3> QED
        BY <2>2, <3>1 DEF Typed
    <2> QED
      BY <2>1, <2>2
  <1>4. ASSUME {k.who, k.target} \subseteq DOMAIN pawn[c] PROVE w \in Walker /\ OnePawn(c, k.target, w)
    <2>1. pawn' = [pawn EXCEPT ![c] = [@ EXCEPT ![k.target] = w]]
      BY <1>4 DEF HandleResAttack, k, Typed
    <2>2. pawn[c][k.target] \in Walker
      BY <1>4 DEF Typed
    <2>3. w \in Walker
      BY <2>2, ArenaAssumption DEF Pawn, Walker
    <2> QED
      BY <2>1, <2>3, <1>4, OnePawnChanges
  <1> QED
    BY <1>1, <1>2, <1>3, <1>4 DEF k

(* Who is present: only those who entered have pawns, are named in a       *)
(* packet, or have one under way; what is asked of the server for a        *)
(* player, other than an arrival, comes from its own client.               *)

Names(k) == IF k.type \in {"reqAttack", "resAttack"} THEN {k.who, k.target} ELSE {k.who}

Present ==
    /\ hurt \subseteq objects /\ late \subseteq objects
    /\ \A c \in Clients :
          /\ DOMAIN pawn[c] \subseteq objects
          /\ \A i \in 1 .. Len(up[c]) : /\ Names(up[c][i]) \subseteq objects
                                        /\ up[c][i].type # "move" => up[c][i].who = c
          /\ \A i \in 1 .. Len(down[c]) : down[c][i].type = "spawn" => DOMAIN down[c][i].list \subseteq objects
          /\ c \notin objects => /\ posInfo[c].at = asked[c]
                                 /\ DOMAIN pawn[c] = {} /\ up[c] = << >> /\ down[c] = << >>

\* Whoever is new gets its own packet and the list, the others its own.
Enters(p, self, list) ==
    /\ p \in Clients \ objects
    /\ objects' = objects \cup {p}
    /\ self \in ToClient /\ self.type = "spawn" /\ DOMAIN self.list = {p}
    /\ self.list[p] = posInfo[p]
    /\ list \in ToClient /\ list.type = "spawn" /\ DOMAIN list.list = objects \cup {p}
    /\ \A q \in objects \cup {p} : list.list[q] = posInfo[q]
    /\ \A d \in objects : down'[d] = Append(down[d], self)
    /\ down'[p] = << self, list >>
    /\ down' = [d \in Clients |-> down'[d]]
    /\ \A d \in Clients \ (objects \cup {p}) : down'[d] = down[d]
    /\ missed' = [missed EXCEPT ![p] = hurt]
    /\ UNCHANGED <<posInfo, up, world, bounds, asked, late, hurt>>

LEMMA Entered ==
    ASSUME Typed, NEW p \in Clients, EnterRoom(p), down[p] = << >>
    PROVE  \E self, list : Enters(p, self, list)
  <1> DEFINE self == [type |-> "spawn", list |-> [q \in {p} |-> posInfo[q]]]
             list == [type |-> "spawn", list |-> [q \in objects' |-> posInfo[q]]]
  <1>1. p \notin objects /\ objects' = objects \cup {p}
    BY DEF EnterRoom
  <1>2. self.list \in Lists /\ list.list \in Lists
    <2>1. {p} \in SUBSET Clients /\ objects' \in SUBSET Clients /\ \A q \in Clients : posInfo[q] \in Info
      BY <1>1 DEF Typed
    <2>2. self.list \in [{p} -> Info] /\ list.list \in [objects' -> Info]
      BY <2>1
    <2> HIDE DEF self, list
    <2> QED
      BY <2>1, <2>2 DEF Lists
  <1>3. self \in ToClient /\ list \in ToClient
    BY <1>2 DEF ToClient
  <1>4. down' = [Tell(objects, self) EXCEPT ![p] = @ \o << self, list >>]
    BY DEF EnterRoom
  <1>5. Tell(objects, self)[p] = << >>
    BY <1>1 DEF Tell
  <1>6. << >> \o << self, list >> = << self, list >>
    <2> HIDE DEF self, list
    <2>1. << self, list >> \in Seq(ToClient)
      BY <1>3
    <2> QED
      BY <2>1, ConcatEmptySeq
  <1>7. /\ \A d \in objects : down'[d] = Append(down[d], self)
        /\ down'[p] = << self, list >>
        /\ down' = [d \in Clients |-> down'[d]]
        /\ \A d \in Clients \ (objects \cup {p}) : down'[d] = down[d]
    <2> HIDE DEF self, list
    <2> QED
      BY <1>1, <1>4, <1>5, <1>6 DEF Tell, Typed
  <1>8. Enters(p, self, list)
    BY <1>1, <1>2, <1>3, <1>7 DEF Enters, EnterRoom
  <1> QED
    BY <1>8

LEMMA TwoPackets ==
    ASSUME NEW S, NEW a \in S, NEW b \in S
    PROVE  /\ << a, b >> \in Seq(S) /\ Len(<< a, b >>) = 2
           /\ << a, b >>[1] = a /\ << a, b >>[2] = b
  OBVIOUS

LEMMA ToldAll ==
    ASSUME Typed, NEW k \in ToClient, down' = Tell(objects, k)
    PROVE  /\ DOMAIN down' = Clients
           /\ \A d \in objects : down'[d] = Append(down[d], k)
           /\ \A d \in Clients \ objects : down'[d] = down[d]
           /\ down' \in [Clients -> Seq(ToClient)]
  <1>1. \A d \in Clients : down[d] \in Seq(ToClient) /\ Append(down[d], k) \in Seq(ToClient)
    BY Appended DEF Typed
  <1> QED
    BY <1>1 DEF Tell, Typed

LEMMA OnePawnTyped ==
    ASSUME Typed, NEW c \in Clients, NEW p \in DOMAIN pawn[c], NEW w \in Walker, OnePawn(c, p, w)
    PROVE  /\ DOMAIN pawn' = Clients
           /\ \A d \in Clients : /\ DOMAIN pawn'[d] \subseteq Clients
                                 /\ \A r \in DOMAIN pawn'[d] : pawn'[d][r] \in Walker
  BY DEF OnePawn, Typed

LEMMA UpAppended ==
    ASSUME Typed, NEW c \in Clients, NEW k \in ToServer, up' = [up EXCEPT ![c] = Append(@, k)]
    PROVE  /\ up' \in [Clients -> Seq(ToServer)]
           /\ up'[c] = Append(up[c], k)
           /\ \A d \in Clients \ {c} : up'[d] = up[d]
  <1>1. Append(up[c], k) \in Seq(ToServer)
    BY Appended DEF Typed
  <1> QED
    BY <1>1 DEF Typed

LEMMA UpRemoved ==
    ASSUME Typed, NEW c \in Clients, up[c] # << >>, up' = [up EXCEPT ![c] = Tail(@)]
    PROVE  /\ up' \in [Clients -> Seq(ToServer)]
           /\ up'[c] = Tail(up[c])
           /\ \A d \in Clients \ {c} : up'[d] = up[d]
  <1>1. Tail(up[c]) \in Seq(ToServer)
    BY Removed DEF Typed
  <1> QED
    BY <1>1 DEF Typed

LEMMA DownRemoved ==
    ASSUME Typed, NEW c \in Clients, down[c] # << >>, down' = [down EXCEPT ![c] = Tail(@)]
    PROVE  /\ down' \in [Clients -> Seq(ToClient)]
           /\ down'[c] = Tail(down[c])
           /\ \A d \in Clients \ {c} : down'[d] = down[d]
  <1>1. Tail(down[c]) \in Seq(ToClient)
    BY Removed DEF Typed
  <1> QED
    BY <1>1 DEF Typed

-----------------------------------------------------------------------------
(* Typed and Present are preserved, one lemma for each way of a step. *)

LEMMA TypedInit ==
    ASSUME Init PROVE Typed /\ Present
  <1>1. posInfo \in [Clients -> [at : Starts, run : {FALSE}]]
    BY DEF Init
  <1>2. posInfo \in [Clients -> Info] /\ asked \in [Clients -> Where] /\ \A c \in Clients : posInfo[c].at = asked[c]
    <2>1. \A c \in Clients : posInfo[c] \in Info /\ posInfo[c].at \in Where
      BY <1>1, ArenaAssumption DEF Info, Where
    <2>2. posInfo \in [Clients -> Info]
      BY <1>1, <2>1
    <2>3. asked = [c \in Clients |-> posInfo[c].at]
      BY DEF Init
    <2> QED
      BY <2>1, <2>2, <2>3
  <1>3. \A c \in Clients : DOMAIN pawn[c] = {} /\ up[c] = << >> /\ down[c] = << >>
    BY Nothing DEF Init
  <1>4. Typed
    BY <1>2, <1>3, Nothing DEF Init, Typed
  <1>5. Present
    BY <1>2, <1>3, Nothing, <1>4 DEF Init, Present, Typed
  <1> QED
    BY <1>4, <1>5

LEMMA TypedServes ==
    ASSUME Typed, NEW c \in Clients, NEW k, Serves(c, k),
           posInfo' \in [Clients -> Info], asked' \in [Clients -> Where],
           late' \subseteq Clients, hurt' \subseteq Clients
    PROVE  Typed'
  <1>1. up' \in [Clients -> Seq(ToServer)] /\ down' \in [Clients -> Seq(ToClient)]
    BY UpRemoved, ToldAll DEF Serves
  <1>2. UNCHANGED <<objects, pawn, bullets, shots, missed>>
    BY DEF Serves, world, bounds
  <1> QED
    BY <1>1, <1>2 DEF Typed

LEMMA TypedReceives ==
    ASSUME Typed, NEW c \in Clients, Receives(c), DOMAIN pawn' = Clients,
           \A d \in Clients : /\ DOMAIN pawn'[d] \subseteq Clients
                              /\ \A r \in DOMAIN pawn'[d] : pawn'[d][r] \in Walker,
           bullets' \in [Clients -> SUBSET Bullet]
    PROVE  Typed'
  <1>1. down' \in [Clients -> Seq(ToClient)]
    BY DownRemoved DEF Receives
  <1> QED
    BY <1>1 DEF Typed, Receives, server, history, bounds

LEMMA TypedActs ==
    ASSUME Typed, UNCHANGED <<server, down, history>>,
           up' \in [Clients -> Seq(ToServer)], DOMAIN pawn' = Clients,
           \A d \in Clients : /\ DOMAIN pawn'[d] \subseteq Clients
                              /\ \A r \in DOMAIN pawn'[d] : pawn'[d][r] \in Walker,
           bullets' \in [Clients -> SUBSET Bullet], shots' \in Nat
    PROVE  Typed'
  BY DEF Typed, server, history

LEMMA TypedJob ==
    ASSUME Typed, NEW c \in Clients, RoomJob(c)
    PROVE  Typed'
  <1> DEFINE k == Head(up[c])
  <1>a. /\ posInfo \in [Clients -> Info] /\ asked \in [Clients -> Where]
        /\ late \subseteq Clients /\ hurt \subseteq Clients
    BY DEF Typed
  <1>1. CASE HandleREQMove(c)
    <2>1. /\ Serves(c, [k EXCEPT !.type = "resMove"])
          /\ k.who \in Clients /\ k.info \in Info /\ k.info.at \in Where
          /\ posInfo' = [posInfo EXCEPT ![k.who] = k.info] /\ asked' = [asked EXCEPT ![k.who] = k.info.at]
          /\ late' = late \ {k.who} /\ hurt' = hurt
      BY <1>1, ServesREQMove
    <2> HIDE DEF k
    <2>2. posInfo' \in [Clients -> Info] /\ asked' \in [Clients -> Where] /\ late' \subseteq Clients /\ hurt' \subseteq Clients
      BY <2>1, <1>a
    <2> QED
      BY <2>1, <2>2, TypedServes
  <1>2. CASE HandleMove(c)
    <2>1. /\ Serves(c, k) /\ k.who \in Clients /\ k.info \in Info
          /\ posInfo' = [posInfo EXCEPT ![k.who] = k.info] /\ asked' = asked
          /\ (late' = late \ {k.who} \/ late' = late \cup {k.who}) /\ hurt' = hurt
      BY <1>2, ServesMove
    <2> HIDE DEF k
    <2>2. posInfo' \in [Clients -> Info] /\ asked' \in [Clients -> Where] /\ late' \subseteq Clients /\ hurt' \subseteq Clients
      BY <2>1, <1>a
    <2> QED
      BY <2>1, <2>2, TypedServes
  <1>3. CASE HandleREQShoot(c)
    <2>1. /\ Serves(c, [k EXCEPT !.type = "resShoot"]) /\ k.who \in Clients /\ k.info \in Info
          /\ posInfo' = [posInfo EXCEPT ![k.who] = k.info] /\ UNCHANGED history
      BY <1>3, ServesREQShoot
    <2> HIDE DEF k
    <2>2. posInfo' \in [Clients -> Info] /\ asked' \in [Clients -> Where] /\ late' \subseteq Clients /\ hurt' \subseteq Clients
      BY <2>1, <1>a DEF history
    <2> QED
      BY <2>1, <2>2, TypedServes
  <1>4. CASE HandleREQAttack(c)
    <2>1. /\ Serves(c, [k EXCEPT !.type = "resAttack"]) /\ k.target \in Clients
          /\ hurt' = hurt \cup {k.target} /\ UNCHANGED <<posInfo, asked, late>>
      BY <1>4, ServesREQAttack
    <2> HIDE DEF k
    <2>2. posInfo' \in [Clients -> Info] /\ asked' \in [Clients -> Where] /\ late' \subseteq Clients /\ hurt' \subseteq Clients
      BY <2>1, <1>a
    <2> QED
      BY <2>1, <2>2, TypedServes
  <1> QED
    BY <1>1, <1>2, <1>3, <1>4 DEF RoomJob

LEMMA TypedReceive ==
    ASSUME Typed, NEW c \in Clients, HandleRecvPacket(c)
    PROVE  Typed'
  <1>1. Receives(c)
    BY ReceivesSome
  <1> DEFINE PawnsTyped == /\ DOMAIN pawn' = Clients
                           /\ \A d \in Clients : /\ DOMAIN pawn'[d] \subseteq Clients
                                                 /\ \A r \in DOMAIN pawn'[d] : pawn'[d][r] \in Walker
  <1>2. ASSUME pawn' = pawn PROVE PawnsTyped
    BY <1>2 DEF Typed
  <1>3. CASE HandleSpawn(c)
    <2>1. PawnsTyped
      <3> DEFINE k == Head(down[c])
      <3>1. /\ DOMAIN k.list \subseteq Clients
            /\ DOMAIN pawn' = DOMAIN pawn
            /\ \A d \in Clients : d # c => pawn'[d] = pawn[d]
            /\ DOMAIN pawn'[c] = DOMAIN pawn[c] \cup DOMAIN k.list
            /\ \A p \in DOMAIN pawn[c] : pawn'[c][p] = pawn[c][p]
            /\ \A p \in DOMAIN k.list \ DOMAIN pawn[c] : pawn'[c][p] \in Walker
        BY <1>3, ReceivesSpawn
      <3> HIDE DEF k
      <3> QED
        BY <3>1 DEF Typed
    <2>2. bullets' \in [Clients -> SUBSET Bullet]
      BY <1>3, ReceivesSpawn DEF Typed
    <2> QED
      BY <1>1, <2>1, <2>2, TypedReceives
  <1>4. CASE HandleResMove(c)
    <2>1. PawnsTyped
      BY <1>2, <1>4, ReceivesResMove, OnePawnTyped
    <2>2. bullets' \in [Clients -> SUBSET Bullet]
      BY <1>4, ReceivesResMove DEF Typed
    <2> QED
      BY <1>1, <2>1, <2>2, TypedReceives
  <1>5. CASE ClientMove(c)
    <2>1. PawnsTyped
      BY <1>2, <1>5, ReceivesMove, OnePawnTyped
    <2>2. bullets' \in [Clients -> SUBSET Bullet]
      BY <1>5, ReceivesMove DEF Typed
    <2> QED
      BY <1>1, <2>1, <2>2, TypedReceives
  <1>6. CASE HandleResShoot(c)
    <2>1. PawnsTyped
      BY <1>2, <1>6 DEF HandleResShoot
    <2> DEFINE k == Head(down[c])
               b == [id |-> k.bullet, by |-> k.who]
    <2>2. b \in Bullet
      BY <1>6, FirstDown, DownPackets DEF HandleResShoot, Got, Bullet
    <2>3. bullets' = bullets \/ bullets' = [bullets EXCEPT ![c] = @ \cup {b}]
      BY <1>6 DEF HandleResShoot
    <2>4. bullets' \in [Clients -> SUBSET Bullet]
      <3> HIDE DEF b
      <3>1. bullets \in [Clients -> SUBSET Bullet] /\ bullets[c] \cup {b} \in SUBSET Bullet
        BY <2>2 DEF Typed
      <3> QED
        BY <2>3, <3>1
    <2> HIDE DEF k, b
    <2> QED
      BY <1>1, <2>1, <2>4, TypedReceives
  <1>7. CASE HandleResAttack(c)
    <2>1. PawnsTyped
      <3> DEFINE k == Head(down[c])
                 w == [pawn[c][k.target] EXCEPT !.hp = IF @ > Damage THEN @ - Damage ELSE 0]
      <3>1. /\ {k.who, k.target} \subseteq DOMAIN pawn[c] => w \in Walker /\ OnePawn(c, k.target, w)
            /\ ~({k.who, k.target} \subseteq DOMAIN pawn[c]) => pawn' = pawn
        BY <1>7, ReceivesAttack
      <3> HIDE DEF k, w
      <3> QED
        BY <1>2, <3>1, OnePawnTyped
    <2>2. bullets' \in [Clients -> SUBSET Bullet]
      BY <1>7, ReceivesAttack
    <2> QED
      BY <1>1, <2>1, <2>2, TypedReceives
  <1> QED
    BY <1>3, <1>4, <1>5, <1>6, <1>7 DEF HandleRecvPacket

\* The steps of the player and of the ticks of a client.
ClientStep(c) == \/ \E to \in Places : Click(c, to)
                 \/ ShootClick(c)
                 \/ WalkOn(c)
                 \/ \E p \in Clients : WalkTo(c, p) \/ Arrive(c, p)
                 \/ \E b \in Bullet : BulletEnds(c, b) \/ \E p \in Clients : Hit(c, b, p)

LEMMA Steps ==
    ASSUME [Next]_vars
    PROVE  \/ vars' = vars
           \/ \E c \in Clients : EnterRoom(c) \/ ClientStep(c) \/ RoomJob(c) \/ HandleRecvPacket(c)
  BY DEF Next, ClientStep

LEMMA TypedClientStep ==
    ASSUME Typed, NEW c \in Clients, ClientStep(c)
    PROVE  Typed'
  <1> DEFINE Pawns == /\ DOMAIN pawn' = Clients
                      /\ \A d \in Clients : /\ DOMAIN pawn'[d] \subseteq Clients
                                            /\ \A r \in DOMAIN pawn'[d] : pawn'[d][r] \in Walker
             Others == bullets' \in [Clients -> SUBSET Bullet] /\ shots' \in Nat
  <1>0. /\ bullets' = bullets /\ shots' = shots => Others
        /\ pawn' = pawn => Pawns
        /\ up' = up => up' \in [Clients -> Seq(ToServer)]
    BY DEF Typed
  <1>1. CASE \E to \in Places : Click(c, to)
    <2>1. up' \in [Clients -> Seq(ToServer)]
      BY <1>1, Clicked, UpAppended
    <2>2. UNCHANGED <<server, down, history, pawn, bullets, shots>>
      BY <1>1 DEF Click, world
    <2> HIDE DEF Pawns, Others
    <2>3. Pawns /\ Others
      BY <1>0, <2>2
    <2> QED
      BY <2>1, <2>2, <2>3, TypedActs DEF Pawns, Others
  <1>2. CASE ShootClick(c)
    <2>1. up' \in [Clients -> Seq(ToServer)]
      BY <1>2, ShotAt, UpAppended
    <2>2. UNCHANGED <<server, down, history, pawn, bullets>> /\ shots' = shots + 1
      BY <1>2 DEF ShootClick, world
    <2>3. Pawns /\ Others
      BY <2>2 DEF Typed
    <2> HIDE DEF Pawns, Others
    <2> QED
      BY <2>1, <2>2, <2>3, TypedActs DEF Pawns, Others
  <1>3. CASE WalkOn(c)
    <2> DEFINE w == [pawn[c][c] EXCEPT !.at = Way]
    <2>1. UNCHANGED <<server, up, down, history, bullets, shots>>
      BY <1>3 DEF WalkOn, bounds
    <2>2. c \in DOMAIN pawn[c] /\ pawn[c][c] \in Walker /\ OnePawn(c, c, w)
      BY <1>3, WalksOn
    <2>3. w \in Walker
      <3>1. pawn[c][c].run => pawn[c][c].goal = pawn[c][c].dest
        BY <1>3, <2>2 DEF WalkOn, Walker
      <3> QED
        BY <2>2, <3>1 DEF Walker, Pawn, Where
    <2>4. Pawns
      <3> HIDE DEF w
      <3> QED
        BY <2>2, <2>3, OnePawnTyped
    <2> HIDE DEF Pawns, Others, w
    <2> QED
      BY <1>0, <2>1, <2>4, TypedActs DEF Pawns, Others
  <1>4. ASSUME NEW p \in Clients, WalkTo(c, p) PROVE Typed'
    <2> DEFINE w == [pawn[c][p] EXCEPT !.at = pawn[c][p].goal, !.goal = None]
    <2>1. UNCHANGED <<server, up, down, history, bullets, shots>>
      BY <1>4 DEF WalkTo, bounds
    <2>2. p \in DOMAIN pawn[c] /\ pawn[c][p] \in Walker /\ pawn[c][p].goal # None /\ OnePawn(c, p, w)
      BY <1>4, WalksTo
    <2>3. w \in Walker
      BY <2>2 DEF Walker, Pawn, Where
    <2>4. Pawns
      <3> HIDE DEF w
      <3> QED
        BY <2>2, <2>3, OnePawnTyped
    <2> HIDE DEF Pawns, Others, w
    <2> QED
      BY <1>0, <2>1, <2>4, TypedActs DEF Pawns, Others
  <1>5. ASSUME NEW p \in Clients, Arrive(c, p) PROVE Typed'
    <2> DEFINE w == [pawn[c][p] EXCEPT !.run = FALSE]
    <2>1. UNCHANGED <<server, down, history, bullets, shots>>
      BY <1>5 DEF Arrive, bounds
    <2>2. p \in DOMAIN pawn[c] /\ pawn[c][p] \in Walker /\ OnePawn(c, p, w)
      BY <1>5, Arrived
    <2>3. w \in Walker
      BY <2>2 DEF Walker, Pawn
    <2>4. Pawns
      <3> HIDE DEF w
      <3> QED
        BY <2>2, <2>3, OnePawnTyped
    <2>5. up' \in [Clients -> Seq(ToServer)]
      BY <1>5, Arrived, UpAppended
    <2> HIDE DEF Pawns, Others, w
    <2> QED
      BY <1>0, <2>1, <2>4, <2>5, TypedActs DEF Pawns, Others
  <1>6. ASSUME NEW b \in Bullet, BulletEnds(c, b) PROVE Typed'
    <2>1. UNCHANGED <<server, up, down, history, pawn, shots>>
      BY <1>6 DEF BulletEnds, bounds
    <2>2. bullets' = [bullets EXCEPT ![c] = @ \ {b}]
      BY <1>6 DEF BulletEnds
    <2>3. bullets' \in [Clients -> SUBSET Bullet] /\ shots' \in Nat
      BY <2>1, <2>2 DEF Typed
    <2> HIDE DEF Pawns, Others
    <2> QED
      BY <1>0, <2>1, <2>3, TypedActs DEF Pawns, Others
  <1>7. ASSUME NEW b \in Bullet, NEW p \in Clients, Hit(c, b, p) PROVE Typed'
    <2>1. UNCHANGED <<server, down, history, pawn, bullets, shots>>
      BY <1>7 DEF Hit, world
    <2>2. up' \in [Clients -> Seq(ToServer)]
      BY <1>7, HitReported, UpAppended
    <2> HIDE DEF Pawns, Others
    <2> QED
      BY <1>0, <2>1, <2>2, TypedActs DEF Pawns, Others
  <1> QED
    BY <1>1, <1>2, <1>3, <1>4, <1>5, <1>6, <1>7 DEF ClientStep

LEMMA TypedEnters ==
    ASSUME Typed, NEW p \in Clients, NEW self, NEW list, Enters(p, self, list)
    PROVE  Typed'
  <1>1. \A d \in Clients : down'[d] \in Seq(ToClient)
    <2>1. ASSUME NEW d \in objects PROVE down'[d] \in Seq(ToClient)
      <3>1. down[d] \in Seq(ToClient) /\ self \in ToClient /\ down'[d] = Append(down[d], self)
        BY <2>1 DEF Typed, Enters
      <3> QED
        BY <3>1, Appended
    <2>2. down'[p] \in Seq(ToClient)
      BY TwoPackets DEF Enters
    <2>3. ASSUME NEW d \in Clients \ (objects \cup {p}) PROVE down'[d] \in Seq(ToClient)
      BY <2>3 DEF Typed, Enters
    <2> QED
      BY <2>1, <2>2, <2>3
  <1>2. down' = [d \in Clients |-> down'[d]]
    BY DEF Enters
  <1>3. down' \in [Clients -> Seq(ToClient)]
    BY <1>1, <1>2
  <1>4. missed' \in [Clients -> SUBSET Clients] /\ objects' \subseteq Clients
    BY DEF Enters, Typed
  <1> QED
    BY <1>3, <1>4 DEF Enters, Typed, world, bounds

LEMMA TypedStep ==
    ASSUME Typed, Present, [Next]_vars
    PROVE  Typed'
  <1>1. CASE vars' = vars
    BY <1>1 DEF vars, server, world, bounds, history, Typed
  <1>2. ASSUME NEW c \in Clients, EnterRoom(c) PROVE Typed'
    BY <1>2, Entered, TypedEnters DEF Present, EnterRoom
  <1> QED
    BY <1>1, <1>2, Steps, TypedClientStep, TypedJob, TypedReceive

\* A step of a client leaves who has pawns and what is told alone, and sends at
\* most one packet; a shot tells where the own pawn is.
Sends(c, k) == /\ c \in objects /\ Names(k) \subseteq objects /\ (k.type # "move" => k.who = c)
               /\ k.type = "reqShoot" => c \in DOMAIN pawn[c] /\ k.info.at = pawn[c][c].at
               /\ up' = [up EXCEPT ![c] = Append(@, k)]

SamePawns == \A d \in Clients : DOMAIN pawn'[d] = DOMAIN pawn[d]

Acts(c) == /\ UNCHANGED <<server, down, history>>
           /\ SamePawns
           /\ up' = up \/ \E k \in ToServer : Sends(c, k)

LEMMA ActsSome ==
    ASSUME Typed, Present, NEW c \in Clients, ClientStep(c)
    PROVE  Acts(c)
  <1>0. \A d \in Clients : DOMAIN pawn[d] \subseteq objects
    BY DEF Present
  <1>a. c \in DOMAIN pawn[c] => c \in objects
    BY <1>0
  <1>1. CASE \E to \in Places : Click(c, to)
    <2>1. UNCHANGED <<server, down, history, pawn>> /\ c \in DOMAIN pawn[c]
      BY <1>1 DEF Click, world, Here
    <2>2. \E k \in ToServer : k.type = "reqMove" /\ k.who = c /\ up' = [up EXCEPT ![c] = Append(@, k)]
      BY <1>1, Clicked
    <2> QED
      BY <1>a, <2>1, <2>2 DEF Acts, SamePawns, Sends, Names
  <1>2. CASE ShootClick(c)
    <2>1. UNCHANGED <<server, down, history, pawn>> /\ c \in DOMAIN pawn[c]
      BY <1>2 DEF ShootClick, world, Here
    <2>2. PICK k \in ToServer : /\ k.type = "reqShoot" /\ k.who = c /\ k.info.at = pawn[c][c].at
                               /\ up' = [up EXCEPT ![c] = Append(@, k)]
      BY <1>2, ShotAt
    <2> QED
      BY <1>a, <2>1, <2>2 DEF Acts, SamePawns, Sends, Names
  <1>3. CASE WalkOn(c)
    <2>1. UNCHANGED <<server, up, down, history>>
      BY <1>3 DEF WalkOn
    <2>2. SamePawns
      BY <1>3, WalksOn DEF OnePawn, SamePawns
    <2> QED
      BY <2>1, <2>2 DEF Acts
  <1>4. ASSUME NEW p \in Clients, WalkTo(c, p) PROVE Acts(c)
    <2>1. UNCHANGED <<server, up, down, history>>
      BY <1>4 DEF WalkTo
    <2>2. SamePawns
      BY <1>4, WalksTo DEF OnePawn, SamePawns
    <2> QED
      BY <2>1, <2>2 DEF Acts
  <1>5. ASSUME NEW p \in Clients, Arrive(c, p) PROVE Acts(c)
    <2>1. UNCHANGED <<server, down, history>>
      BY <1>5 DEF Arrive
    <2>2. SamePawns /\ p \in DOMAIN pawn[c]
      BY <1>5, Arrived DEF OnePawn, SamePawns
    <2>3. c \in objects /\ p \in objects
      <3>1. DOMAIN pawn[c] # {}
        BY <2>2
      <3> QED
        BY <1>0, <2>2, <3>1 DEF Present
    <2>4. PICK k \in ToServer : /\ k.type = "move" /\ k.who = p /\ k.info.at = pawn[c][p].dest
                               /\ up' = [up EXCEPT ![c] = Append(@, k)]
      BY <1>5, Arrived
    <2> QED
      BY <2>1, <2>2, <2>3, <2>4 DEF Acts, Sends, Names
  <1>6. ASSUME NEW b \in Bullet, BulletEnds(c, b) PROVE Acts(c)
    BY <1>6 DEF BulletEnds, Acts, SamePawns
  <1>7. ASSUME NEW b \in Bullet, NEW p \in Clients, Hit(c, b, p) PROVE Acts(c)
    <2>1. UNCHANGED <<server, down, history, pawn>>
      BY <1>7 DEF Hit, world
    <2>2. p \in DOMAIN pawn[c]
      BY <1>7, HitReported
    <2>3. c \in objects /\ p \in objects
      <3>1. DOMAIN pawn[c] # {}
        BY <2>2
      <3> QED
        BY <1>0, <2>2, <3>1 DEF Present
    <2>4. \E k \in ToServer : /\ k.type = "reqAttack" /\ k.who = c /\ k.target = p
                              /\ up' = [up EXCEPT ![c] = Append(@, k)]
      BY <1>7, HitReported
    <2> QED
      BY <2>1, <2>3, <2>4 DEF Acts, SamePawns, Sends, Names
  <1> QED
    BY <1>1, <1>2, <1>3, <1>4, <1>5, <1>6, <1>7 DEF ClientStep

\* The parts of Present that speak of one client.
UpNamed(c) == \A i \in 1 .. Len(up[c]) : /\ Names(up[c][i]) \subseteq objects
                                         /\ up[c][i].type # "move" => up[c][i].who = c

ListsNamed(c) == \A i \in 1 .. Len(down[c]) : down[c][i].type = "spawn" => DOMAIN down[c][i].list \subseteq objects

LEMMA PresentActs ==
    ASSUME Typed, Present, NEW c \in Clients, Acts(c)
    PROVE  Present'
  <1>1. UNCHANGED <<objects, posInfo, down, asked, late, hurt>>
    BY DEF Acts, server, history
  <1>2. ASSUME NEW k \in ToServer, Sends(c, k), NEW d \in Clients
        PROVE  UpNamed(d)' /\ (d \notin objects => up'[d] = up[d])
    <2>1. up'[c] = Append(up[c], k) /\ \A e \in Clients \ {c} : up'[e] = up[e]
      BY <1>2, UpAppended DEF Sends
    <2>2. UpNamed(d)
      BY DEF Present, UpNamed
    <2>3. CASE d = c
      <3>1. /\ Len(up'[c]) = Len(up[c]) + 1 /\ Len(up[c]) \in Nat
            /\ \A i \in 1 .. Len(up[c]) : up'[c][i] = up[c][i]
            /\ up'[c][Len(up[c]) + 1] = k
        <4>1. up[c] \in Seq(ToServer) /\ k \in ToServer
          BY DEF Typed
        <4> QED
          BY <2>1, <4>1, Appended
      <3>2. Names(k) \subseteq objects /\ (k.type # "move" => k.who = c) /\ c \in objects
        BY <1>2 DEF Sends
      <3>3. ASSUME NEW i \in 1 .. Len(up'[c])
            PROVE  Names(up'[c][i]) \subseteq objects /\ (up'[c][i].type # "move" => up'[c][i].who = c)
        <4>1. i \in 1 .. Len(up[c]) \/ i = Len(up[c]) + 1
          BY <3>1
        <4> QED
          BY <2>2, <2>3, <3>1, <3>2, <4>1 DEF UpNamed
      <3> QED
        BY <1>1, <2>3, <3>2, <3>3 DEF UpNamed
    <2> QED
      BY <1>1, <2>1, <2>2, <2>3 DEF UpNamed
  <1>3. \A d \in Clients : UpNamed(d)' /\ (d \notin objects => up'[d] = up[d])
    <2>1. CASE up' = up
      BY <1>1, <2>1 DEF Present, UpNamed
    <2> QED
      BY <1>2, <2>1 DEF Acts
  <1>4. \A d \in Clients : DOMAIN pawn'[d] = DOMAIN pawn[d]
    BY DEF Acts, SamePawns
  <1> QED
    BY <1>1, <1>3, <1>4 DEF Present, UpNamed

LEMMA PresentServes ==
    ASSUME Typed, Present, NEW c \in Clients, NEW k, Serves(c, k), k.type # "spawn",
           hurt' \subseteq objects, late' \subseteq objects,
           \A d \in Clients \ objects : posInfo'[d] = posInfo[d] /\ asked'[d] = asked[d]
    PROVE  Present'
  <1>1. objects' = objects /\ pawn' = pawn
    BY DEF Serves, world
  <1>2. c \in objects
    BY DEF Serves, Present
  <1>3. up'[c] = Tail(up[c]) /\ \A d \in Clients \ {c} : up'[d] = up[d]
    BY UpRemoved DEF Serves
  <1>4. \A d \in objects : down'[d] = Append(down[d], k)
    BY ToldAll DEF Serves
  <1>5. \A d \in Clients \ objects : down'[d] = down[d]
    BY ToldAll DEF Serves
  <1>6. ASSUME NEW d \in Clients PROVE UpNamed(d)'
    <2>1. UpNamed(d)
      BY DEF Present, UpNamed
    <2>2. CASE d = c
      <3>1. /\ Len(up[c]) \in Nat /\ Len(up'[c]) = Len(up[c]) - 1
            /\ \A i \in 1 .. Len(up[c]) - 1 : up'[c][i] = up[c][i + 1]
        BY <1>3, Removed, up[c] \in Seq(ToServer) DEF Typed, Serves
      <3>2. ASSUME NEW i \in 1 .. Len(up'[c])
            PROVE  Names(up'[c][i]) \subseteq objects /\ (up'[c][i].type # "move" => up'[c][i].who = c)
        <4>1. i + 1 \in 1 .. Len(up[c]) /\ i \in 1 .. Len(up[c]) - 1
          BY <3>1
        <4> QED
          BY <2>1, <2>2, <3>1, <4>1 DEF UpNamed
      <3> QED
        BY <1>1, <2>2, <3>2 DEF UpNamed
    <2>3. CASE d # c
      BY <1>1, <1>3, <2>1, <2>3 DEF UpNamed
    <2> QED
      BY <2>2, <2>3
  <1>7. ASSUME NEW d \in Clients PROVE ListsNamed(d)'
    <2>1. ListsNamed(d)
      BY DEF Present, ListsNamed
    <2>2. CASE d \in objects
      <3>1. /\ Len(down'[d]) = Len(down[d]) + 1 /\ Len(down[d]) \in Nat
            /\ \A i \in 1 .. Len(down[d]) : down'[d][i] = down[d][i]
            /\ down'[d][Len(down[d]) + 1] = k
        <4>1. down[d] \in Seq(ToClient) /\ k \in ToClient /\ down'[d] = Append(down[d], k)
          BY <1>4, <2>2 DEF Typed, Serves
        <4> QED
          BY <4>1, Appended
      <3>2. ASSUME NEW i \in 1 .. Len(down'[d])
            PROVE  down'[d][i].type = "spawn" => DOMAIN down'[d][i].list \subseteq objects
        <4>1. i \in 1 .. Len(down[d]) \/ i = Len(down[d]) + 1
          BY <3>1
        <4> QED
          BY <2>1, <3>1, <4>1 DEF ListsNamed
      <3> QED
        BY <1>1, <3>2 DEF ListsNamed
    <2>3. CASE d \notin objects
      BY <1>1, <1>5, <2>1, <2>3 DEF ListsNamed
    <2> QED
      BY <2>2, <2>3
  <1> QED
    BY <1>1, <1>2, <1>3, <1>5, <1>6, <1>7 DEF Present, UpNamed, ListsNamed

LEMMA PresentReceives ==
    ASSUME Typed, Present, NEW c \in Clients, Receives(c),
           \A d \in Clients : d # c => DOMAIN pawn'[d] = DOMAIN pawn[d],
           DOMAIN pawn'[c] \subseteq objects
    PROVE  Present'
  <1>1. UNCHANGED <<objects, posInfo, up, asked, late, hurt>>
    BY DEF Receives, server, history
  <1>2. c \in objects /\ down[c] # << >>
    BY DEF Receives, Present
  <1>3. down'[c] = Tail(down[c]) /\ \A d \in Clients \ {c} : down'[d] = down[d]
    BY DownRemoved DEF Receives
  <1>4. ASSUME NEW d \in Clients PROVE ListsNamed(d)'
    <2>1. ListsNamed(d)
      BY DEF Present, ListsNamed
    <2>2. CASE d = c
      <3>1. /\ Len(down[c]) \in Nat /\ Len(down'[c]) = Len(down[c]) - 1
            /\ \A i \in 1 .. Len(down[c]) - 1 : down'[c][i] = down[c][i + 1]
        BY <1>2, <1>3, Removed, down[c] \in Seq(ToClient) DEF Typed
      <3>2. ASSUME NEW i \in 1 .. Len(down'[c])
            PROVE  down'[c][i].type = "spawn" => DOMAIN down'[c][i].list \subseteq objects
        <4>1. i + 1 \in 1 .. Len(down[c]) /\ i \in 1 .. Len(down[c]) - 1
          BY <3>1
        <4> QED
          BY <2>1, <2>2, <3>1, <4>1 DEF ListsNamed
      <3> QED
        BY <1>1, <2>2, <3>2 DEF ListsNamed
    <2>3. CASE d # c
      BY <1>1, <1>3, <2>1, <2>3 DEF ListsNamed
    <2> QED
      BY <2>2, <2>3
  <1> QED
    BY <1>1, <1>2, <1>3, <1>4 DEF Present, ListsNamed

LEMMA PresentEnters ==
    ASSUME Typed, Present, NEW p \in Clients, NEW self, NEW list, Enters(p, self, list)
    PROVE  Present'
  <1>1. UNCHANGED <<posInfo, up, pawn, asked, late, hurt>> /\ objects' = objects \cup {p} /\ p \notin objects
    BY DEF Enters, world
  <1>2. ASSUME NEW d \in Clients PROVE ListsNamed(d)'
    <2>1. ListsNamed(d)
      BY DEF Present, ListsNamed
    <2>2. CASE d \in objects
      <3>0. down[d] \in Seq(ToClient) /\ self \in ToClient /\ down'[d] = Append(down[d], self)
        BY <2>2 DEF Typed, Enters
      <3>1. /\ Len(down'[d]) = Len(down[d]) + 1 /\ Len(down[d]) \in Nat
            /\ \A i \in 1 .. Len(down[d]) : down'[d][i] = down[d][i]
            /\ down'[d][Len(down[d]) + 1] = self
        BY <3>0, Appended
      <3>2. ASSUME NEW i \in 1 .. Len(down'[d])
            PROVE  down'[d][i].type = "spawn" => DOMAIN down'[d][i].list \subseteq objects'
        <4>1. i \in 1 .. Len(down[d]) \/ i = Len(down[d]) + 1
          BY <3>1
        <4>2. DOMAIN self.list = {p}
          BY DEF Enters
        <4> QED
          BY <1>1, <2>1, <3>1, <4>1, <4>2 DEF ListsNamed
      <3> QED
        BY <3>2 DEF ListsNamed
    <2>3. CASE d = p
      <3>1. down'[p] = << self, list >> /\ self \in ToClient /\ list \in ToClient
        BY DEF Enters
      <3>2. Len(down'[p]) = 2 /\ down'[p][1] = self /\ down'[p][2] = list
        BY <3>1, TwoPackets
      <3>3. ASSUME NEW i \in 1 .. 2 PROVE DOMAIN down'[p][i].list \subseteq objects'
        <4>1. i = 1 \/ i = 2
          OBVIOUS
        <4> QED
          BY <1>1, <3>2, <4>1 DEF Enters
      <3> QED
        BY <2>3, <3>2, <3>3 DEF ListsNamed
    <2>4. CASE d \notin objects \cup {p}
      <3>1. down'[d] = down[d]
        BY <2>4 DEF Enters
      <3> QED
        BY <1>1, <2>1, <3>1 DEF ListsNamed
    <2> QED
      BY <2>2, <2>3, <2>4
  <1>3. \A d \in Clients \ objects' : down'[d] = down[d]
    BY <1>1 DEF Enters
  <1> QED
    BY <1>1, <1>2, <1>3 DEF Present, ListsNamed

LEMMA HeadUp ==
    ASSUME Typed, Present, NEW c \in Clients, up[c] # << >>
    PROVE  /\ Names(Head(up[c])) \subseteq objects /\ c \in objects
           /\ Head(up[c]).type # "move" => Head(up[c]).who = c
  <1>1. Head(up[c]) = up[c][1] /\ 1 \in 1 .. Len(up[c])
    BY Removed, up[c] \in Seq(ToServer) DEF Typed
  <1> QED
    BY <1>1 DEF Present

LEMMA HeadList ==
    ASSUME Typed, Present, NEW c \in Clients, down[c] # << >>, Head(down[c]).type = "spawn"
    PROVE  DOMAIN Head(down[c]).list \subseteq objects
  <1>1. Head(down[c]) = down[c][1] /\ 1 \in 1 .. Len(down[c])
    BY Removed, down[c] \in Seq(ToClient) DEF Typed
  <1> QED
    BY <1>1 DEF Present

LEMMA PresentJob ==
    ASSUME Typed, Present, NEW c \in Clients, RoomJob(c)
    PROVE  Present'
  <1> DEFINE k == Head(up[c])
  <1>a. hurt \subseteq objects /\ late \subseteq objects /\ posInfo \in [Clients -> Info] /\ asked \in [Clients -> Where]
    BY DEF Present, Typed
  <1>1. CASE HandleREQMove(c)
    <2>1. /\ Serves(c, [k EXCEPT !.type = "resMove"]) /\ [k EXCEPT !.type = "resMove"].type # "spawn"
          /\ k.type = "reqMove" /\ k.who \in Clients
          /\ posInfo' = [posInfo EXCEPT ![k.who] = k.info] /\ asked' = [asked EXCEPT ![k.who] = k.info.at]
          /\ late' = late \ {k.who} /\ hurt' = hurt
      BY <1>1, ServesREQMove
    <2>2. k.who \in objects
      BY <2>1, HeadUp DEF Serves, Names
    <2> HIDE DEF k
    <2>3. /\ hurt' \subseteq objects /\ late' \subseteq objects
          /\ \A d \in Clients \ objects : posInfo'[d] = posInfo[d] /\ asked'[d] = asked[d]
      BY <1>a, <2>1, <2>2
    <2> QED
      BY <2>1, <2>3, PresentServes
  <1>2. CASE HandleMove(c)
    <2>1. /\ Serves(c, k) /\ k.type = "move" /\ k.who \in Clients
          /\ posInfo' = [posInfo EXCEPT ![k.who] = k.info] /\ asked' = asked
          /\ (late' = late \ {k.who} \/ late' = late \cup {k.who}) /\ hurt' = hurt
      BY <1>2, ServesMove
    <2>2. k.who \in objects
      BY <2>1, HeadUp DEF Serves, Names
    <2> HIDE DEF k
    <2>3. /\ hurt' \subseteq objects /\ late' \subseteq objects /\ k.type # "spawn"
          /\ \A d \in Clients \ objects : posInfo'[d] = posInfo[d] /\ asked'[d] = asked[d]
      BY <1>a, <2>1, <2>2
    <2> QED
      BY <2>1, <2>3, PresentServes
  <1>3. CASE HandleREQShoot(c)
    <2>1. /\ Serves(c, [k EXCEPT !.type = "resShoot"]) /\ [k EXCEPT !.type = "resShoot"].type # "spawn"
          /\ k.type = "reqShoot" /\ k.who \in Clients
          /\ posInfo' = [posInfo EXCEPT ![k.who] = k.info] /\ UNCHANGED history
      BY <1>3, ServesREQShoot
    <2>2. k.who \in objects
      BY <2>1, HeadUp DEF Serves, Names
    <2> HIDE DEF k
    <2>3. /\ hurt' \subseteq objects /\ late' \subseteq objects
          /\ \A d \in Clients \ objects : posInfo'[d] = posInfo[d] /\ asked'[d] = asked[d]
      BY <1>a, <2>1, <2>2 DEF history
    <2> QED
      BY <2>1, <2>3, PresentServes
  <1>4. CASE HandleREQAttack(c)
    <2>1. /\ Serves(c, [k EXCEPT !.type = "resAttack"]) /\ [k EXCEPT !.type = "resAttack"].type # "spawn"
          /\ k.type = "reqAttack"
          /\ hurt' = hurt \cup {k.target} /\ UNCHANGED <<posInfo, asked, late>>
      BY <1>4, ServesREQAttack
    <2>2. k.target \in objects
      BY <2>1, HeadUp DEF Serves, Names
    <2> HIDE DEF k
    <2>3. /\ hurt' \subseteq objects /\ late' \subseteq objects
          /\ \A d \in Clients \ objects : posInfo'[d] = posInfo[d] /\ asked'[d] = asked[d]
      BY <1>a, <2>1, <2>2
    <2> QED
      BY <2>1, <2>3, PresentServes
  <1> QED
    BY <1>1, <1>2, <1>3, <1>4 DEF RoomJob

\* A client gets pawns by a list only.
LEMMA PawnsReceived ==
    ASSUME Typed, NEW c \in Clients, HandleRecvPacket(c)
    PROVE  /\ Receives(c)
           /\ \A d \in Clients : d # c => DOMAIN pawn'[d] = DOMAIN pawn[d]
           /\ Head(down[c]).type = "spawn" => DOMAIN pawn'[c] = DOMAIN pawn[c] \cup DOMAIN Head(down[c]).list
           /\ Head(down[c]).type # "spawn" => DOMAIN pawn'[c] = DOMAIN pawn[c]
  <1>1. Receives(c)
    BY ReceivesSome
  <1>2. CASE HandleSpawn(c)
    BY <1>1, <1>2, ReceivesSpawn
  <1> DEFINE k == Head(down[c])
  <1>3. CASE HandleResMove(c)
    <2> DEFINE w == [pawn[c][k.who] EXCEPT !.dest = k.info.at, !.goal = k.info.at, !.run = TRUE]
    <2>1. k.type = "resMove" /\ (pawn' = pawn \/ OnePawn(c, k.who, w))
      BY <1>3, ReceivesResMove
    <2> HIDE DEF w
    <2> QED
      BY <1>1, <2>1 DEF OnePawn
  <1>4. CASE ClientMove(c)
    <2> DEFINE w == [pawn[c][k.who] EXCEPT !.dest = k.info.at, !.at = k.info.at, !.run = k.info.run]
    <2>1. k.type = "move" /\ (pawn' = pawn \/ OnePawn(c, k.who, w))
      BY <1>4, ReceivesMove
    <2> HIDE DEF w
    <2> QED
      BY <1>1, <2>1 DEF OnePawn
  <1>5. CASE HandleResShoot(c)
    BY <1>1, <1>5 DEF HandleResShoot, Got
  <1>6. CASE HandleResAttack(c)
    <2> DEFINE w == [pawn[c][k.target] EXCEPT !.hp = IF @ > Damage THEN @ - Damage ELSE 0]
    <2>1. k.type = "resAttack" /\ (pawn' = pawn \/ OnePawn(c, k.target, w))
      BY <1>6, ReceivesAttack
    <2> HIDE DEF w
    <2> QED
      BY <1>1, <2>1 DEF OnePawn
  <1> QED
    BY <1>2, <1>3, <1>4, <1>5, <1>6 DEF HandleRecvPacket

LEMMA PresentReceive ==
    ASSUME Typed, Present, NEW c \in Clients, HandleRecvPacket(c)
    PROVE  Present'
  <1>1. /\ Receives(c) /\ down[c] # << >>
        /\ \A d \in Clients : d # c => DOMAIN pawn'[d] = DOMAIN pawn[d]
    BY PawnsReceived DEF Receives
  <1>2. DOMAIN pawn'[c] \subseteq objects
    <2>1. DOMAIN pawn[c] \subseteq objects
      BY DEF Present
    <2>2. CASE Head(down[c]).type = "spawn"
      BY <1>1, <2>1, <2>2, PawnsReceived, HeadList
    <2>3. CASE Head(down[c]).type # "spawn"
      BY <2>1, <2>3, PawnsReceived
    <2> QED
      BY <2>2, <2>3
  <1> QED
    BY <1>1, <1>2, PresentReceives

LEMMA PresentStep ==
    ASSUME Typed, Present, [Next]_vars
    PROVE  Present'
  <1>1. CASE vars' = vars
    BY <1>1 DEF vars, server, world, history, Present
  <1>2. ASSUME NEW c \in Clients, EnterRoom(c) PROVE Present'
    BY <1>2, Entered, PresentEnters DEF Present, EnterRoom
  <1>3. ASSUME NEW c \in Clients, ClientStep(c) PROVE Present'
    BY <1>3, ActsSome, PresentActs
  <1> QED
    BY <1>1, <1>2, <1>3, Steps, PresentJob, PresentReceive

\* The bounds of the model, and the hits that were reported.
Counted == /\ moves \in 0 .. MaxMoves /\ shots \in 0 .. MaxShots
           /\ hits \subseteq (1 .. MaxShots) \X Clients

LEMMA CountedStep ==
    ASSUME Typed, Counted, [Next]_vars
    PROVE  Counted'
  <1>1. ASSUME UNCHANGED bounds PROVE Counted'
    BY <1>1 DEF bounds, Counted
  <1>2. CASE vars' = vars
    BY <1>1, <1>2 DEF vars
  <1>3. ASSUME NEW c \in Clients, EnterRoom(c) PROVE Counted'
    BY <1>1, <1>3 DEF EnterRoom
  <1>4. ASSUME NEW c \in Clients, RoomJob(c) PROVE Counted'
    BY <1>1, <1>4 DEF RoomJob, HandleREQMove, HandleMove, HandleREQShoot, HandleREQAttack
  <1>5. ASSUME NEW c \in Clients, HandleRecvPacket(c) PROVE Counted'
    <2>1. Receives(c)
      BY <1>5, ReceivesSome
    <2> QED
      BY <1>1, <2>1 DEF Receives
  <1>6. ASSUME NEW c \in Clients, ClientStep(c) PROVE Counted'
    <2>1. ASSUME NEW to \in Places, Click(c, to) PROVE Counted'
      BY <2>1, ArenaAssumption DEF Click, Counted
    <2>2. CASE ShootClick(c)
      BY <2>2, ArenaAssumption DEF ShootClick, Counted
    <2>3. CASE WalkOn(c)
      BY <1>1, <2>3 DEF WalkOn
    <2>4. ASSUME NEW p \in Clients, WalkTo(c, p) \/ Arrive(c, p) PROVE Counted'
      BY <1>1, <2>4 DEF WalkTo, Arrive
    <2>5. ASSUME NEW b \in Bullet, BulletEnds(c, b) PROVE Counted'
      BY <1>1, <2>5 DEF BulletEnds
    <2>6. ASSUME NEW b \in Bullet, NEW p \in Clients, Hit(c, b, p) PROVE Counted'
      <3>1. <<b.id, p>> \in (1 .. MaxShots) \X Clients
        BY DEF Bullet
      <3>2. UNCHANGED <<moves, shots>> /\ hits' = hits \cup {<<b.id, p>>}
        BY <2>6 DEF Hit
      <3> QED
        BY <3>1, <3>2 DEF Counted
    <2> QED
      BY <1>6, <2>1, <2>2, <2>3, <2>4, <2>5, <2>6 DEF ClientStep
  <1> QED
    BY <1>2, <1>3, <1>4, <1>5, <1>6, Steps

\* A queue of packets of one kind is a queue of packets.
LEMMA QueueOfMore ==
    ASSUME NEW S, NEW T, S \subseteq T, NEW q \in Seq(S)
    PROVE  q \in Seq(T)
  OBVIOUS

\* Types (TypeOK): every variable, the packets under way in both directions
\* included, keeps its type; a client has pawns only of players in the room,
\* and whoever runs on a client is there or on the way, whatever order the
\* packets of the walks and shots are handled in.
THEOREM TypeCorrect == Spec => []TypeOK
  <1> DEFINE Inv == Typed /\ Present /\ Counted
  <1>1. Init => Inv
    <2> SUFFICES ASSUME Init PROVE Inv
      OBVIOUS
    <2>1. Counted
      BY ArenaAssumption DEF Init, Counted
    <2> QED
      BY <2>1, TypedInit
  <1>2. Inv /\ [Next]_vars => Inv'
    BY TypedStep, PresentStep, CountedStep
  <1>3. Inv => TypeOK
    <2> SUFFICES ASSUME Typed, Present, Counted PROVE TypeOK
      OBVIOUS
    <2>1. up \in [Clients -> Seq(Up)] /\ down \in [Clients -> Seq(Down)]
      <3>1. ToServer \subseteq Up /\ ToClient \subseteq Down
        BY DEF ToServer, ToClient, Told, Lists, Down
      <3>2. ASSUME NEW c \in Clients PROVE up[c] \in Seq(Up) /\ down[c] \in Seq(Down)
        <4>1. up[c] \in Seq(ToServer) /\ down[c] \in Seq(ToClient)
          BY DEF Typed
        <4> QED
          BY <3>1, <4>1, QueueOfMore
      <3> QED
        BY <3>2 DEF Typed
    <2>2. ASSUME NEW c \in Clients, NEW p \in DOMAIN pawn[c]
          PROVE  /\ pawn[c][p] \in Pawn
                 /\ pawn[c][p].run => pawn[c][p].goal = pawn[c][p].dest \/ pawn[c][p].at = pawn[c][p].dest
      BY DEF Typed, Walker
    <2>3. \A c \in Clients : DOMAIN pawn[c] \subseteq objects
      BY DEF Present
    <2> QED
      BY <2>1, <2>2, <2>3 DEF TypeOK, Typed, Counted
  <1> HIDE DEF Inv
  <1> QED
    BY <1>1, <1>2, <1>3, PTL DEF Spec

-----------------------------------------------------------------------------
(* Whoever a packet names is known to the client when it handles it: it    *)
(* has a pawn (v: who has one), or a list before the packet brings it.     *)

Seen(v, q, i, x) == x \in v \/ \E j \in 1 .. i - 1 : q[j].type = "spawn" /\ x \in DOMAIN q[j].list

InOrder(v, q) == \A i \in 1 .. Len(q) : q[i].type # "spawn" => \A x \in Names(q[i]) : Seen(v, q, i, x)

AllSeen(v, q, all) == \A x \in all : Seen(v, q, Len(q) + 1, x)

Known == \A c \in objects : /\ InOrder(DOMAIN pawn[c], down[c])
                            /\ AllSeen(DOMAIN pawn[c], down[c], objects)

LEMMA SeenAppended ==
    ASSUME NEW S, NEW q \in Seq(S), NEW k \in S, NEW v, NEW i \in 1 .. Len(q) + 1, NEW x, Seen(v, q, i, x)
    PROVE  Seen(v, Append(q, k), i, x)
  <1>1. Len(q) \in Nat /\ \A j \in 1 .. Len(q) : Append(q, k)[j] = q[j]
    BY Appended
  <1>2. \A j \in 1 .. i - 1 : j \in 1 .. Len(q)
    BY <1>1
  <1> QED
    BY <1>1, <1>2 DEF Seen

LEMMA KnownAppended ==
    ASSUME NEW S, NEW q \in Seq(S), NEW k \in S, NEW v, NEW all,
           InOrder(v, q), AllSeen(v, q, all), k.type # "spawn" => Names(k) \subseteq all
    PROVE  /\ InOrder(v, Append(q, k)) /\ AllSeen(v, Append(q, k), all)
           /\ k.type = "spawn" => AllSeen(v, Append(q, k), all \cup DOMAIN k.list)
  <1> DEFINE r == Append(q, k)
  <1>1. /\ Len(q) \in Nat /\ Len(r) = Len(q) + 1
        /\ \A i \in 1 .. Len(q) : r[i] = q[i]
        /\ r[Len(q) + 1] = k
    BY Appended
  <1>2. ASSUME NEW i \in 1 .. Len(q) + 1, NEW x, Seen(v, q, i, x) PROVE Seen(v, r, i, x)
    BY <1>2, SeenAppended
  <1> HIDE DEF r
  <1>3. ASSUME NEW i \in 1 .. Len(r), r[i].type # "spawn", NEW x \in Names(r[i]) PROVE Seen(v, r, i, x)
    <2>1. CASE i \in 1 .. Len(q)
      <3>1. Seen(v, q, i, x)
        BY <1>1, <1>3, <2>1 DEF InOrder
      <3> QED
        BY <1>1, <1>2, <2>1, <3>1
    <2>2. CASE i = Len(q) + 1
      <3>1. Seen(v, q, i, x)
        BY <1>1, <1>3, <2>2 DEF AllSeen
      <3> QED
        BY <1>1, <1>2, <2>2, <3>1
    <2> QED
      BY <1>1, <2>1, <2>2
  <1>4. ASSUME NEW x, Seen(v, r, Len(q) + 1, x) PROVE Seen(v, r, Len(r) + 1, x)
    <2>1. \A j \in 1 .. Len(q) + 1 - 1 : j \in 1 .. Len(r) + 1 - 1
      BY <1>1
    <2> QED
      BY <1>4, <2>1 DEF Seen
  <1>5. AllSeen(v, r, all)
    BY <1>1, <1>2, <1>4 DEF AllSeen
  <1>6. k.type = "spawn" => \A x \in DOMAIN k.list : Seen(v, r, Len(r) + 1, x)
    <2>1. Len(q) + 1 \in 1 .. Len(r) + 1 - 1
      BY <1>1
    <2> QED
      BY <1>1, <2>1 DEF Seen
  <1> QED
    BY <1>3, <1>5, <1>6 DEF InOrder, AllSeen, r

\* The first packet is handled: its list, if it is one, is now known.
LEMMA KnownRemoved ==
    ASSUME NEW S, NEW q \in Seq(S), q # << >>, NEW v, NEW w, NEW all, v \subseteq w,
           Head(q).type = "spawn" => DOMAIN Head(q).list \subseteq w,
           InOrder(v, q), AllSeen(v, q, all)
    PROVE  InOrder(w, Tail(q)) /\ AllSeen(w, Tail(q), all)
  <1> DEFINE r == Tail(q)
  <1>1. /\ Head(q) = q[1] /\ Len(q) \in Nat /\ Len(q) >= 1 /\ Len(r) = Len(q) - 1
        /\ \A i \in 1 .. Len(q) - 1 : r[i] = q[i + 1]
    BY Removed
  <1> HIDE DEF r
  <1>2. ASSUME NEW i \in 1 .. Len(q), NEW x, Seen(v, q, i + 1, x) PROVE Seen(w, r, i, x)
    <2>1. CASE x \in v
      BY <2>1 DEF Seen
    <2>2. ASSUME NEW j \in 1 .. i + 1 - 1, q[j].type = "spawn", x \in DOMAIN q[j].list PROVE Seen(w, r, i, x)
      <3>1. CASE j = 1
        BY <1>1, <2>2, <3>1 DEF Seen
      <3>2. CASE j # 1
        <4>1. j - 1 \in 1 .. i - 1 /\ j - 1 \in 1 .. Len(q) - 1 /\ j - 1 + 1 = j
          BY <1>1, <3>2
        <4>2. r[j - 1] = q[j]
          BY <1>1, <4>1
        <4> QED
          BY <2>2, <4>1, <4>2 DEF Seen
      <3> QED
        BY <3>1, <3>2
    <2> QED
      BY <1>2, <2>1, <2>2 DEF Seen
  <1>3. ASSUME NEW i \in 1 .. Len(r), r[i].type # "spawn", NEW x \in Names(r[i]) PROVE Seen(w, r, i, x)
    <2>1. i \in 1 .. Len(q) - 1 /\ i \in 1 .. Len(q) /\ i + 1 \in 1 .. Len(q)
      BY <1>1
    <2>2. Seen(v, q, i + 1, x)
      BY <1>1, <1>3, <2>1 DEF InOrder
    <2> QED
      BY <1>2, <2>1, <2>2
  <1>4. AllSeen(w, r, all)
    <2>1. Len(r) + 1 \in 1 .. Len(q) /\ Len(r) + 1 + 1 = Len(q) + 1
      BY <1>1
    <2> QED
      BY <1>2, <2>1 DEF AllSeen
  <1> QED
    BY <1>3, <1>4 DEF InOrder, r

LEMMA KnownActs ==
    ASSUME Typed, Known, NEW c \in Clients, Acts(c)
    PROVE  Known'
  BY DEF Acts, server, SamePawns, Typed, Known

LEMMA KnownServes ==
    ASSUME Typed, Known, NEW c \in Clients, NEW k, Serves(c, k), k.type # "spawn", Names(k) \subseteq objects
    PROVE  Known'
  <1>1. objects' = objects /\ pawn' = pawn /\ k \in ToClient
    BY DEF Serves, world
  <1>2. ASSUME NEW d \in objects
        PROVE  InOrder(DOMAIN pawn[d], down'[d]) /\ AllSeen(DOMAIN pawn[d], down'[d], objects)
    <2>1. down[d] \in Seq(ToClient) /\ down'[d] = Append(down[d], k)
      BY <1>1, ToldAll DEF Serves, Typed
    <2>2. InOrder(DOMAIN pawn[d], down[d]) /\ AllSeen(DOMAIN pawn[d], down[d], objects)
      BY DEF Known
    <2> QED
      BY <1>1, <2>1, <2>2, KnownAppended
  <1> QED
    BY <1>1, <1>2 DEF Known

LEMMA KnownReceive ==
    ASSUME Typed, Present, Known, NEW c \in Clients, HandleRecvPacket(c)
    PROVE  Known'
  <1>1. /\ Receives(c) /\ down[c] # << >>
        /\ \A d \in Clients : d # c => DOMAIN pawn'[d] = DOMAIN pawn[d]
        /\ Head(down[c]).type = "spawn" => DOMAIN pawn'[c] = DOMAIN pawn[c] \cup DOMAIN Head(down[c]).list
        /\ Head(down[c]).type # "spawn" => DOMAIN pawn'[c] = DOMAIN pawn[c]
    BY PawnsReceived DEF Receives
  <1>2. objects' = objects /\ objects \subseteq Clients
    BY <1>1 DEF Receives, server, Typed
  <1>3. c \in objects
    BY <1>1 DEF Present
  <1>4. down'[c] = Tail(down[c]) /\ \A d \in Clients \ {c} : down'[d] = down[d]
    BY <1>1, DownRemoved DEF Receives
  <1>5. InOrder(DOMAIN pawn'[c], down'[c]) /\ AllSeen(DOMAIN pawn'[c], down'[c], objects)
    <2>1. down[c] \in Seq(ToClient) /\ InOrder(DOMAIN pawn[c], down[c]) /\ AllSeen(DOMAIN pawn[c], down[c], objects)
      BY <1>3 DEF Typed, Known
    <2>2. /\ DOMAIN pawn[c] \subseteq DOMAIN pawn'[c]
          /\ Head(down[c]).type = "spawn" => DOMAIN Head(down[c]).list \subseteq DOMAIN pawn'[c]
      BY <1>1
    <2> QED
      BY <1>1, <1>4, <2>1, <2>2, KnownRemoved
  <1> QED
    BY <1>1, <1>2, <1>4, <1>5 DEF Known

LEMMA KnownEnters ==
    ASSUME Typed, Present, Known, NEW p \in Clients, NEW self, NEW list, Enters(p, self, list)
    PROVE  Known'
  <1>1. pawn' = pawn /\ objects' = objects \cup {p} /\ p \notin objects /\ objects \subseteq Clients
    BY DEF Enters, world, Typed
  <1>2. ASSUME NEW d \in objects
        PROVE  InOrder(DOMAIN pawn[d], down'[d]) /\ AllSeen(DOMAIN pawn[d], down'[d], objects \cup {p})
    <2>1. down[d] \in Seq(ToClient) /\ down'[d] = Append(down[d], self) /\ self \in ToClient
      BY DEF Enters, Typed
    <2>2. InOrder(DOMAIN pawn[d], down[d]) /\ AllSeen(DOMAIN pawn[d], down[d], objects)
      BY DEF Known
    <2>3. self.type = "spawn" /\ DOMAIN self.list = {p}
      BY DEF Enters
    <2>4. /\ InOrder(DOMAIN pawn[d], Append(down[d], self))
          /\ AllSeen(DOMAIN pawn[d], Append(down[d], self), objects \cup DOMAIN self.list)
      BY <2>1, <2>2, <2>3, KnownAppended
    <2> QED
      BY <2>1, <2>3, <2>4
  <1>3. InOrder(DOMAIN pawn[p], down'[p]) /\ AllSeen(DOMAIN pawn[p], down'[p], objects \cup {p})
    <2>1. down'[p] = << self, list >> /\ self \in ToClient /\ list \in ToClient
      BY DEF Enters
    <2>2. Len(down'[p]) = 2 /\ down'[p][1] = self /\ down'[p][2] = list
      BY <2>1, TwoPackets
    <2>3. self.type = "spawn" /\ list.type = "spawn" /\ DOMAIN list.list = objects \cup {p}
      BY DEF Enters
    <2>4. \A i \in 1 .. 2 : down'[p][i].type = "spawn"
      <3>1. \A i \in 1 .. 2 : i = 1 \/ i = 2
        OBVIOUS
      <3> QED
        BY <2>2, <2>3, <3>1
    <2>5. 2 \in 1 .. 2 + 1 - 1
      OBVIOUS
    <2> QED
      BY <2>2, <2>3, <2>4, <2>5 DEF InOrder, AllSeen, Seen
  <1> QED
    BY <1>1, <1>2, <1>3 DEF Known

LEMMA KnownJob ==
    ASSUME Typed, Present, Known, NEW c \in Clients, RoomJob(c)
    PROVE  Known'
  <1> DEFINE k == Head(up[c])
  <1>1. \E r \in ToClient : Serves(c, r) /\ r.type # "spawn" /\ Names(r) = Names(k)
    <2>1. CASE HandleREQMove(c)
      <3> DEFINE r == [k EXCEPT !.type = "resMove"]
      <3>1. Serves(c, r) /\ k.type = "reqMove" /\ r.type = "resMove" /\ r.who = k.who
        BY <2>1, ServesREQMove
      <3> HIDE DEF r, k
      <3> QED
        BY <3>1 DEF Serves, Names
    <2>2. CASE HandleMove(c)
      <3>1. Serves(c, k) /\ k.type = "move"
        BY <2>2, ServesMove
      <3> HIDE DEF k
      <3> QED
        BY <3>1 DEF Serves, Names
    <2>3. CASE HandleREQShoot(c)
      <3> DEFINE r == [k EXCEPT !.type = "resShoot"]
      <3>1. Serves(c, r) /\ k.type = "reqShoot" /\ r.type = "resShoot" /\ r.who = k.who
        BY <2>3, ServesREQShoot
      <3> HIDE DEF r, k
      <3> QED
        BY <3>1 DEF Serves, Names
    <2>4. CASE HandleREQAttack(c)
      <3> DEFINE r == [k EXCEPT !.type = "resAttack"]
      <3>1. Serves(c, r) /\ k.type = "reqAttack" /\ r.type = "resAttack" /\ r.who = k.who /\ r.target = k.target
        BY <2>4, ServesREQAttack
      <3> HIDE DEF r, k
      <3> QED
        BY <3>1 DEF Serves, Names
    <2> QED
      BY <2>1, <2>2, <2>3, <2>4 DEF RoomJob
  <1>2. PICK r \in ToClient : Serves(c, r) /\ r.type # "spawn" /\ Names(r) = Names(k)
    BY <1>1
  <1>3. Names(k) \subseteq objects
    BY <1>2, HeadUp DEF Serves
  <1> QED
    BY <1>2, <1>3, KnownServes

LEMMA KnownStep ==
    ASSUME Typed, Present, Known, [Next]_vars
    PROVE  Known'
  <1>1. CASE vars' = vars
    BY <1>1 DEF vars, server, world, Known
  <1>2. ASSUME NEW c \in Clients, EnterRoom(c) PROVE Known'
    BY <1>2, Entered, KnownEnters DEF Present, EnterRoom
  <1>3. ASSUME NEW c \in Clients, ClientStep(c) PROVE Known'
    BY <1>3, ActsSome, KnownActs
  <1> QED
    BY <1>1, <1>2, <1>3, Steps, KnownJob, KnownReceive

\* Then the first packet names pawns the client has.
LEMMA HeadKnown ==
    ASSUME Typed, Present, Known, NEW c \in Clients, down[c] # << >>, Head(down[c]).type # "spawn"
    PROVE  Names(Head(down[c])) \subseteq DOMAIN pawn[c] /\ c \in objects
  <1>1. Head(down[c]) = down[c][1] /\ 1 \in 1 .. Len(down[c])
    BY Removed, down[c] \in Seq(ToClient) DEF Typed
  <1>2. c \in objects
    BY DEF Present
  <1>3. \A x \in Names(down[c][1]) : Seen(DOMAIN pawn[c], down[c], 1, x)
    BY <1>1, <1>2 DEF Known, InOrder
  <1>4. 1 .. 1 - 1 = {}
    OBVIOUS
  <1> QED
    BY <1>1, <1>2, <1>3, <1>4 DEF Seen

\* Nothing under way says something of a player that is not in the room.
LEMMA NamesPresent ==
    ASSUME Typed, Present, Known, NEW c \in Clients, NEW i \in 1 .. Len(down[c]), down[c][i].type # "spawn"
    PROVE  Names(down[c][i]) \subseteq objects
  <1>1. c \in objects
    BY Nothing DEF Present
  <1>2. \A x \in Names(down[c][i]) : Seen(DOMAIN pawn[c], down[c], i, x)
    BY <1>1 DEF Known, InOrder
  <1>3. \A j \in 1 .. i - 1 : j \in 1 .. Len(down[c])
    BY LenProperties, down[c] \in Seq(ToClient) DEF Typed
  <1> QED
    BY <1>2, <1>3 DEF Seen, Present

-----------------------------------------------------------------------------
(* Where a player is placed.  What a queue says of a player: of the kinds  *)
(* K nothing, or last of all that it is at a place; and what its lists     *)
(* say.                                                                    *)

Orders == {"resMove"}
Both == {"resMove", "move"}

About(k, K, p) == k.type \in K /\ k.who = p

Clear(q, K, p) == \A i \in 1 .. Len(q) : ~About(q[i], K, p)

Last(q, K, p, at) ==
    \A i \in 1 .. Len(q) : About(q[i], K, p) => q[i].info.at = at \/ \E j \in i + 1 .. Len(q) : About(q[j], K, p)

Brings(k, p) == k.type = "spawn" /\ p \in DOMAIN k.list

Listed(q, p, at) == \A i \in 1 .. Len(q) : Brings(q[i], p) => q[i].list[p].at = at

LEMMA ClearIsLast ==
    ASSUME NEW q, NEW K, NEW p, NEW at, Clear(q, K, p)
    PROVE  Last(q, K, p, at)
  BY DEF Clear, Last

LEMMA SaidAppended ==
    ASSUME NEW S, NEW q \in Seq(S), NEW k \in S, NEW K, NEW p, NEW at
    PROVE  LET r == Append(q, k)
           IN  /\ ~About(k, K, p) => /\ Clear(r, K, p) <=> Clear(q, K, p)
                                     /\ Last(q, K, p, at) => Last(r, K, p, at)
               /\ About(k, K, p) => ~Clear(r, K, p) /\ (k.info.at = at => Last(r, K, p, at))
               /\ ~Clear(q, K, p) => ~Clear(r, K, p)
               /\ Listed(q, p, at) /\ (Brings(k, p) => k.list[p].at = at) => Listed(r, p, at)
  <1> DEFINE r == Append(q, k)
  <1>1. /\ Len(q) \in Nat /\ Len(r) = Len(q) + 1
        /\ \A i \in 1 .. Len(q) : r[i] = q[i]
        /\ r[Len(q) + 1] = k
    BY Appended
  <1> HIDE DEF r
  <1>2. \A i \in 1 .. Len(r) : i \in 1 .. Len(q) \/ i = Len(q) + 1
    BY <1>1
  <1>3. \A i \in 1 .. Len(q) : i \in 1 .. Len(r)
    BY <1>1
  <1>4. Len(q) + 1 \in 1 .. Len(r)
    BY <1>1
  <1>5. Clear(r, K, p) <=> Clear(q, K, p) /\ ~About(k, K, p)
    BY <1>1, <1>2, <1>3, <1>4 DEF Clear
  <1>6. ASSUME ~About(k, K, p), Last(q, K, p, at), NEW i \in 1 .. Len(r), About(r[i], K, p)
        PROVE  r[i].info.at = at \/ \E j \in i + 1 .. Len(r) : About(r[j], K, p)
    <2>1. i \in 1 .. Len(q)
      BY <1>1, <1>2, <1>6
    <2>2. CASE \E j \in i + 1 .. Len(q) : About(q[j], K, p)
      <3>1. PICK j \in i + 1 .. Len(q) : About(q[j], K, p)
        BY <2>2
      <3>2. j \in i + 1 .. Len(r) /\ j \in 1 .. Len(q)
        BY <1>1, <2>1
      <3> QED
        BY <1>1, <3>1, <3>2
    <2> QED
      BY <1>1, <1>6, <2>1, <2>2 DEF Last
  <1>7. ASSUME About(k, K, p), k.info.at = at, NEW i \in 1 .. Len(r), About(r[i], K, p)
        PROVE  r[i].info.at = at \/ \E j \in i + 1 .. Len(r) : About(r[j], K, p)
    <2>1. CASE i = Len(q) + 1
      BY <1>1, <1>7, <2>1
    <2>2. CASE i \in 1 .. Len(q)
      <3>1. Len(q) + 1 \in i + 1 .. Len(r)
        BY <1>1, <2>2
      <3> QED
        BY <1>1, <1>7, <3>1
    <2> QED
      BY <1>2, <2>1, <2>2
  <1>8. Listed(q, p, at) /\ (Brings(k, p) => k.list[p].at = at) => Listed(r, p, at)
    BY <1>1, <1>2 DEF Listed
  <1> QED
    BY <1>5, <1>6, <1>7, <1>8 DEF Last, r

LEMMA SaidLast ==
    ASSUME NEW S, NEW q \in Seq(S), NEW k \in S, NEW K, NEW p, NEW at, About(k, K, p), k.info.at = at
    PROVE  ~Clear(Append(q, k), K, p) /\ Last(Append(q, k), K, p, at)
  BY SaidAppended

LEMMA SaidBesides ==
    ASSUME NEW S, NEW q \in Seq(S), NEW k \in S, NEW K, NEW p, NEW at, ~About(k, K, p),
           Brings(k, p) => k.list[p].at = at
    PROVE  /\ Clear(Append(q, k), K, p) <=> Clear(q, K, p)
           /\ Last(q, K, p, at) => Last(Append(q, k), K, p, at)
           /\ Listed(q, p, at) => Listed(Append(q, k), p, at)
  BY SaidAppended

LEMMA SaidRemoved ==
    ASSUME NEW S, NEW q \in Seq(S), q # << >>, NEW K, NEW p, NEW at
    PROVE  LET r == Tail(q)
           IN  /\ Last(q, K, p, at) => Last(r, K, p, at)
               /\ Last(q, K, p, at) /\ About(Head(q), K, p) /\ Clear(r, K, p) => Head(q).info.at = at
               /\ ~About(Head(q), K, p) => (Clear(r, K, p) <=> Clear(q, K, p))
               /\ About(Head(q), K, p) => ~Clear(q, K, p)
               /\ Listed(q, p, at) => Listed(r, p, at) /\ (Brings(Head(q), p) => Head(q).list[p].at = at)
  <1> DEFINE r == Tail(q)
  <1>1. /\ Head(q) = q[1] /\ Len(q) \in Nat /\ Len(q) >= 1 /\ Len(r) = Len(q) - 1
        /\ \A i \in 1 .. Len(q) - 1 : r[i] = q[i + 1]
    BY Removed
  <1> HIDE DEF r
  <1>2. \A i \in 1 .. Len(r) : i + 1 \in 1 .. Len(q) /\ r[i] = q[i + 1]
    BY <1>1
  <1>3. \A i \in 2 .. Len(q) : i - 1 \in 1 .. Len(r) /\ r[i - 1] = q[i]
    BY <1>1
  <1>4. 1 \in 1 .. Len(q) /\ \A i \in 1 .. Len(q) : i = 1 \/ i \in 2 .. Len(q)
    BY <1>1
  <1>5. Clear(q, K, p) <=> Clear(r, K, p) /\ ~About(Head(q), K, p)
    BY <1>1, <1>2, <1>3, <1>4 DEF Clear
  <1>6. ASSUME Last(q, K, p, at), NEW i \in 1 .. Len(r), About(r[i], K, p)
        PROVE  r[i].info.at = at \/ \E j \in i + 1 .. Len(r) : About(r[j], K, p)
    <2>1. CASE \E j \in i + 1 + 1 .. Len(q) : About(q[j], K, p)
      <3>1. PICK j \in i + 1 + 1 .. Len(q) : About(q[j], K, p)
        BY <2>1
      <3>2. j - 1 \in i + 1 .. Len(r) /\ j \in 2 .. Len(q)
        BY <1>1
      <3> QED
        BY <1>3, <3>1, <3>2
    <2> QED
      BY <1>2, <1>6, <2>1 DEF Last
  <1>7. ASSUME Last(q, K, p, at), About(Head(q), K, p), Clear(r, K, p) PROVE Head(q).info.at = at
    <2>1. \A j \in 1 + 1 .. Len(q) : ~About(q[j], K, p)
      BY <1>3, <1>7 DEF Clear
    <2> QED
      BY <1>1, <1>4, <1>7, <2>1 DEF Last
  <1>8. Listed(q, p, at) => Listed(r, p, at) /\ (Brings(Head(q), p) => Head(q).list[p].at = at)
    BY <1>1, <1>2, <1>4 DEF Listed
  <1> QED
    BY <1>5, <1>6, <1>7, <1>8 DEF Last, r

LEMMA SaidOfOthers ==
    ASSUME NEW S, NEW q \in Seq(S), q # << >>, NEW K, NEW p, NEW at, ~About(Head(q), K, p)
    PROVE  /\ Clear(Tail(q), K, p) <=> Clear(q, K, p)
           /\ Last(q, K, p, at) => Last(Tail(q), K, p, at)
           /\ Listed(q, p, at) => Listed(Tail(q), p, at)
  BY SaidRemoved

LEMMA SaidByList ==
    ASSUME NEW S, NEW q \in Seq(S), q # << >>, NEW p, NEW at, Listed(q, p, at),
           Head(q).type = "spawn", p \in DOMAIN Head(q).list
    PROVE  Head(q).list[p].at = at
  <1>1. Brings(Head(q), p)
    BY DEF Brings
  <1> QED
    BY <1>1, SaidRemoved

\* There is still the own client's word to come: an order that it has not
\* handled, the walk, or, after the i-th packet, the arrival.
OwnAfter(p, i) == \/ ~Clear(down[p], Orders, p)
                  \/ p \in DOMAIN pawn[p] /\ pawn[p][p].run
                  \/ \E j \in i + 1 .. Len(up[p]) : /\ About(up[p][j], {"move"}, p)
                                                    /\ up[p][j].info.at = asked[p]
Own(p) == OwnAfter(p, 0)

\* The last order that is told is where the player was last sent; when it is
\* handled the pawn goes there.
Ordered(c, p) ==
    /\ Last(down[c], Orders, p, asked[p])
    /\ Clear(down[c], Orders, p) /\ p \in DOMAIN pawn[c] => pawn[c][p].goal \in {None, asked[p]}

\* With the arrivals it is the same for who is not late: with the last word
\* handled, and the own client's, the pawn is there or on the way.
AtOrTo(w, at) == w.goal = at \/ (w.goal = None /\ w.at = at)

Placed(c, p) ==
    /\ Last(down[c], Both, p, asked[p])
    /\ Clear(down[c], Both, p) /\ ~Own(p) =>
          IF p \in DOMAIN pawn[c] THEN AtOrTo(pawn[c][p], asked[p]) ELSE Listed(down[c], p, asked[p])

\* On the own client, who takes no arrivals, and stands only there.
Own1(w, at) == /\ w.dest = at /\ AtOrTo(w, at)
               /\ ~w.run => w.at = at

OwnPlaced(p) ==
    Clear(down[p], Orders, p) =>
       IF p \in DOMAIN pawn[p] THEN Own1(pawn[p][p], asked[p]) ELSE Listed(down[p], p, asked[p])

ServerPlaced(p) == posInfo[p].at = asked[p] \/ Own(p)

\* A shot tells the place of a pawn that stands where the player was sent, or
\* is followed by the own client's word.
Shot(p, i) == up[p][i].type = "reqShoot" =>
                 \/ up[p][i].info.at = asked[p]
                 \/ OwnAfter(p, i)
                 \/ \E j \in 1 .. i - 1 : up[p][j].type = "reqMove"

Shots(p) == \A i \in 1 .. Len(up[p]) : Shot(p, i)

PlacedOf(p) == /\ OwnPlaced(p) /\ Shots(p)
               /\ p \notin late => ServerPlaced(p)
               /\ \A c \in objects : Ordered(c, p) /\ (p \notin late /\ c # p => Placed(c, p))

Placement == \A p \in objects : PlacedOf(p)

(* Steps of a client.  A pawn keeps its destination; it may reach its goal, *)
(* set out for it, on its own client, or stand where it has arrived.        *)

SamePlace(v, w) == w.at = v.at /\ w.goal = v.goal

Reaches(v, w) == v.goal # None /\ w.at = v.goal /\ w.goal = None

SetsOut(v, w) == v.goal # None /\ v.at # v.goal /\ w.goal = v.goal

Steps1(v, w, own) == /\ w.dest = v.dest
                     /\ \/ w.run = v.run /\ (SamePlace(v, w) \/ Reaches(v, w) \/ (own /\ SetsOut(v, w)))
                        \/ v.run /\ v.at = v.dest /\ SamePlace(v, w)

PawnsStep == \A d \in Clients : \A r \in DOMAIN pawn[d] : Steps1(pawn[d][r], pawn'[d][r], d = r)

LEMMA OnePawnSteps ==
    ASSUME Typed, NEW c \in Clients, NEW p \in DOMAIN pawn[c], NEW w, OnePawn(c, p, w),
           Steps1(pawn[c][p], w, c = p)
    PROVE  PawnsStep
  BY DEF OnePawn, PawnsStep, Steps1, SamePlace

LEMMA PawnsStepSome ==
    ASSUME Typed, NEW c \in Clients, ClientStep(c)
    PROVE  PawnsStep
  <1>0. ASSUME pawn' = pawn PROVE PawnsStep
    BY <1>0 DEF PawnsStep, Steps1, SamePlace
  <1>1. CASE WalkOn(c)
    <2> DEFINE w == [pawn[c][c] EXCEPT !.at = Way]
    <2>1. c \in DOMAIN pawn[c] /\ pawn[c][c] \in Walker /\ OnePawn(c, c, w)
      BY <1>1, WalksOn
    <2>2. pawn[c][c].goal # None /\ pawn[c][c].at # pawn[c][c].goal
      BY <1>1 DEF WalkOn
    <2>3. Steps1(pawn[c][c], w, c = c)
      BY <2>1, <2>2 DEF Steps1, SetsOut, Walker, Pawn
    <2> HIDE DEF w
    <2> QED
      BY <2>1, <2>3, OnePawnSteps
  <1>2. ASSUME NEW p \in Clients, WalkTo(c, p) PROVE PawnsStep
    <2> DEFINE w == [pawn[c][p] EXCEPT !.at = pawn[c][p].goal, !.goal = None]
    <2>1. p \in DOMAIN pawn[c] /\ pawn[c][p] \in Walker /\ pawn[c][p].goal # None /\ OnePawn(c, p, w)
      BY <1>2, WalksTo
    <2>2. Steps1(pawn[c][p], w, c = p)
      BY <2>1 DEF Steps1, Reaches, Walker, Pawn
    <2> HIDE DEF w
    <2> QED
      BY <2>1, <2>2, OnePawnSteps
  <1>3. ASSUME NEW p \in Clients, Arrive(c, p) PROVE PawnsStep
    <2> DEFINE w == [pawn[c][p] EXCEPT !.run = FALSE]
    <2>1. /\ p \in DOMAIN pawn[c] /\ pawn[c][p] \in Walker /\ OnePawn(c, p, w)
          /\ pawn[c][p].run /\ pawn[c][p].at = pawn[c][p].dest
      BY <1>3, Arrived
    <2>2. Steps1(pawn[c][p], w, c = p)
      BY <2>1 DEF Steps1, SamePlace, Walker, Pawn
    <2> HIDE DEF w
    <2> QED
      BY <2>1, <2>2, OnePawnSteps
  <1>4. \/ \E to \in Places : Click(c, to)
        \/ ShootClick(c)
        \/ \E b \in Bullet : BulletEnds(c, b) \/ \E p \in Clients : Hit(c, b, p)
        => pawn' = pawn
    BY DEF Click, ShootClick, BulletEnds, Hit, world
  <1> QED
    BY <1>0, <1>1, <1>2, <1>3, <1>4 DEF ClientStep

\* Whoever stops running tells it.
Stops == \A p \in Clients : p \in DOMAIN pawn[p] /\ pawn[p][p].run /\ ~pawn'[p][p].run =>
            \E k \in ToServer : About(k, {"move"}, p) /\ k.info.at = pawn[p][p].dest
                                /\ up' = [up EXCEPT ![p] = Append(@, k)]

LEMMA StopsSome ==
    ASSUME Typed, NEW c \in Clients, ClientStep(c)
    PROVE  Stops
  <1>1. ASSUME NEW p \in Clients, Arrive(c, p) PROVE Stops
    <2> DEFINE w == [pawn[c][p] EXCEPT !.run = FALSE]
    <2>1. p \in DOMAIN pawn[c] /\ OnePawn(c, p, w)
      BY <1>1, Arrived
    <2> HIDE DEF w
    <2>2. PICK k \in ToServer : /\ k.type = "move" /\ k.who = p /\ k.info.at = pawn[c][p].dest
                                /\ up' = [up EXCEPT ![c] = Append(@, k)]
      BY <1>1, Arrived
    <2>3. ASSUME NEW q \in Clients, q \in DOMAIN pawn[q], q # c \/ q # p PROVE pawn'[q][q] = pawn[q][q]
      BY <2>1, <2>3 DEF OnePawn
    <2> QED
      BY <2>2, <2>3 DEF Stops, About
  <1>2. CASE WalkOn(c)
    <2> DEFINE w == [pawn[c][c] EXCEPT !.at = Way]
    <2>1. c \in DOMAIN pawn[c] /\ pawn[c][c] \in Walker /\ OnePawn(c, c, w)
      BY <1>2, WalksOn
    <2>2. w.run = pawn[c][c].run
      BY <2>1 DEF Walker, Pawn
    <2> HIDE DEF w
    <2> QED
      BY <2>1, <2>2 DEF OnePawn, Stops
  <1>3. ASSUME NEW p \in Clients, WalkTo(c, p) PROVE Stops
    <2> DEFINE w == [pawn[c][p] EXCEPT !.at = pawn[c][p].goal, !.goal = None]
    <2>1. p \in DOMAIN pawn[c] /\ pawn[c][p] \in Walker /\ OnePawn(c, p, w)
      BY <1>3, WalksTo
    <2>2. w.run = pawn[c][p].run
      BY <2>1 DEF Walker, Pawn
    <2> HIDE DEF w
    <2> QED
      BY <2>1, <2>2 DEF OnePawn, Stops
  <1>4. \/ \E to \in Places : Click(c, to)
        \/ ShootClick(c)
        \/ \E b \in Bullet : BulletEnds(c, b) \/ \E p \in Clients : Hit(c, b, p)
        => pawn' = pawn
    BY DEF Click, ShootClick, BulletEnds, Hit, world
  <1> QED
    BY <1>1, <1>2, <1>3, <1>4 DEF ClientStep, Stops

LEMMA UpGrows ==
    ASSUME Typed, NEW c \in Clients, Acts(c), NEW p \in Clients
    PROVE  /\ Len(up[p]) \in Nat /\ Len(up'[p]) \in Nat
           /\ Len(up'[p]) \in {Len(up[p]), Len(up[p]) + 1}
           /\ \A j \in 1 .. Len(up[p]) : up'[p][j] = up[p][j]
           /\ \A j \in 1 .. Len(up'[p]) : up'[p][j].type = "reqShoot" /\ j \notin 1 .. Len(up[p]) =>
                 p \in DOMAIN pawn[p] /\ up'[p][j].info.at = pawn[p][p].at
  <1>0. up[p] \in Seq(ToServer) /\ Len(up[p]) \in Nat
    BY LenProperties DEF Typed
  <1>1. CASE up'[p] = up[p]
    BY <1>0, <1>1
  <1>2. ASSUME NEW k \in ToServer, Sends(c, k), up'[p] # up[p]
        PROVE  /\ Len(up'[p]) = Len(up[p]) + 1
               /\ \A j \in 1 .. Len(up[p]) : up'[p][j] = up[p][j]
               /\ \A j \in 1 .. Len(up'[p]) : up'[p][j].type = "reqShoot" /\ j \notin 1 .. Len(up[p]) =>
                     p \in DOMAIN pawn[p] /\ up'[p][j].info.at = pawn[p][p].at
    <2>1. p = c /\ up'[p] = Append(up[p], k)
      BY <1>2, UpAppended DEF Sends
    <2>2. /\ Len(up'[p]) = Len(up[p]) + 1
          /\ \A j \in 1 .. Len(up[p]) : up'[p][j] = up[p][j]
          /\ up'[p][Len(up[p]) + 1] = k
      BY <1>0, <2>1, Appended
    <2>3. \A j \in 1 .. Len(up'[p]) : j \notin 1 .. Len(up[p]) => j = Len(up[p]) + 1
      BY <1>0, <2>2
    <2> QED
      BY <1>2, <2>1, <2>2, <2>3 DEF Sends
  <1>3. up'[p] = up[p] \/ \E k \in ToServer : Sends(c, k)
    BY DEF Acts
  <1> QED
    BY <1>0, <1>1, <1>2, <1>3

LEMMA OwnActs ==
    ASSUME Typed, NEW c \in Clients, Acts(c), PawnsStep, Stops, NEW p \in Clients, OwnPlaced(p),
           NEW i \in 0 .. Len(up[p]), OwnAfter(p, i)
    PROVE  OwnAfter(p, i)'
  <1>1. down' = down /\ asked' = asked /\ DOMAIN pawn'[p] = DOMAIN pawn[p]
    BY DEF Acts, history, SamePawns
  <1>2. /\ Len(up[p]) \in Nat /\ Len(up'[p]) \in Nat
        /\ Len(up'[p]) \in {Len(up[p]), Len(up[p]) + 1}
        /\ \A j \in 1 .. Len(up[p]) : up'[p][j] = up[p][j]
    BY UpGrows
  <1>3. CASE ~Clear(down[p], Orders, p)
    BY <1>1, <1>3 DEF OwnAfter
  <1>4. CASE p \in DOMAIN pawn[p] /\ pawn[p][p].run /\ Clear(down[p], Orders, p)
    <2>1. CASE pawn'[p][p].run
      BY <1>1, <1>4, <2>1 DEF OwnAfter
    <2>2. CASE ~pawn'[p][p].run
      <3>1. pawn[p][p].dest = asked[p]
        BY <1>4 DEF OwnPlaced, Own1
      <3>2. PICK k \in ToServer : About(k, {"move"}, p) /\ k.info.at = asked[p] /\ up' = [up EXCEPT ![p] = Append(@, k)]
        BY <1>4, <2>2, <3>1 DEF Stops
      <3>3. up'[p] = Append(up[p], k) /\ up[p] \in Seq(ToServer)
        BY <3>2 DEF Typed
      <3>4. up'[p][Len(up[p]) + 1] = k /\ Len(up'[p]) = Len(up[p]) + 1
        BY <3>3, Appended
      <3>5. Len(up[p]) + 1 \in i + 1 .. Len(up'[p])
        BY <1>2, <3>4
      <3> QED
        BY <1>1, <3>2, <3>4, <3>5 DEF OwnAfter
    <2> QED
      BY <2>1, <2>2
  <1>5. ASSUME NEW j \in i + 1 .. Len(up[p]), About(up[p][j], {"move"}, p), up[p][j].info.at = asked[p]
        PROVE  OwnAfter(p, i)'
    <2>1. j \in i + 1 .. Len(up'[p]) /\ up'[p][j] = up[p][j]
      BY <1>2
    <2> QED
      BY <1>1, <1>5, <2>1 DEF OwnAfter
  <1> QED
    BY <1>3, <1>4, <1>5 DEF OwnAfter

LEMMA PlacementActs ==
    ASSUME Typed, Present, Placement, NEW c \in Clients, Acts(c), PawnsStep, Stops
    PROVE  Placement'
  <1>1. /\ UNCHANGED <<objects, posInfo, down, asked, late>> /\ objects \subseteq Clients
        /\ \A d \in Clients : DOMAIN pawn'[d] = DOMAIN pawn[d]
        /\ asked \in [Clients -> Where]
    BY DEF Acts, server, history, SamePawns, Typed
  <1>2. ASSUME NEW p \in objects, NEW i \in 0 .. Len(up[p]), OwnAfter(p, i) PROVE OwnAfter(p, i)'
    BY <1>1, <1>2, OwnActs DEF Placement, PlacedOf
  <1>3. ASSUME NEW p \in objects, Own(p) PROVE Own(p)'
    <2>1. 0 \in 0 .. Len(up[p])
      BY <1>1, UpGrows
    <2> QED
      BY <1>2, <1>3, <2>1 DEF Own
  <1>4. ASSUME NEW p \in objects PROVE OwnPlaced(p)'
    <2>1. OwnPlaced(p)
      BY DEF Placement, PlacedOf
    <2>2. CASE p \in DOMAIN pawn[p] /\ Clear(down[p], Orders, p)
      <3> DEFINE v == pawn[p][p]  w == pawn'[p][p]  at == asked[p]
      <3>1. Own1(v, at) /\ Steps1(v, w, TRUE)
        BY <1>1, <2>1, <2>2 DEF OwnPlaced, PawnsStep
      <3>2. v.run \in BOOLEAN
        BY <1>1, <2>2 DEF Typed, Walker, Pawn
      <3> HIDE DEF v, w, at
      <3>3. Own1(w, at)
        BY <3>1, <3>2 DEF Own1, Steps1, AtOrTo, SamePlace, Reaches, SetsOut
      <3> QED
        BY <1>1, <2>2, <3>3 DEF OwnPlaced, v, w, at
    <2>3. CASE ~(p \in DOMAIN pawn[p] /\ Clear(down[p], Orders, p))
      BY <1>1, <2>1, <2>3 DEF OwnPlaced
    <2> QED
      BY <2>2, <2>3
  <1>5. ASSUME NEW p \in objects PROVE Shots(p)'
    <2>1. Shots(p) /\ OwnPlaced(p)
      BY DEF Placement, PlacedOf
    <2>2. /\ Len(up[p]) \in Nat /\ Len(up'[p]) \in Nat
          /\ Len(up'[p]) \in {Len(up[p]), Len(up[p]) + 1}
          /\ \A j \in 1 .. Len(up[p]) : up'[p][j] = up[p][j]
          /\ \A j \in 1 .. Len(up'[p]) : up'[p][j].type = "reqShoot" /\ j \notin 1 .. Len(up[p]) =>
                p \in DOMAIN pawn[p] /\ up'[p][j].info.at = pawn[p][p].at
      BY <1>1, UpGrows
    <2>3. ASSUME NEW i \in 1 .. Len(up'[p]), up'[p][i].type = "reqShoot" PROVE Shot(p, i)'
      <3>1. CASE i \in 1 .. Len(up[p])
        <4>1. Shot(p, i) /\ up'[p][i] = up[p][i] /\ i \in 0 .. Len(up[p])
          BY <2>1, <2>2, <3>1 DEF Shots
        <4>2. \A j \in 1 .. i - 1 : up'[p][j] = up[p][j]
          BY <2>2, <3>1
        <4>3. OwnAfter(p, i) => OwnAfter(p, i)'
          BY <1>2, <4>1
        <4> QED
          BY <1>1, <4>1, <4>2, <4>3 DEF Shot
      <3>2. CASE i \notin 1 .. Len(up[p])
        <4>1. p \in DOMAIN pawn[p] /\ up'[p][i].info.at = pawn[p][p].at /\ i = Len(up[p]) + 1
          BY <2>2, <2>3, <3>2
        <4>2. CASE ~Clear(down[p], Orders, p)
          BY <1>1, <4>2 DEF Shot, OwnAfter
        <4>3. CASE Clear(down[p], Orders, p) /\ ~pawn[p][p].run
          <5>1. pawn[p][p].at = asked[p]
            BY <2>1, <4>1, <4>3 DEF OwnPlaced, Own1
          <5> QED
            BY <1>1, <4>1, <5>1 DEF Shot
        <4>4. CASE pawn[p][p].run /\ Clear(down[p], Orders, p)
          <5>1. CASE pawn'[p][p].run
            BY <1>1, <4>1, <5>1 DEF Shot, OwnAfter
          <5>2. CASE ~pawn'[p][p].run
            <6>1. PICK k \in ToServer : About(k, {"move"}, p) /\ up' = [up EXCEPT ![p] = Append(@, k)]
              BY <1>1, <4>1, <4>4, <5>2 DEF Stops
            <6>2. up'[p] = Append(up[p], k) /\ up[p] \in Seq(ToServer)
              BY <1>1, <6>1 DEF Typed
            <6>3. up'[p][i] = k
              BY <4>1, <6>2, Appended
            <6> QED
              BY <2>3, <6>1, <6>3 DEF About
          <5> QED
            BY <5>1, <5>2
        <4> QED
          BY <4>2, <4>3, <4>4
      <3> QED
        BY <3>1, <3>2
    <2> QED
      BY <2>3 DEF Shots, Shot
  <1>6. ASSUME NEW p \in objects, NEW d \in objects PROVE Ordered(d, p)'
    <2>1. Ordered(d, p)
      BY DEF Placement, PlacedOf
    <2>2. p \in DOMAIN pawn[d] => Steps1(pawn[d][p], pawn'[d][p], d = p)
      BY <1>1 DEF PawnsStep
    <2>3. p \in DOMAIN pawn[d] => pawn'[d][p].goal \in {pawn[d][p].goal, None}
      BY <2>2 DEF Steps1, SamePlace, Reaches, SetsOut
    <2> QED
      BY <1>1, <2>1, <2>3 DEF Ordered
  <1>7. ASSUME NEW p \in objects, NEW d \in objects, p \notin late, d # p PROVE Placed(d, p)'
    <2>1. Placed(d, p)
      BY <1>7 DEF Placement, PlacedOf
    <2>2. p \in DOMAIN pawn[d] => Steps1(pawn[d][p], pawn'[d][p], d = p)
      BY <1>1 DEF PawnsStep
    <2>3. p \in DOMAIN pawn[d] /\ AtOrTo(pawn[d][p], asked[p]) => AtOrTo(pawn'[d][p], asked[p])
      BY <1>7, <2>2 DEF Steps1, SamePlace, Reaches, AtOrTo
    <2> QED
      BY <1>1, <1>3, <2>1, <2>3 DEF Placed
  <1>8. ASSUME NEW p \in objects, p \notin late PROVE ServerPlaced(p)'
    <2>1. ServerPlaced(p)
      BY <1>8 DEF Placement, PlacedOf
    <2> QED
      BY <1>1, <1>3, <2>1 DEF ServerPlaced
  <1> QED
    BY <1>1, <1>4, <1>5, <1>6, <1>7, <1>8 DEF Placement, PlacedOf

(* Jobs of the room. *)

LEMMA UpServed ==
    ASSUME Typed, NEW c \in Clients, NEW k, Serves(c, k), NEW p \in Clients
    PROVE  /\ Len(up[p]) \in Nat
           /\ p # c => up'[p] = up[p]
           /\ p = c => /\ Len(up'[p]) = Len(up[p]) - 1 /\ Len(up[p]) >= 1 /\ Head(up[c]) = up[p][1]
                       /\ \A j \in 1 .. Len(up[p]) - 1 : up'[p][j] = up[p][j + 1]
  <1>1. up'[c] = Tail(up[c]) /\ \A d \in Clients \ {c} : up'[d] = up[d]
    BY UpRemoved DEF Serves
  <1>2. up[p] \in Seq(ToServer) /\ Len(up[p]) \in Nat
    BY LenProperties DEF Typed
  <1>3. up[c] \in Seq(ToServer) /\ up[c] # << >>
    BY DEF Serves, Typed
  <1>4. /\ Len(Tail(up[c])) = Len(up[c]) - 1 /\ Len(up[c]) >= 1 /\ Head(up[c]) = up[c][1]
        /\ \A j \in 1 .. Len(up[c]) - 1 : Tail(up[c])[j] = up[c][j + 1]
    BY <1>3, Removed
  <1> QED
    BY <1>1, <1>2, <1>4

LEMMA DownServed ==
    ASSUME Typed, NEW c \in Clients, NEW k, Serves(c, k), NEW d \in objects
    PROVE  /\ k \in ToClient /\ down[d] \in Seq(ToClient) /\ down'[d] = Append(down[d], k)
           /\ objects' = objects /\ pawn' = pawn
  BY ToldAll DEF Serves, Typed, world

LEMMA OwnServes ==
    ASSUME Typed, NEW c \in Clients, NEW k, Serves(c, k), NEW p \in objects, asked'[p] = asked[p]
    PROVE  /\ p # c => \A i \in 0 .. Len(up[p]) : OwnAfter(p, i) => OwnAfter(p, i)'
           /\ p = c => \A i \in 0 .. Len(up[p]) - 1 : OwnAfter(p, i + 1) => OwnAfter(p, i)'
           /\ ~About(Head(up[c]), {"move"}, p) /\ Own(p) => Own(p)'
  <1>1. k \in ToClient /\ down[p] \in Seq(ToClient) /\ down'[p] = Append(down[p], k) /\ pawn' = pawn /\ p \in Clients
    BY DownServed DEF Typed
  <1>2. ~Clear(down[p], Orders, p) => ~Clear(down'[p], Orders, p)
    BY <1>1, SaidAppended
  <1>3. /\ Len(up[p]) \in Nat
        /\ p # c => up'[p] = up[p]
        /\ p = c => /\ Len(up'[p]) = Len(up[p]) - 1 /\ Len(up[p]) >= 1 /\ Head(up[c]) = up[p][1]
                    /\ \A j \in 1 .. Len(up[p]) - 1 : up'[p][j] = up[p][j + 1]
    BY <1>1, UpServed
  <1>4. ASSUME p # c, NEW i \in 0 .. Len(up[p]), OwnAfter(p, i) PROVE OwnAfter(p, i)'
    BY <1>1, <1>2, <1>3, <1>4 DEF OwnAfter
  <1>5. ASSUME p = c, NEW i \in 0 .. Len(up[p]) - 1, OwnAfter(p, i + 1) PROVE OwnAfter(p, i)'
    <2>1. CASE ~Clear(down[p], Orders, p) \/ (p \in DOMAIN pawn[p] /\ pawn[p][p].run)
      BY <1>1, <1>2, <2>1 DEF OwnAfter
    <2>2. ASSUME NEW j \in i + 1 + 1 .. Len(up[p]), About(up[p][j], {"move"}, p), up[p][j].info.at = asked[p]
          PROVE  OwnAfter(p, i)'
      <3>1. j - 1 \in i + 1 .. Len(up'[p]) /\ j - 1 \in 1 .. Len(up[p]) - 1 /\ j - 1 + 1 = j
        BY <1>3, <1>5
      <3>2. up'[p][j - 1] = up[p][j]
        BY <1>3, <1>5, <3>1
      <3> QED
        BY <2>2, <3>1, <3>2 DEF OwnAfter
    <2> QED
      BY <1>5, <2>1, <2>2 DEF OwnAfter
  <1>6. ASSUME ~About(Head(up[c]), {"move"}, p), Own(p) PROVE Own(p)'
    <2>1. CASE p # c
      <3>1. 0 \in 0 .. Len(up[p])
        BY <1>3
      <3> QED
        BY <1>4, <1>6, <2>1, <3>1 DEF Own
    <2>2. CASE p = c
      <3>1. OwnAfter(p, 0 + 1)
        <4>1. \A j \in 0 + 1 .. Len(up[p]) : About(up[p][j], {"move"}, p) => j \in 0 + 1 + 1 .. Len(up[p])
          BY <1>3, <1>6, <2>2
        <4> QED
          BY <1>6, <4>1 DEF Own, OwnAfter
      <3>2. 0 \in 0 .. Len(up[p]) - 1
        BY <1>3, <2>2
      <3> QED
        BY <1>5, <2>2, <3>1, <3>2 DEF Own
    <2> QED
      BY <2>1, <2>2
  <1> QED
    BY <1>4, <1>5, <1>6

\* What is told of others or of other things leaves the player where it is.
LEMMA OrderedServes ==
    ASSUME Typed, NEW c \in Clients, NEW k, Serves(c, k), NEW p \in objects, asked'[p] = asked[p],
           ~About(k, Orders, p), k.type # "spawn"
    PROVE  /\ OwnPlaced(p) => OwnPlaced(p)'
           /\ \A d \in objects : Ordered(d, p) => Ordered(d, p)'
  <1>1. ASSUME NEW d \in objects
        PROVE  /\ Clear(down'[d], Orders, p) <=> Clear(down[d], Orders, p)
               /\ Last(down[d], Orders, p, asked[p]) => Last(down'[d], Orders, p, asked[p])
               /\ Listed(down[d], p, asked[p]) => Listed(down'[d], p, asked[p])
               /\ pawn' = pawn
    <2>1. k \in ToClient /\ down[d] \in Seq(ToClient) /\ down'[d] = Append(down[d], k) /\ pawn' = pawn
      BY DownServed
    <2>2. ~Brings(k, p)
      BY DEF Brings
    <2> QED
      BY <2>1, <2>2, SaidAppended
  <1>2. OwnPlaced(p) => OwnPlaced(p)'
    BY <1>1 DEF OwnPlaced
  <1>3. ASSUME NEW d \in objects, Ordered(d, p) PROVE Ordered(d, p)'
    BY <1>1, <1>3 DEF Ordered
  <1> QED
    BY <1>2, <1>3

LEMMA PlacedServes ==
    ASSUME Typed, NEW c \in Clients, NEW k, Serves(c, k), NEW p \in objects, asked'[p] = asked[p],
           ~About(k, Both, p), k.type # "spawn", Own(p) => Own(p)', NEW d \in objects, Placed(d, p)
    PROVE  Placed(d, p)'
  <1>1. k \in ToClient /\ down[d] \in Seq(ToClient) /\ down'[d] = Append(down[d], k) /\ pawn' = pawn
    BY DownServed
  <1>2. ~Brings(k, p)
    BY DEF Brings
  <1>3. /\ Clear(down'[d], Both, p) <=> Clear(down[d], Both, p)
        /\ Last(down[d], Both, p, asked[p]) => Last(down'[d], Both, p, asked[p])
        /\ Listed(down[d], p, asked[p]) => Listed(down'[d], p, asked[p])
    BY <1>1, <1>2, SaidAppended
  <1> QED
    BY <1>1, <1>3 DEF Placed

LEMMA ShotsServes ==
    ASSUME Typed, NEW c \in Clients, NEW k, Serves(c, k), NEW p \in objects, asked'[p] = asked[p],
           p = c => Head(up[c]).type # "reqMove", Shots(p)
    PROVE  Shots(p)'
  <1>1. /\ Len(up[p]) \in Nat
        /\ p # c => up'[p] = up[p]
        /\ p = c => /\ Len(up'[p]) = Len(up[p]) - 1 /\ Len(up[p]) >= 1 /\ Head(up[c]) = up[p][1]
                    /\ \A j \in 1 .. Len(up[p]) - 1 : up'[p][j] = up[p][j + 1]
    BY UpServed DEF Typed
  <1>2. CASE p # c
    <2>1. ASSUME NEW i \in 1 .. Len(up[p]) PROVE Shot(p, i)'
      <3>1. Shot(p, i) /\ i \in 0 .. Len(up[p])
        BY DEF Shots
      <3>2. OwnAfter(p, i) => OwnAfter(p, i)'
        BY <1>2, <3>1, OwnServes
      <3> QED
        BY <1>1, <1>2, <3>1, <3>2 DEF Shot
    <2> QED
      BY <1>1, <1>2, <2>1 DEF Shots
  <1>3. CASE p = c
    <2>1. ASSUME NEW i \in 1 .. Len(up'[p]) PROVE Shot(p, i)'
      <3>1. i + 1 \in 1 .. Len(up[p]) /\ i \in 0 .. Len(up[p]) - 1 /\ up'[p][i] = up[p][i + 1]
        BY <1>1, <1>3
      <3>2. Shot(p, i + 1)
        BY <3>1 DEF Shots
      <3>3. OwnAfter(p, i + 1) => OwnAfter(p, i)'
        BY <1>3, <3>1, OwnServes
      <3>4. ASSUME NEW j \in 1 .. i + 1 - 1, up[p][j].type = "reqMove"
            PROVE  \E n \in 1 .. i - 1 : up'[p][n].type = "reqMove"
        <4>1. j # 1
          BY <1>1, <1>3, <3>4
        <4>2. j - 1 \in 1 .. i - 1 /\ j - 1 \in 1 .. Len(up[p]) - 1 /\ j - 1 + 1 = j
          BY <1>1, <3>1, <4>1
        <4>3. up'[p][j - 1] = up[p][j]
          BY <1>1, <1>3, <4>2
        <4> QED
          BY <3>4, <4>2, <4>3
      <3> QED
        BY <3>1, <3>2, <3>3, <3>4 DEF Shot
    <2> QED
      BY <2>1 DEF Shots
  <1> QED
    BY <1>2, <1>3

\* A job that tells nothing of the player's place.
LEMMA PlacementKept ==
    ASSUME Typed, Placement, NEW c \in Clients, NEW k, Serves(c, k), NEW p \in objects, asked'[p] = asked[p],
           ~About(k, Both, p), k.type # "spawn", p \in late' <=> p \in late,
           ~About(Head(up[c]), {"move"}, p), p = c => Head(up[c]).type # "reqMove",
           posInfo'[p] = posInfo[p] \/ ServerPlaced(p)'
    PROVE  PlacedOf(p)'
  <1>1. PlacedOf(p) /\ objects' = objects
    BY DownServed DEF Placement
  <1>2. Own(p) => Own(p)'
    BY OwnServes
  <1>3. ~About(k, Orders, p)
    BY DEF About, Orders, Both
  <1>4. OwnPlaced(p)' /\ \A d \in objects : Ordered(d, p)'
    BY <1>1, <1>3, OrderedServes DEF PlacedOf
  <1>5. Shots(p)'
    BY <1>1, ShotsServes DEF PlacedOf
  <1>6. ASSUME NEW d \in objects, p \notin late, d # p PROVE Placed(d, p)'
    BY <1>1, <1>2, <1>6, PlacedServes DEF PlacedOf
  <1>7. p \notin late => ServerPlaced(p)'
    BY <1>1, <1>2 DEF PlacedOf, ServerPlaced
  <1> QED
    BY <1>1, <1>4, <1>5, <1>6, <1>7 DEF PlacedOf

LEMMA PlacementREQMove ==
    ASSUME Typed, Present, Placement, NEW c \in Clients, HandleREQMove(c)
    PROVE  Placement'
  <1> DEFINE h == Head(up[c])
             k == [h EXCEPT !.type = "resMove"]
  <1>1. /\ Serves(c, k) /\ h.type = "reqMove" /\ h.who \in Clients
        /\ k.type = "resMove" /\ k.who = h.who /\ k.info = h.info
        /\ posInfo' = [posInfo EXCEPT ![h.who] = h.info] /\ asked' = [asked EXCEPT ![h.who] = h.info.at]
        /\ late' = late \ {h.who}
    BY ServesREQMove
  <1>2. h.who = c /\ c \in objects
    BY <1>1, HeadUp DEF Serves
  <1> HIDE DEF h, k
  <1>3. objects' = objects /\ objects \subseteq Clients /\ pawn' = pawn
    BY <1>1, <1>2, DownServed DEF Typed
  <1>4. ASSUME NEW p \in objects, p # c PROVE PlacedOf(p)'
    <2>1. asked'[p] = asked[p] /\ posInfo'[p] = posInfo[p] /\ (p \in late' <=> p \in late)
      BY <1>1, <1>2, <1>3, <1>4 DEF Typed
    <2>2. ~About(k, Both, p) /\ k.type # "spawn" /\ ~About(Head(up[c]), {"move"}, p)
      BY <1>1, <1>2, <1>4 DEF About, h
    <2> QED
      BY <1>1, <1>4, <2>1, <2>2, PlacementKept
  <1>5. asked'[c] = k.info.at /\ posInfo'[c].at = asked'[c]
    BY <1>1, <1>2, <1>3 DEF Typed
  <1>6. ASSUME NEW d \in objects
        PROVE  /\ ~Clear(down'[d], Orders, c) /\ ~Clear(down'[d], Both, c)
               /\ Last(down'[d], Orders, c, asked'[c]) /\ Last(down'[d], Both, c, asked'[c])
    <2>1. k \in ToClient /\ down[d] \in Seq(ToClient) /\ down'[d] = Append(down[d], k)
      BY <1>1, DownServed
    <2>2. About(k, Orders, c) /\ About(k, Both, c)
      BY <1>1, <1>2 DEF About, Orders, Both
    <2>3. PICK at : at = k.info.at
      OBVIOUS
    <2>4. ~Clear(down'[d], Orders, c) /\ Last(down'[d], Orders, c, at)
      BY <2>1, <2>2, <2>3, SaidLast
    <2>5. ~Clear(down'[d], Both, c) /\ Last(down'[d], Both, c, at)
      BY <2>1, <2>2, <2>3, SaidLast
    <2> QED
      BY <1>5, <2>3, <2>4, <2>5
  <1>7. PlacedOf(c)'
    <2>1. OwnPlaced(c)' /\ Shots(c)'
      BY <1>2, <1>6 DEF OwnPlaced, Shots, Shot, OwnAfter
    <2>2. ServerPlaced(c)'
      BY <1>5 DEF ServerPlaced
    <2>3. \A d \in objects : Ordered(d, c)' /\ Placed(d, c)'
      BY <1>6 DEF Ordered, Placed
    <2> QED
      BY <1>3, <2>1, <2>2, <2>3 DEF PlacedOf
  <1> QED
    BY <1>3, <1>4, <1>7 DEF Placement

LEMMA PlacementMove ==
    ASSUME Typed, Present, Placement, NEW c \in Clients, HandleMove(c)
    PROVE  Placement'
  <1> DEFINE h == Head(up[c])
  <1>1. /\ Serves(c, h) /\ h.type = "move" /\ h.who \in Clients
        /\ posInfo' = [posInfo EXCEPT ![h.who] = h.info] /\ asked' = asked
        /\ late' = IF h.info.at = asked[h.who] THEN late \ {h.who} ELSE late \cup {h.who}
    BY ServesMove
  <1>2. h.who \in objects /\ c \in objects
    BY <1>1, HeadUp DEF Serves, Names
  <1>h. h = Head(up[c])
    OBVIOUS
  <1> HIDE DEF h
  <1>3. objects' = objects /\ objects \subseteq Clients /\ pawn' = pawn
    BY <1>1, <1>2, DownServed DEF Typed
  <1>4. ASSUME NEW p \in objects, p # h.who PROVE PlacedOf(p)'
    <2>1. asked'[p] = asked[p] /\ posInfo'[p] = posInfo[p] /\ (p \in late' <=> p \in late)
      BY <1>1, <1>2, <1>3, <1>4 DEF Typed
    <2>2. ~About(h, Both, p) /\ h.type # "spawn" /\ ~About(h, {"move"}, p) /\ h.type # "reqMove"
      BY <1>1, <1>4 DEF About
    <2> QED
      BY <1>1, <1>4, <1>h, <2>1, <2>2, PlacementKept
  <1>5. ASSUME NEW p \in objects, p = h.who PROVE PlacedOf(p)'
    <2>0. asked'[p] = asked[p] /\ PlacedOf(p) /\ p = h.who
      BY <1>1, <1>5 DEF Placement
    <2>1. ~About(h, Orders, p) /\ h.type # "spawn" /\ h.type # "reqMove"
      BY <1>1 DEF About, Orders
    <2>2. OwnPlaced(p)' /\ \A d \in objects : Ordered(d, p)'
      BY <1>1, <2>0, <2>1, OrderedServes DEF PlacedOf
    <2>3. Shots(p)'
      BY <1>1, <1>h, <2>0, <2>1, ShotsServes DEF PlacedOf
    <2>4. ASSUME p \notin late' PROVE ServerPlaced(p)' /\ \A d \in objects : Placed(d, p)'
      <3>1. h.info.at = asked[p] /\ posInfo'[p] = h.info
        BY <1>1, <1>3, <2>0, <2>4 DEF Typed
      <3>2. ServerPlaced(p)'
        BY <2>0, <3>1 DEF ServerPlaced
      <3>3. ASSUME NEW d \in objects PROVE Placed(d, p)'
        <4>1. h \in ToClient /\ down[d] \in Seq(ToClient) /\ down'[d] = Append(down[d], h)
          BY <1>1, DownServed
        <4>2. About(h, Both, p)
          BY <1>1, <2>0 DEF About, Both
        <4>3. ~Clear(down'[d], Both, p) /\ Last(down'[d], Both, p, asked[p])
          BY <3>1, <4>1, <4>2, SaidAppended
        <4> QED
          BY <2>0, <4>3 DEF Placed
      <3> QED
        BY <3>2, <3>3
    <2> QED
      BY <1>3, <2>2, <2>3, <2>4 DEF PlacedOf
  <1> QED
    BY <1>3, <1>4, <1>5 DEF Placement

LEMMA PlacementREQShoot ==
    ASSUME Typed, Present, Placement, NEW c \in Clients, HandleREQShoot(c)
    PROVE  Placement'
  <1> DEFINE h == Head(up[c])
             k == [h EXCEPT !.type = "resShoot"]
  <1>1. /\ Serves(c, k) /\ h.type = "reqShoot" /\ h.who \in Clients /\ k.type = "resShoot"
        /\ posInfo' = [posInfo EXCEPT ![h.who] = h.info] /\ UNCHANGED history
    BY ServesREQShoot
  <1>2. h.who = c /\ c \in objects
    BY <1>1, HeadUp DEF Serves
  <1>h. h = Head(up[c])
    OBVIOUS
  <1> HIDE DEF h, k
  <1>3. objects' = objects /\ objects \subseteq Clients /\ asked' = asked /\ late' = late
    BY <1>1, <1>2, DownServed DEF Typed, history
  <1>4. posInfo'[c].at = asked'[c] \/ Own(c)'
    <2>1. Len(up[c]) \in Nat /\ Len(up[c]) >= 1 /\ h = up[c][1]
      BY <1>1, <1>h, UpServed
    <2>2. 1 \in 1 .. Len(up[c]) /\ 0 \in 0 .. Len(up[c]) - 1 /\ 0 + 1 = 1 /\ 1 .. 1 - 1 = {}
      BY <2>1
    <2>3. Shot(c, 1)
      BY <1>2, <2>2 DEF Placement, PlacedOf, Shots
    <2>4. h.info.at = asked[c] \/ OwnAfter(c, 1)
      BY <1>1, <2>1, <2>2, <2>3 DEF Shot
    <2>5. OwnAfter(c, 0 + 1) => OwnAfter(c, 0)'
      BY <1>1, <1>2, <1>3, <2>2, OwnServes
    <2>6. posInfo'[c] = h.info
      BY <1>1, <1>2 DEF Typed
    <2> QED
      BY <1>3, <2>2, <2>4, <2>5, <2>6 DEF Own
  <1>5. ASSUME NEW p \in objects PROVE PlacedOf(p)'
    <2>1. asked'[p] = asked[p] /\ (p \in late' <=> p \in late)
      BY <1>3
    <2>2. posInfo'[p] = posInfo[p] \/ ServerPlaced(p)'
      BY <1>1, <1>2, <1>3, <1>4 DEF Typed, ServerPlaced
    <2>3. ~About(k, Both, p) /\ k.type # "spawn" /\ ~About(h, {"move"}, p) /\ h.type # "reqMove"
      BY <1>1 DEF About, Both
    <2> QED
      BY <1>1, <1>h, <2>1, <2>2, <2>3, PlacementKept
  <1> QED
    BY <1>3, <1>5 DEF Placement

LEMMA PlacementREQAttack ==
    ASSUME Typed, Present, Placement, NEW c \in Clients, HandleREQAttack(c)
    PROVE  Placement'
  <1> DEFINE h == Head(up[c])
             k == [h EXCEPT !.type = "resAttack"]
  <1>1. Serves(c, k) /\ h.type = "reqAttack" /\ k.type = "resAttack" /\ UNCHANGED <<posInfo, asked, late>>
    BY ServesREQAttack
  <1>2. c \in objects
    BY <1>1, HeadUp DEF Serves
  <1>h. h = Head(up[c])
    OBVIOUS
  <1> HIDE DEF h, k
  <1>3. objects' = objects
    BY <1>1, <1>2, DownServed
  <1>4. ASSUME NEW p \in objects PROVE PlacedOf(p)'
    <2>1. ~About(k, Both, p) /\ k.type # "spawn" /\ ~About(h, {"move"}, p) /\ h.type # "reqMove"
      BY <1>1 DEF About, Both
    <2> QED
      BY <1>1, <1>h, <2>1, PlacementKept
  <1> QED
    BY <1>3, <1>4 DEF Placement

(* A client handles a packet. *)

\* The own client's word, but for the arrivals on their way.
Word(p) == ~Clear(down[p], Orders, p) \/ (p \in DOMAIN pawn[p] /\ pawn[p][p].run)

OthersKept(c) == \A d \in Clients \ {c} : /\ DOMAIN pawn'[d] = DOMAIN pawn[d]
                                          /\ \A r \in DOMAIN pawn[d] : pawn'[d][r] = pawn[d][r]

LEMMA DownReceived ==
    ASSUME Typed, Present, NEW c \in Clients, Receives(c)
    PROVE  /\ c \in objects /\ down[c] \in Seq(ToClient) /\ down[c] # << >>
           /\ down'[c] = Tail(down[c]) /\ \A d \in Clients \ {c} : down'[d] = down[d]
           /\ UNCHANGED <<objects, posInfo, up, asked, late>>
           /\ objects \subseteq Clients
  <1>1. down[c] # << >>
    BY DEF Receives
  <1>2. c \in objects
    BY <1>1 DEF Present
  <1> QED
    BY <1>1, <1>2, DownRemoved DEF Receives, server, history, Typed

LEMMA OwnReceives ==
    ASSUME Typed, Present, NEW c \in Clients, Receives(c), OthersKept(c), Word(c) => Word(c)',
           NEW p \in objects, NEW i \in Nat, OwnAfter(p, i)
    PROVE  OwnAfter(p, i)'
  <1>1. /\ down'[c] = Tail(down[c]) /\ \A d \in Clients \ {c} : down'[d] = down[d]
        /\ up' = up /\ asked' = asked /\ p \in Clients
    BY DownReceived
  <1>2. Word(p) => Word(p)'
    BY <1>1 DEF Word, OthersKept
  <1> QED
    BY <1>1, <1>2 DEF OwnAfter, Word

\* It is enough to look at the client itself.
LEMMA PlacementReceives ==
    ASSUME Typed, Present, Placement, NEW c \in Clients, Receives(c), OthersKept(c),
           Word(c) => Word(c)', OwnPlaced(c)',
           \A p \in objects : Ordered(c, p)',
           \A p \in objects \ late : c # p /\ (Own(p) => Own(p)') => Placed(c, p)'
    PROVE  Placement'
  <1>1. /\ c \in objects
        /\ \A d \in Clients \ {c} : down'[d] = down[d]
        /\ UNCHANGED <<objects, posInfo, up, asked, late>> /\ objects \subseteq Clients
    BY DownReceived
  <1>2. ASSUME NEW p \in objects, NEW i \in Nat, OwnAfter(p, i) PROVE OwnAfter(p, i)'
    BY <1>2, OwnReceives
  <1>3. ASSUME NEW p \in objects, Own(p) PROVE Own(p)'
    BY <1>2, <1>3, 0 \in Nat DEF Own
  <1>4. ASSUME NEW p \in objects PROVE PlacedOf(p)'
    <2>0. PlacedOf(p) /\ p \in Clients
      BY <1>1 DEF Placement
    <2>1. OwnPlaced(p)'
      BY <1>1, <2>0 DEF PlacedOf, OwnPlaced, OthersKept
    <2>2. Shots(p)'
      <3>1. \A i \in 1 .. Len(up[p]) : i \in Nat
        BY UpGrows
      <3>2. ASSUME NEW i \in 1 .. Len(up[p]) PROVE Shot(p, i)'
        <4>1. Shot(p, i)
          BY <2>0 DEF PlacedOf, Shots
        <4> QED
          BY <1>1, <1>2, <3>1, <4>1 DEF Shot
      <3> QED
        BY <1>1, <3>2 DEF Shots
    <2>3. p \notin late => ServerPlaced(p)'
      BY <1>1, <1>3, <2>0 DEF PlacedOf, ServerPlaced
    <2>4. ASSUME NEW d \in objects PROVE Ordered(d, p)'
      <3>1. Ordered(d, p)
        BY <2>0 DEF PlacedOf
      <3> QED
        BY <1>1, <3>1 DEF Ordered, OthersKept
    <2>5. ASSUME NEW d \in objects, p \notin late, d # p PROVE Placed(d, p)'
      <3>1. Placed(d, p)
        BY <2>0, <2>5 DEF PlacedOf
      <3>2. CASE d # c
        BY <1>1, <1>3, <3>1, <3>2 DEF Placed, OthersKept
      <3>3. CASE d = c
        BY <1>3, <2>5, <3>3
      <3> QED
        BY <3>2, <3>3
    <2> QED
      BY <1>1, <2>1, <2>2, <2>3, <2>4, <2>5 DEF PlacedOf
  <1> QED
    BY <1>1, <1>4 DEF Placement

\* The pawn of p at c stays as it is, but for its health.
PawnKept(c, p) == /\ p \in DOMAIN pawn'[c] <=> p \in DOMAIN pawn[c]
                  /\ p \in DOMAIN pawn[c] =>
                        LET v == pawn[c][p]  w == pawn'[c][p]
                        IN  w.at = v.at /\ w.dest = v.dest /\ w.goal = v.goal /\ w.run = v.run

LEMMA OrderedKept ==
    ASSUME Typed, Present, Placement, NEW c \in Clients, Receives(c), NEW p \in objects,
           PawnKept(c, p), ~About(Head(down[c]), Orders, p)
    PROVE  /\ Ordered(c, p)'
           /\ c = p => OwnPlaced(c)' /\ (Word(c) => Word(c)')
  <1>1. /\ c \in objects /\ down[c] \in Seq(ToClient) /\ down[c] # << >>
        /\ down'[c] = Tail(down[c]) /\ asked' = asked
    BY DownReceived
  <1>2. /\ Clear(down'[c], Orders, p) <=> Clear(down[c], Orders, p)
        /\ Last(down[c], Orders, p, asked[p]) => Last(down'[c], Orders, p, asked[p])
        /\ Listed(down[c], p, asked[p]) => Listed(down'[c], p, asked[p])
    <2> DEFINE q == down[c]
               at == asked[p]
    <2>1. q \in Seq(ToClient) /\ q # << >> /\ ~About(Head(q), Orders, p) /\ down'[c] = Tail(q)
      BY <1>1
    <2> HIDE DEF q, at
    <2>2. /\ Clear(Tail(q), Orders, p) <=> Clear(q, Orders, p)
          /\ Last(q, Orders, p, at) => Last(Tail(q), Orders, p, at)
          /\ Listed(q, p, at) => Listed(Tail(q), p, at)
      BY <2>1, SaidOfOthers
    <2> QED
      BY <2>1, <2>2 DEF q, at
  <1>3. Ordered(c, p) /\ OwnPlaced(p)
    BY <1>1 DEF Placement, PlacedOf
  <1>4. Ordered(c, p)'
    BY <1>1, <1>2, <1>3 DEF Ordered, PawnKept
  <1>5. ASSUME c = p PROVE OwnPlaced(c)' /\ (Word(c) => Word(c)')
    BY <1>1, <1>2, <1>3, <1>5 DEF OwnPlaced, Own1, AtOrTo, Word, PawnKept
  <1> QED
    BY <1>4, <1>5

LEMMA PlacedKept ==
    ASSUME Typed, Present, Placement, NEW c \in Clients, Receives(c), NEW p \in objects, p \notin late, c # p,
           PawnKept(c, p), ~About(Head(down[c]), Both, p), Own(p) => Own(p)'
    PROVE  Placed(c, p)'
  <1>1. /\ c \in objects /\ down[c] \in Seq(ToClient) /\ down[c] # << >>
        /\ down'[c] = Tail(down[c]) /\ asked' = asked
    BY DownReceived
  <1>2. /\ Clear(down'[c], Both, p) <=> Clear(down[c], Both, p)
        /\ Last(down[c], Both, p, asked[p]) => Last(down'[c], Both, p, asked[p])
        /\ Listed(down[c], p, asked[p]) => Listed(down'[c], p, asked[p])
    <2> DEFINE q == down[c]
               at == asked[p]
    <2>1. q \in Seq(ToClient) /\ q # << >> /\ ~About(Head(q), Both, p) /\ down'[c] = Tail(q)
      BY <1>1
    <2> HIDE DEF q, at
    <2>2. /\ Clear(Tail(q), Both, p) <=> Clear(q, Both, p)
          /\ Last(q, Both, p, at) => Last(Tail(q), Both, p, at)
          /\ Listed(q, p, at) => Listed(Tail(q), p, at)
      BY <2>1, SaidOfOthers
    <2> QED
      BY <2>1, <2>2 DEF q, at
  <1>3. Placed(c, p)
    BY <1>1 DEF Placement, PlacedOf
  <1> QED
    BY <1>1, <1>2, <1>3 DEF Placed, AtOrTo, PawnKept

\* Packets that say nothing of places.
LEMMA PlacementQuiet ==
    ASSUME Typed, Present, Placement, NEW c \in Clients, Receives(c), OthersKept(c),
           \A p \in Clients : PawnKept(c, p), Head(down[c]).type \notin Both
    PROVE  Placement'
  <1>1. c \in objects /\ objects \subseteq Clients
    BY DownReceived
  <1>2. \A p : ~About(Head(down[c]), Orders, p) /\ ~About(Head(down[c]), Both, p)
    BY DEF About, Orders, Both
  <1>3. ASSUME NEW p \in objects
        PROVE  /\ Ordered(c, p)'
               /\ c = p => OwnPlaced(c)' /\ (Word(c) => Word(c)')
    BY <1>1, <1>2, OrderedKept
  <1>4. ASSUME NEW p \in objects \ late, c # p, Own(p) => Own(p)' PROVE Placed(c, p)'
    BY <1>1, <1>2, <1>4, PlacedKept
  <1> QED
    BY <1>1, <1>3, <1>4, PlacementReceives

LEMMA PlacementResShoot ==
    ASSUME Typed, Present, Placement, NEW c \in Clients, HandleResShoot(c)
    PROVE  Placement'
  <1>1. Receives(c)
    BY ReceivesSome DEF HandleRecvPacket
  <1>2. pawn' = pawn /\ Head(down[c]).type \notin Both
    BY DEF HandleResShoot, Got, Both
  <1>3. OthersKept(c) /\ \A p \in Clients : PawnKept(c, p)
    BY <1>2 DEF OthersKept, PawnKept
  <1> QED
    BY <1>1, <1>2, <1>3, PlacementQuiet

LEMMA PlacementResAttack ==
    ASSUME Typed, Present, Placement, NEW c \in Clients, HandleResAttack(c)
    PROVE  Placement'
  <1> DEFINE k == Head(down[c])
             w == [pawn[c][k.target] EXCEPT !.hp = IF @ > Damage THEN @ - Damage ELSE 0]
  <1>1. Receives(c)
    BY ReceivesSome DEF HandleRecvPacket
  <1>2. /\ k.type = "resAttack" /\ k.target \in Clients
        /\ {k.who, k.target} \subseteq DOMAIN pawn[c] => w \in Walker /\ OnePawn(c, k.target, w)
        /\ ~({k.who, k.target} \subseteq DOMAIN pawn[c]) => pawn' = pawn
    BY ReceivesAttack
  <1>3. Head(down[c]).type \notin Both
    BY <1>2 DEF Both
  <1>4. {k.who, k.target} \subseteq DOMAIN pawn[c] =>
           LET v == pawn[c][k.target]
           IN  w.at = v.at /\ w.dest = v.dest /\ w.goal = v.goal /\ w.run = v.run
    BY DEF Typed, Walker, Pawn
  <1> HIDE DEF k, w
  <1>5. OthersKept(c) /\ \A p \in Clients : PawnKept(c, p)
    <2>1. CASE pawn' = pawn
      BY <2>1 DEF OthersKept, PawnKept
    <2>2. CASE {k.who, k.target} \subseteq DOMAIN pawn[c]
      BY <1>2, <1>4, <2>2 DEF OnePawn, OthersKept, PawnKept
    <2> QED
      BY <1>2, <2>1, <2>2
  <1> QED
    BY <1>1, <1>3, <1>5, PlacementQuiet

LEMMA PlacementSpawn ==
    ASSUME Typed, Present, Placement, NEW c \in Clients, HandleSpawn(c)
    PROVE  Placement'
  <1> DEFINE k == Head(down[c])
  <1>1. Receives(c)
    BY ReceivesSome DEF HandleRecvPacket
  <1>2. /\ k.type = "spawn"
        /\ \A d \in Clients : d # c => pawn'[d] = pawn[d]
        /\ DOMAIN pawn'[c] = DOMAIN pawn[c] \cup DOMAIN k.list
        /\ \A p \in DOMAIN pawn[c] : pawn'[c][p] = pawn[c][p]
        /\ \A p \in DOMAIN k.list \ DOMAIN pawn[c] : pawn'[c][p] = Spawn(k.list[p])
    BY ReceivesSpawn
  <1>3. /\ c \in objects /\ down[c] \in Seq(ToClient) /\ down[c] # << >>
        /\ down'[c] = Tail(down[c])
        /\ asked' = asked /\ objects \subseteq Clients
    BY <1>1, DownReceived
  <1>4. OthersKept(c)
    BY <1>2 DEF OthersKept
  <1>5. \A p : ~About(k, Orders, p) /\ ~About(k, Both, p)
    BY <1>2 DEF About, Orders, Both
  <1>6. ASSUME NEW p \in objects, p \in DOMAIN k.list \ DOMAIN pawn[c]
        PROVE  LET w == pawn'[c][p]
               IN  w.at = k.list[p].at /\ w.dest = k.list[p].at /\ w.goal = None
    <2>1. pawn'[c][p] = Spawn(k.list[p])
      BY <1>2, <1>6
    <2> QED
      BY <2>1 DEF Spawn
  <1>k. k = Head(down[c])
    OBVIOUS
  <1> HIDE DEF k
  <1>7. ASSUME NEW p \in objects
        PROVE  /\ Clear(down'[c], Orders, p) <=> Clear(down[c], Orders, p)
               /\ Clear(down'[c], Both, p) <=> Clear(down[c], Both, p)
               /\ Last(down[c], Orders, p, asked[p]) => Last(down'[c], Orders, p, asked[p])
               /\ Last(down[c], Both, p, asked[p]) => Last(down'[c], Both, p, asked[p])
               /\ Listed(down[c], p, asked[p]) =>
                     /\ Listed(down'[c], p, asked[p])
                     /\ p \in DOMAIN k.list => k.list[p].at = asked[p]
    <2>1. /\ Clear(down'[c], Orders, p) <=> Clear(down[c], Orders, p)
          /\ Last(down[c], Orders, p, asked[p]) => Last(down'[c], Orders, p, asked[p])
          /\ Listed(down[c], p, asked[p]) => Listed(down'[c], p, asked[p])
      BY <1>3, <1>5, <1>k, SaidOfOthers
    <2>2. /\ Clear(down'[c], Both, p) <=> Clear(down[c], Both, p)
          /\ Last(down[c], Both, p, asked[p]) => Last(down'[c], Both, p, asked[p])
      BY <1>3, <1>5, <1>k, SaidOfOthers
    <2>3. Listed(down[c], p, asked[p]) /\ p \in DOMAIN k.list => k.list[p].at = asked[p]
      BY <1>2, <1>3, <1>k, SaidByList
    <2> QED
      BY <2>1, <2>2, <2>3
  <1>8. ASSUME NEW p \in objects PROVE Ordered(c, p)'
    <2>1. Ordered(c, p)
      BY <1>3 DEF Placement, PlacedOf
    <2> QED
      BY <1>2, <1>3, <1>6, <1>7, <2>1 DEF Ordered
  <1>9. OwnPlaced(c)' /\ (Word(c) => Word(c)')
    <2>1. OwnPlaced(c)
      BY <1>3 DEF Placement, PlacedOf
    <2>2. Word(c) => Word(c)'
      BY <1>2, <1>3, <1>7 DEF Word
    <2>a. /\ Clear(down'[c], Orders, c) <=> Clear(down[c], Orders, c)
          /\ Listed(down[c], c, asked[c]) =>
                Listed(down'[c], c, asked[c]) /\ (c \in DOMAIN k.list => k.list[c].at = asked[c])
      BY <1>3, <1>7
    <2>3. CASE c \in DOMAIN pawn[c] \/ c \notin DOMAIN k.list
      BY <1>2, <1>3, <2>a, <2>1, <2>2, <2>3 DEF OwnPlaced
    <2>4. CASE c \in DOMAIN k.list \ DOMAIN pawn[c]
      <3>1. Clear(down[c], Orders, c) => k.list[c].at = asked[c]
        BY <1>3, <2>a, <2>1, <2>4 DEF OwnPlaced
      <3>2. LET w == pawn'[c][c]
            IN  w.at = k.list[c].at /\ w.dest = k.list[c].at /\ w.goal = None
        BY <1>3, <1>6, <2>4
      <3> QED
        BY <1>2, <1>3, <2>a, <2>2, <2>4, <3>1, <3>2 DEF OwnPlaced, Own1, AtOrTo
    <2> QED
      BY <2>2, <2>3, <2>4
  <1>10. ASSUME NEW p \in objects \ late, c # p, Own(p) => Own(p)' PROVE Placed(c, p)'
    <2>1. Placed(c, p)
      BY <1>3, <1>10 DEF Placement, PlacedOf
    <2>2. CASE p \in DOMAIN pawn[c] \/ p \notin DOMAIN k.list
      BY <1>2, <1>3, <1>7, <1>10, <2>1, <2>2 DEF Placed
    <2>3. CASE p \in DOMAIN k.list \ DOMAIN pawn[c]
      <3>1. Clear(down[c], Both, p) /\ ~Own(p) => k.list[p].at = asked[p]
        BY <1>3, <1>7, <2>1, <2>3 DEF Placed
      <3> QED
        BY <1>2, <1>3, <1>6, <1>7, <1>10, <2>1, <2>3, <3>1 DEF Placed, AtOrTo
    <2> QED
      BY <2>2, <2>3
  <1> QED
    BY <1>1, <1>4, <1>8, <1>9, <1>10, PlacementReceives

LEMMA PlacementResMove ==
    ASSUME Typed, Present, Known, Placement, NEW c \in Clients, HandleResMove(c)
    PROVE  Placement'
  <1> DEFINE k == Head(down[c])
             w == [pawn[c][k.who] EXCEPT !.dest = k.info.at, !.goal = k.info.at, !.run = TRUE]
  <1>1. Receives(c)
    BY ReceivesSome DEF HandleRecvPacket
  <1>2. /\ k.type = "resMove" /\ k.who \in Clients /\ k.info.at \in Where
        /\ k.who \in DOMAIN pawn[c] => w \in Walker /\ OnePawn(c, k.who, w)
    BY ReceivesResMove
  <1>3. /\ c \in objects /\ down[c] \in Seq(ToClient) /\ down[c] # << >>
        /\ down'[c] = Tail(down[c])
        /\ asked' = asked /\ objects \subseteq Clients
    BY <1>1, DownReceived
  <1>4. k.who \in DOMAIN pawn[c]
    BY <1>2, <1>3, HeadKnown DEF Names
  <1>5. w.dest = k.info.at /\ w.goal = k.info.at /\ w.run
    BY <1>4 DEF Typed, Walker, Pawn
  <1>k. k = Head(down[c])
    OBVIOUS
  <1>6. OnePawn(c, k.who, w)
    BY <1>2, <1>4
  <1> HIDE DEF k, w
  <1>7. OthersKept(c) /\ \A p \in Clients : p # k.who => PawnKept(c, p)
    BY <1>6 DEF OnePawn, OthersKept, PawnKept
  <1>8. ASSUME NEW p \in objects, p # k.who
        PROVE  /\ Ordered(c, p)'
               /\ c = p => OwnPlaced(c)' /\ (Word(c) => Word(c)')
               /\ p \notin late /\ c # p /\ (Own(p) => Own(p)') => Placed(c, p)'
    <2>1. ~About(k, Orders, p) /\ ~About(k, Both, p) /\ PawnKept(c, p)
      BY <1>3, <1>7, <1>8 DEF About
    <2> QED
      BY <1>1, <1>k, <2>1, OrderedKept, PlacedKept
  <1>9. ASSUME NEW p \in objects, p = k.who
        PROVE  /\ Ordered(c, p)'
               /\ c = p => OwnPlaced(c)' /\ (Word(c) => Word(c)')
               /\ p \notin late /\ c # p => Placed(c, p)'
    <2>1. About(k, Orders, p) /\ About(k, Both, p)
      BY <1>2, <1>9 DEF About, Orders, Both
    <2>2. Ordered(c, p)
      BY <1>3 DEF Placement, PlacedOf
    <2>3. p \in DOMAIN pawn'[c] /\ pawn'[c][p] = w
      BY <1>4, <1>6, <1>9 DEF OnePawn
    <2>4. /\ Last(down'[c], Orders, p, asked[p])
          /\ Clear(down'[c], Orders, p) => k.info.at = asked[p]
      BY <1>3, <1>k, <2>1, <2>2, SaidRemoved DEF Ordered
    <2>5. Ordered(c, p)'
      BY <1>3, <1>5, <2>3, <2>4 DEF Ordered
    <2>6. ASSUME c = p PROVE OwnPlaced(c)' /\ Word(c)'
      BY <1>3, <1>5, <2>3, <2>4, <2>6 DEF OwnPlaced, Own1, AtOrTo, Word
    <2>7. ASSUME p \notin late, c # p PROVE Placed(c, p)'
      <3>1. Placed(c, p)
        BY <1>3, <2>7 DEF Placement, PlacedOf
      <3>2. /\ Last(down'[c], Both, p, asked[p])
            /\ Clear(down'[c], Both, p) => k.info.at = asked[p]
        BY <1>3, <1>k, <2>1, <3>1, SaidRemoved DEF Placed
      <3> QED
        BY <1>3, <1>5, <2>3, <3>2 DEF Placed, AtOrTo
    <2> QED
      BY <2>5, <2>6, <2>7
  <1>10. OwnPlaced(c)' /\ (Word(c) => Word(c)')
    BY <1>3, <1>8, <1>9
  <1> QED
    BY <1>1, <1>7, <1>8, <1>9, <1>10, PlacementReceives

LEMMA PlacementClientMove ==
    ASSUME Typed, Present, Known, Placement, NEW c \in Clients, ClientMove(c)
    PROVE  Placement'
  <1> DEFINE k == Head(down[c])
             w == [pawn[c][k.who] EXCEPT !.dest = k.info.at, !.at = k.info.at, !.run = k.info.run]
  <1>1. Receives(c)
    BY ReceivesSome DEF HandleRecvPacket
  <1>2. /\ k.type = "move" /\ k.who \in Clients /\ k.info.at \in Where
        /\ k.who \in DOMAIN pawn[c] \ {c} => w \in Walker /\ OnePawn(c, k.who, w)
        /\ k.who \notin DOMAIN pawn[c] \ {c} => pawn' = pawn
    BY ReceivesMove
  <1>3. /\ c \in objects /\ down[c] \in Seq(ToClient) /\ down[c] # << >>
        /\ down'[c] = Tail(down[c])
        /\ asked' = asked /\ objects \subseteq Clients
    BY <1>1, DownReceived
  <1>4. k.who \in DOMAIN pawn[c]
    BY <1>2, <1>3, HeadKnown DEF Names
  <1>5. w.at = k.info.at /\ w.goal = pawn[c][k.who].goal
    BY <1>4 DEF Typed, Walker, Pawn
  <1>k. k = Head(down[c])
    OBVIOUS
  <1>6. k.who # c => OnePawn(c, k.who, w)
    BY <1>2, <1>4
  <1> HIDE DEF k, w
  <1>7. OthersKept(c) /\ \A p \in Clients : (p # k.who \/ p = c) => PawnKept(c, p)
    <2>1. CASE k.who = c
      BY <1>2, <2>1 DEF OthersKept, PawnKept
    <2>2. CASE k.who # c
      BY <1>6, <2>2 DEF OnePawn, OthersKept, PawnKept
    <2> QED
      BY <2>1, <2>2
  <1>8. \A p : ~About(k, Orders, p)
    BY <1>2 DEF About, Orders
  <1>9. ASSUME NEW p \in objects, p # k.who \/ p = c
        PROVE  /\ Ordered(c, p)'
               /\ c = p => OwnPlaced(c)' /\ (Word(c) => Word(c)')
               /\ p \notin late /\ c # p /\ (Own(p) => Own(p)') => Placed(c, p)'
    <2>1. PawnKept(c, p) /\ (p # k.who => ~About(k, Both, p))
      BY <1>3, <1>7, <1>9 DEF About
    <2> QED
      BY <1>1, <1>8, <1>9, <1>k, <2>1, OrderedKept, PlacedKept
  <1>10. ASSUME NEW p \in objects, p = k.who, p # c
         PROVE  Ordered(c, p)' /\ (p \notin late => Placed(c, p)')
    <2>1. Ordered(c, p)
      BY <1>3 DEF Placement, PlacedOf
    <2>2. p \in DOMAIN pawn'[c] /\ pawn'[c][p] = w /\ p \in DOMAIN pawn[c] /\ w.goal = pawn[c][p].goal
      BY <1>4, <1>5, <1>6, <1>10 DEF OnePawn
    <2>3. /\ Last(down'[c], Orders, p, asked[p])
          /\ Clear(down'[c], Orders, p) <=> Clear(down[c], Orders, p)
      BY <1>3, <1>8, <1>k, <2>1, SaidRemoved DEF Ordered
    <2>4. Ordered(c, p)'
      BY <1>3, <2>1, <2>2, <2>3 DEF Ordered
    <2>5. ASSUME p \notin late PROVE Placed(c, p)'
      <3>1. Placed(c, p) /\ About(k, Both, p)
        BY <1>2, <1>3, <1>10, <2>5 DEF Placement, PlacedOf, About, Both
      <3>2. /\ Last(down'[c], Both, p, asked[p])
            /\ Clear(down'[c], Both, p) => k.info.at = asked[p]
        BY <1>3, <1>k, <3>1, SaidRemoved DEF Placed
      <3>3. Clear(down'[c], Both, p) => Clear(down'[c], Orders, p)
        BY DEF Clear, About, Orders, Both
      <3>4. Clear(down'[c], Both, p) => AtOrTo(w, asked[p])
        BY <1>5, <2>1, <2>2, <2>3, <3>2, <3>3 DEF Ordered, AtOrTo
      <3> QED
        BY <1>3, <2>2, <3>2, <3>4 DEF Placed
    <2> QED
      BY <2>4, <2>5
  <1>11. OwnPlaced(c)' /\ (Word(c) => Word(c)')
    BY <1>3, <1>9
  <1> QED
    BY <1>1, <1>7, <1>9, <1>10, <1>11, PlacementReceives

(* A client enters. *)

\* What the one who enters is told.
LEMMA EnteredQueue ==
    ASSUME NEW self \in ToClient, NEW list \in ToClient, self.type = "spawn", list.type = "spawn", NEW p, NEW at,
           Brings(self, p) => self.list[p].at = at, Brings(list, p) => list.list[p].at = at
    PROVE  LET q == << self, list >>
           IN  /\ Clear(q, Orders, p) /\ Clear(q, Both, p)
               /\ Last(q, Orders, p, at) /\ Last(q, Both, p, at)
               /\ Listed(q, p, at)
  <1> DEFINE q == << self, list >>
  <1>1. Len(q) = 2 /\ q[1] = self /\ q[2] = list
    BY TwoPackets
  <1>2. \A i \in 1 .. 2 : i = 1 \/ i = 2
    OBVIOUS
  <1> HIDE DEF q
  <1>3. Clear(q, Orders, p) /\ Clear(q, Both, p)
    BY <1>1, <1>2 DEF Clear, About, Orders, Both
  <1>4. Listed(q, p, at)
    BY <1>1, <1>2 DEF Listed
  <1>5. Last(q, Orders, p, at) /\ Last(q, Both, p, at)
    BY <1>3, ClearIsLast
  <1> QED
    BY <1>3, <1>4, <1>5 DEF q

LEMMA PlacementEnters ==
    ASSUME Typed, Present, Known, Placement, NEW e \in Clients, NEW self, NEW list, Enters(e, self, list)
    PROVE  Placement'
  <1>1. /\ objects' = objects \cup {e} /\ e \notin objects /\ objects \subseteq Clients
        /\ UNCHANGED <<posInfo, up, pawn, asked, late>>
        /\ down'[e] = << self, list >>
        /\ self \in ToClient /\ list \in ToClient /\ self.type = "spawn" /\ list.type = "spawn"
        /\ DOMAIN self.list = {e} /\ self.list[e] = posInfo[e]
        /\ DOMAIN list.list = objects \cup {e} /\ \A q \in objects \cup {e} : list.list[q] = posInfo[q]
    BY DEF Enters, world, Typed
  <1>2. posInfo[e].at = asked[e] /\ DOMAIN pawn[e] = {} /\ up[e] = << >> /\ down[e] = << >> /\ e \notin late
    BY <1>1 DEF Present
  <1>3. ASSUME NEW d \in objects
        PROVE  down[d] \in Seq(ToClient) /\ down'[d] = Append(down[d], self) /\ d \in Clients
    BY <1>1 DEF Enters, Typed
  <1>4. \A p : ~About(self, Orders, p) /\ ~About(self, Both, p)
    BY <1>1 DEF About, Orders, Both
  <1>5. ASSUME NEW d \in objects, NEW p \in objects
        PROVE  /\ Clear(down'[d], Orders, p) <=> Clear(down[d], Orders, p)
               /\ Last(down[d], Orders, p, asked[p]) => Last(down'[d], Orders, p, asked[p])
               /\ Clear(down'[d], Both, p) <=> Clear(down[d], Both, p)
               /\ Last(down[d], Both, p, asked[p]) => Last(down'[d], Both, p, asked[p])
               /\ Listed(down[d], p, asked[p]) => Listed(down'[d], p, asked[p])
    <2> DEFINE q == down[d]
               at == asked[p]
    <2>1. /\ q \in Seq(ToClient) /\ down'[d] = Append(q, self) /\ self \in ToClient
          /\ ~Brings(self, p) /\ ~About(self, Orders, p) /\ ~About(self, Both, p)
          /\ asked'[p] = at
      BY <1>1, <1>3, <1>4 DEF Brings
    <2> HIDE DEF q, at
    <2>2. /\ Clear(Append(q, self), Orders, p) <=> Clear(q, Orders, p)
          /\ Last(q, Orders, p, at) => Last(Append(q, self), Orders, p, at)
          /\ Listed(q, p, at) => Listed(Append(q, self), p, at)
      BY <2>1, SaidBesides
    <2>3. /\ Clear(Append(q, self), Both, p) <=> Clear(q, Both, p)
          /\ Last(q, Both, p, at) => Last(Append(q, self), Both, p, at)
      BY <2>1, SaidBesides
    <2> QED
      BY <2>1, <2>2, <2>3 DEF q, at
  <1>6. ASSUME NEW p \in objects, NEW i \in Nat PROVE OwnAfter(p, i)' <=> OwnAfter(p, i)
    <2>1. Clear(down'[p], Orders, p) <=> Clear(down[p], Orders, p)
      BY <1>5
    <2> QED
      BY <1>1, <2>1 DEF OwnAfter
  <1>7. ASSUME NEW p \in objects PROVE Own(p)' <=> Own(p)
    BY <1>6, 0 \in Nat DEF Own
  \* those who were there
  <1>8. ASSUME NEW p \in objects PROVE PlacedOf(p)'
    <2>0. PlacedOf(p) /\ p \in Clients
      BY <1>1 DEF Placement
    <2>1. OwnPlaced(p)'
      <3>1. /\ Clear(down'[p], Orders, p) <=> Clear(down[p], Orders, p)
            /\ Listed(down[p], p, asked[p]) => Listed(down'[p], p, asked[p])
        BY <1>5
      <3> QED
        BY <1>1, <2>0, <3>1 DEF PlacedOf, OwnPlaced
    <2>2. Shots(p)'
      <3>1. \A i \in 1 .. Len(up[p]) : i \in Nat
        BY <2>0, LenProperties, up[p] \in Seq(ToServer) DEF Typed
      <3>2. ASSUME NEW i \in 1 .. Len(up[p]) PROVE Shot(p, i)'
        <4>1. Shot(p, i)
          BY <2>0 DEF PlacedOf, Shots
        <4> QED
          BY <1>1, <1>6, <3>1, <4>1 DEF Shot
      <3> QED
        BY <1>1, <3>2 DEF Shots
    <2>3. p \notin late => ServerPlaced(p)'
      BY <1>1, <1>7, <2>0 DEF PlacedOf, ServerPlaced
    <2>4. ASSUME NEW d \in objects PROVE Ordered(d, p)' /\ (p \notin late /\ d # p => Placed(d, p)')
      <3>1. Ordered(d, p) /\ (p \notin late /\ d # p => Placed(d, p))
        BY <2>0 DEF PlacedOf
      <3>2. Ordered(d, p)'
        BY <1>1, <1>5, <3>1 DEF Ordered
      <3>3. ASSUME p \notin late, d # p PROVE Placed(d, p)'
        BY <1>1, <1>5, <1>7, <3>1, <3>3 DEF Placed
      <3> QED
        BY <3>2, <3>3
    <2>5. Ordered(e, p)' /\ (p \notin late => Placed(e, p)')
      <3>1. ASSUME NEW at, Brings(list, p) => list.list[p].at = at
            PROVE  /\ Clear(down'[e], Orders, p) /\ Last(down'[e], Orders, p, at) /\ Last(down'[e], Both, p, at)
                   /\ Listed(down'[e], p, at)
        <4>1. ~Brings(self, p)
          BY <1>1 DEF Brings
        <4> QED
          BY <1>1, <3>1, <4>1, EnteredQueue
      <3>2. list.list[p] = posInfo[p]
        BY <1>1
      <3>3. Clear(down'[e], Orders, p) /\ Clear(down'[e], Both, p)
        <4>1. ~Brings(self, p)
          BY <1>1 DEF Brings
        <4>2. Brings(list, p) => list.list[p].at = posInfo[p].at
          BY <3>2
        <4> QED
          BY <1>1, <4>1, <4>2, EnteredQueue
      <3>4. Last(down'[e], Orders, p, asked[p]) /\ Last(down'[e], Both, p, asked[p])
        BY <3>3, ClearIsLast
      <3>5. p \notin DOMAIN pawn'[e]
        BY <1>1, <1>2
      <3>6. Ordered(e, p)'
        BY <1>1, <3>4, <3>5 DEF Ordered
      <3>7. ASSUME p \notin late, ~Own(p) PROVE Listed(down'[e], p, asked[p])
        <4>1. posInfo[p].at = asked[p]
          BY <2>0, <3>7 DEF PlacedOf, ServerPlaced
        <4> QED
          BY <3>1, <3>2, <4>1
      <3>8. p \notin late => Placed(e, p)'
        BY <1>1, <1>7, <3>4, <3>5, <3>7 DEF Placed
      <3> QED
        BY <3>6, <3>8
    <2> QED
      BY <1>1, <2>1, <2>2, <2>3, <2>4, <2>5 DEF PlacedOf
  \* and the one who enters
  <1>9. PlacedOf(e)'
    <2>1. Clear(down'[e], Orders, e) /\ Listed(down'[e], e, asked[e]) /\ Last(down'[e], Orders, e, asked[e])
      <3>1. self.list[e].at = asked[e] /\ list.list[e].at = asked[e]
        BY <1>1, <1>2
      <3> QED
        BY <1>1, <3>1, EnteredQueue
    <2>2. OwnPlaced(e)' /\ Shots(e)' /\ ServerPlaced(e)' /\ Ordered(e, e)'
      BY <1>1, <1>2, <2>1, Nothing DEF OwnPlaced, Shots, ServerPlaced, Ordered
    <2>3. ASSUME NEW d \in objects PROVE Ordered(d, e)' /\ Placed(d, e)'
      <3>1. \A i \in 1 .. Len(down[d]) : down[d][i].type # "spawn" => e \notin Names(down[d][i])
        BY <1>1, <1>3, NamesPresent
      <3>2. Clear(down[d], Orders, e) /\ Clear(down[d], Both, e)
        BY <3>1 DEF Clear, About, Orders, Both, Names
      <3>3. Listed(down[d], e, asked[e])
        BY <1>1, <1>3 DEF Present, Listed, Brings
      <3>4. self.list[e].at = asked[e] /\ e \notin DOMAIN pawn[d]
        BY <1>1, <1>2, <1>3 DEF Present
      <3> DEFINE q == down[d]
                 at == asked[e]
      <3>a. /\ q \in Seq(ToClient) /\ down'[d] = Append(q, self) /\ self \in ToClient
            /\ ~About(self, Orders, e) /\ ~About(self, Both, e) /\ (Brings(self, e) => self.list[e].at = at)
            /\ Clear(q, Orders, e) /\ Clear(q, Both, e) /\ Listed(q, e, at)
        BY <1>1, <1>3, <1>4, <3>2, <3>3, <3>4
      <3> HIDE DEF q, at
      <3>b. Clear(Append(q, self), Orders, e) /\ Listed(Append(q, self), e, at)
        BY <3>a, SaidBesides
      <3>c. Clear(Append(q, self), Both, e)
        BY <3>a, SaidBesides
      <3>5. Clear(down'[d], Orders, e) /\ Listed(down'[d], e, asked[e])
        BY <3>a, <3>b DEF at
      <3>6. Clear(down'[d], Both, e)
        BY <3>a, <3>c
      <3>7. Last(down'[d], Orders, e, asked[e]) /\ Last(down'[d], Both, e, asked[e])
        BY <3>5, <3>6, ClearIsLast
      <3> QED
        BY <1>1, <3>4, <3>5, <3>6, <3>7 DEF Ordered, Placed
    <2> QED
      BY <1>1, <2>2, <2>3 DEF PlacedOf
  <1> QED
    BY <1>1, <1>8, <1>9 DEF Placement

LEMMA PlacementStep ==
    ASSUME Typed, Present, Known, Placement, [Next]_vars
    PROVE  Placement'
  <1>1. CASE vars' = vars
    <2>1. UNCHANGED <<objects, posInfo, up, down, pawn, asked, late>>
      BY <1>1 DEF vars, server, world, history
    <2> QED
      BY <2>1 DEF Placement, PlacedOf, OwnPlaced, Shots, Shot, ServerPlaced, Ordered, Placed, Own, OwnAfter
  <1>2. ASSUME NEW c \in Clients, EnterRoom(c) PROVE Placement'
    BY <1>2, Entered, PlacementEnters DEF Present, EnterRoom
  <1>3. ASSUME NEW c \in Clients, ClientStep(c) PROVE Placement'
    BY <1>3, ActsSome, PawnsStepSome, StopsSome, PlacementActs
  <1>4. ASSUME NEW c \in Clients, RoomJob(c) PROVE Placement'
    BY <1>4, PlacementREQMove, PlacementMove, PlacementREQShoot, PlacementREQAttack DEF RoomJob
  <1>5. ASSUME NEW c \in Clients, HandleRecvPacket(c) PROVE Placement'
    BY <1>5, PlacementSpawn, PlacementResMove, PlacementClientMove, PlacementResShoot, PlacementResAttack
       DEF HandleRecvPacket
  <1> QED
    BY <1>1, <1>2, <1>3, <1>4, <1>5, Steps

PlaceInv == Typed /\ Present /\ Known /\ Placement

LEMMA PlaceInvariant == Spec => []PlaceInv
  <1>1. Init => PlaceInv
    <2> SUFFICES ASSUME Init PROVE PlaceInv
      OBVIOUS
    <2>1. Known /\ Placement
      BY DEF Init, Known, Placement
    <2> QED
      BY <2>1, TypedInit DEF PlaceInv
  <1>2. PlaceInv /\ [Next]_vars => PlaceInv'
    BY TypedStep, PresentStep, KnownStep, PlacementStep DEF PlaceInv
  <1> QED
    BY <1>1, <1>2, PTL DEF Spec

\* When all has settled, every client shows every player for which no arrival
\* came late where the server has it (PositionsAgree): whatever order requests,
\* shots on the way, arrivals on the several clients and the entry of new
\* clients are handled in.
THEOREM PlayersPlacedAlike == Spec => []PositionsAgree
  <1>1. PlaceInv => PositionsAgree
    <2> SUFFICES ASSUME PlaceInv, NEW p \in objects \ late, Settled(p), NEW c \in objects
                 PROVE  pawn[c][p].at = posInfo[p].at
      BY DEF PositionsAgree, SeenAsIs
    <2>1. objects \subseteq Clients /\ asked \in [Clients -> Where]
      BY DEF PlaceInv, Typed
    <2>0. Len(<< >>) = 0
      OBVIOUS
    <2>2. \A d \in Clients : up[d] = << >> /\ down[d] = << >> /\ Len(up[d]) = 0 /\ Len(down[d]) = 0
      BY <2>0 DEF Settled, NoTraffic
    <2>3. \A d \in objects : pawn[d][p].goal = None /\ ~pawn[d][p].run
      BY DEF Settled
    <2>4. \A d \in Clients : Clear(down[d], Orders, p) /\ Clear(down[d], Both, p)
      <3>1. 1 .. 0 = {}
        OBVIOUS
      <3>2. \A d \in Clients : 1 .. Len(down[d]) = {}
        BY <2>2, <3>1
      <3> QED
        BY <3>2 DEF Clear
    <2>5. ASSUME NEW d \in objects PROVE p \in DOMAIN pawn[d]
      <3>1. Seen(DOMAIN pawn[d], down[d], 0 + 1, p)
        BY <2>1, <2>2 DEF PlaceInv, Known, AllSeen
      <3>2. 1 .. 0 + 1 - 1 = {}
        OBVIOUS
      <3> QED
        BY <3>1, <3>2 DEF Seen
    <2>6. ~Own(p)
      BY <2>1, <2>2, <2>3, <2>4 DEF Own, OwnAfter
    <2>7. posInfo[p].at = asked[p]
      BY <2>6 DEF PlaceInv, Placement, PlacedOf, ServerPlaced
    <2>8. CASE c = p
      BY <2>1, <2>3, <2>4, <2>5, <2>7, <2>8 DEF PlaceInv, Placement, PlacedOf, OwnPlaced, Own1
    <2>9. CASE c # p
      <3>1. Placed(c, p)
        BY <2>9 DEF PlaceInv, Placement, PlacedOf
      <3>2. AtOrTo(pawn[c][p], asked[p])
        BY <2>1, <2>4, <2>5, <2>6, <3>1 DEF Placed
      <3>3. asked[p] # None
        BY <2>1, ArenaAssumption DEF Where
      <3> QED
        BY <2>3, <2>7, <3>2, <3>3 DEF AtOrTo
    <2> QED
      BY <2>8, <2>9
  <1> QED
    BY <1>1, PlaceInvariant, PTL

-----------------------------------------------------------------------------
(* Health.  The attacks on a player that a client has taken, and then those *)
(* under way to it, are all there were since it came: so many as every      *)
(* other client that saw them all has taken or will take.                   *)

Blow(k, p) == IF k.type = "resAttack" /\ k.target = p THEN 1 ELSE 0

\* From n blows a queue makes m.
Counts(q, p, n, m) ==
    \E h \in [Nat -> Nat] : /\ h[0] = n /\ h[Len(q)] = m
                            /\ \A i \in 1 .. Len(q) : h[i] = h[i - 1] + Blow(q[i], p)

HpAfter(n) == IF n * Damage < MaxHp THEN MaxHp - n * Damage ELSE 0

\* A pawn is spawned unhurt.
Hp(c, p) == IF p \in DOMAIN pawn[c] THEN pawn[c][p].hp ELSE MaxHp

Taken(c, p, m) == \E n \in Nat : Hp(c, p) = HpAfter(n) /\ Counts(down[c], p, n, m)

Health == \E total \in [Clients -> Nat] :
             /\ \A p \in Clients \ hurt : total[p] = 0
             /\ \A c \in objects : \A p \in objects \ missed[c] : Taken(c, p, total[p])

LEMMA CountsNone ==
    ASSUME NEW S, NEW q \in Seq(S), NEW p, NEW n \in Nat, \A i \in 1 .. Len(q) : Blow(q[i], p) = 0
    PROVE  Counts(q, p, n, n)
  <1> DEFINE h == [i \in Nat |-> n]
  <1>1. Len(q) \in Nat
    BY LenProperties
  <1>2. h \in [Nat -> Nat] /\ h[0] = n /\ h[Len(q)] = n
    BY <1>1
  <1>3. ASSUME NEW i \in 1 .. Len(q) PROVE h[i] = h[i - 1] + Blow(q[i], p)
    <2>1. i \in Nat /\ i - 1 \in Nat
      BY <1>1
    <2> QED
      BY <2>1
  <1> HIDE DEF h
  <1> QED
    BY <1>2, <1>3 DEF Counts

LEMMA OneMore ==
    ASSUME NEW n \in Nat
    PROVE  \A i \in 1 .. n + 1 : i \in 1 .. n \/ i = n + 1
  OBVIOUS

LEMMA CountsAppended ==
    ASSUME NEW S, NEW q \in Seq(S), NEW k \in S, NEW p, NEW n, NEW m, Counts(q, p, n, m)
    PROVE  Counts(Append(q, k), p, n, m + Blow(k, p))
  <1>1. PICK h \in [Nat -> Nat] : /\ h[0] = n /\ h[Len(q)] = m
                                  /\ \A i \in 1 .. Len(q) : h[i] = h[i - 1] + Blow(q[i], p)
    BY DEF Counts
  <1> DEFINE r == Append(q, k)
             b == Blow(k, p)
             g == [i \in Nat |-> IF i <= Len(q) THEN h[i] ELSE h[Len(q)] + b]
  <1>0. Len(q) \in Nat /\ Len(r) = Len(q) + 1
    BY Appended
  <1>2. (\A i \in 1 .. Len(q) : r[i] = q[i]) /\ r[Len(q) + 1] = k
    BY Appended
  <1>3. b \in Nat
    BY DEF Blow
  <1> HIDE DEF r, b
  <1>a. g \in [Nat -> Nat] /\ \A i \in Nat : g[i] = IF i <= Len(q) THEN h[i] ELSE h[Len(q)] + b
    <2>1. h[Len(q)] \in Nat
      BY <1>0
    <2>2. h[Len(q)] + b \in Nat
      BY <1>3, <2>1
    <2> QED
      BY <2>2
  <1> HIDE DEF g
  <1>4. g[0] = n /\ g[Len(r)] = m + b
    <2>1. Len(r) \in Nat /\ ~(Len(r) <= Len(q)) /\ 0 <= Len(q)
      BY <1>0
    <2> QED
      BY <1>1, <1>a, <2>1
  <1>b. \A i \in 1 .. Len(r) : i \in 1 .. Len(q) \/ i = Len(q) + 1
    <2> DEFINE l == Len(q)
    <2>1. l \in Nat /\ Len(r) = l + 1
      BY <1>0
    <2> HIDE DEF l
    <2>2. \A i \in 1 .. l + 1 : i \in 1 .. l \/ i = l + 1
      BY <2>1, OneMore
    <2> QED
      BY <2>1, <2>2 DEF l
  <1>5. ASSUME NEW i \in 1 .. Len(r) PROVE g[i] = g[i - 1] + Blow(r[i], p)
    <2>1. i \in Nat /\ i - 1 \in Nat
      BY <1>0
    <2>2. CASE i \in 1 .. Len(q)
      <3>1. i <= Len(q) /\ i - 1 <= Len(q)
        BY <1>0, <2>2
      <3>2. g[i] = h[i] /\ g[i - 1] = h[i - 1]
        BY <1>a, <2>1, <3>1
      <3> QED
        BY <1>1, <1>2, <2>2, <3>2
    <2>3. CASE i = Len(q) + 1
      <3>1. g[i] = h[Len(q)] + b /\ g[i - 1] = h[Len(q)]
        BY <1>0, <1>a, <2>1, <2>3
      <3> QED
        BY <1>2, <2>3, <3>1 DEF b
    <2> QED
      BY <1>b, <2>2, <2>3
  <1> QED
    BY <1>a, <1>4, <1>5 DEF Counts, r, b

LEMMA CountsRemoved ==
    ASSUME NEW S, NEW q \in Seq(S), q # << >>, NEW p, NEW n, NEW m, Counts(q, p, n, m)
    PROVE  Counts(Tail(q), p, n + Blow(Head(q), p), m)
  <1>1. PICK h \in [Nat -> Nat] : /\ h[0] = n /\ h[Len(q)] = m
                                  /\ \A i \in 1 .. Len(q) : h[i] = h[i - 1] + Blow(q[i], p)
    BY DEF Counts
  <1> DEFINE r == Tail(q)
             g == [i \in Nat |-> h[i + 1]]
  <1>2. /\ Head(q) = q[1] /\ Len(q) \in Nat /\ Len(q) >= 1 /\ Len(r) = Len(q) - 1
        /\ \A i \in 1 .. Len(q) - 1 : r[i] = q[i + 1]
    BY Removed
  <1> HIDE DEF r
  <1>3. g \in [Nat -> Nat] /\ g[0] = h[1] /\ g[Len(r)] = h[Len(q)]
    <2>1. Len(r) \in Nat /\ Len(r) + 1 = Len(q) /\ 0 \in Nat /\ 0 + 1 = 1
      BY <1>2
    <2>2. g \in [Nat -> Nat]
      <3>1. \A i \in Nat : i + 1 \in Nat
        OBVIOUS
      <3> QED
        BY <3>1
    <2>3. \A i \in Nat : g[i] = h[i + 1]
      OBVIOUS
    <2>4. g[0] = h[1]
      BY <2>1, <2>3
    <2>5. g[Len(r)] = h[Len(q)]
      BY <2>1, <2>3
    <2> QED
      BY <2>2, <2>4, <2>5
  <1>4. h[1] = n + Blow(Head(q), p)
    <2>1. 1 \in 1 .. Len(q) /\ 1 - 1 = 0
      BY <1>2
    <2> QED
      BY <1>1, <1>2, <2>1
  <1>5. ASSUME NEW i \in 1 .. Len(r) PROVE g[i] = g[i - 1] + Blow(r[i], p)
    <2>1. i \in Nat /\ i - 1 \in Nat /\ i - 1 + 1 = i /\ i + 1 - 1 = i /\ i + 1 \in 1 .. Len(q) /\ r[i] = q[i + 1]
      BY <1>2
    <2>2. g[i] = h[i + 1] /\ g[i - 1] = h[i]
      BY <2>1
    <2> QED
      BY <1>1, <2>1, <2>2
  <1> HIDE DEF g
  <1> QED
    BY <1>1, <1>3, <1>4, <1>5 DEF Counts, r

LEMMA CountsNothing ==
    ASSUME NEW q, Len(q) = 0, NEW p, NEW n, NEW m, Counts(q, p, n, m)
    PROVE  n = m
  BY DEF Counts

\* TakeDamage, one blow more.
LEMMA OneBlow ==
    ASSUME NEW n \in Nat
    PROVE  /\ HpAfter(n) \in 0 .. MaxHp
           /\ HpAfter(n + 1) = IF HpAfter(n) > Damage THEN HpAfter(n) - Damage ELSE 0
           /\ HpAfter(0) = MaxHp
  <1>1. n * Damage \in Nat /\ (n + 1) * Damage = n * Damage + Damage /\ 0 * Damage = 0
    BY ArenaAssumption
  <1> QED
    BY <1>1, ArenaAssumption DEF HpAfter

(* Only an attack changes the health of a pawn. *)

SameHp == \A d \in Clients : \A r \in Clients : Hp(d, r)' = Hp(d, r)

LEMMA OnePawnHp ==
    ASSUME Typed, NEW c \in Clients, NEW p \in DOMAIN pawn[c], NEW w, OnePawn(c, p, w), w.hp = pawn[c][p].hp
    PROVE  SameHp
  BY DEF SameHp, Hp, OnePawn

LEMMA ClientStepHp ==
    ASSUME Typed, NEW c \in Clients, ClientStep(c)
    PROVE  SameHp
  <1>0. ASSUME pawn' = pawn PROVE SameHp
    BY <1>0 DEF SameHp, Hp
  <1>1. CASE \E to \in Places : Click(c, to)
    BY <1>0, <1>1 DEF Click, world
  <1>2. CASE ShootClick(c)
    BY <1>0, <1>2 DEF ShootClick, world
  <1>3. CASE WalkOn(c)
    <2> DEFINE w == [pawn[c][c] EXCEPT !.at = Way]
    <2>1. c \in DOMAIN pawn[c] /\ pawn[c][c] \in Walker /\ OnePawn(c, c, w)
      BY <1>3, WalksOn
    <2>2. w.hp = pawn[c][c].hp
      BY <2>1 DEF Walker, Pawn
    <2> HIDE DEF w
    <2> QED
      BY <2>1, <2>2, OnePawnHp
  <1>4. ASSUME NEW p \in Clients, WalkTo(c, p) PROVE SameHp
    <2> DEFINE w == [pawn[c][p] EXCEPT !.at = pawn[c][p].goal, !.goal = None]
    <2>1. p \in DOMAIN pawn[c] /\ pawn[c][p] \in Walker /\ OnePawn(c, p, w)
      BY <1>4, WalksTo
    <2>2. w.hp = pawn[c][p].hp
      BY <2>1 DEF Walker, Pawn
    <2> HIDE DEF w
    <2> QED
      BY <2>1, <2>2, OnePawnHp
  <1>5. ASSUME NEW p \in Clients, Arrive(c, p) PROVE SameHp
    <2> DEFINE w == [pawn[c][p] EXCEPT !.run = FALSE]
    <2>1. p \in DOMAIN pawn[c] /\ pawn[c][p] \in Walker /\ OnePawn(c, p, w)
      BY <1>5, Arrived
    <2>2. w.hp = pawn[c][p].hp
      BY <2>1 DEF Walker, Pawn
    <2> HIDE DEF w
    <2> QED
      BY <2>1, <2>2, OnePawnHp
  <1>6. ASSUME NEW b \in Bullet, BulletEnds(c, b) PROVE SameHp
    BY <1>0, <1>6 DEF BulletEnds
  <1>7. ASSUME NEW b \in Bullet, NEW p \in Clients, Hit(c, b, p) PROVE SameHp
    BY <1>0, <1>7 DEF Hit, world
  <1> QED
    BY <1>1, <1>2, <1>3, <1>4, <1>5, <1>6, <1>7 DEF ClientStep

LEMMA ReceivesHp ==
    ASSUME Typed, NEW c \in Clients, HandleRecvPacket(c), ~HandleResAttack(c)
    PROVE  SameHp /\ Head(down[c]).type # "resAttack"
  <1> DEFINE k == Head(down[c])
  <1>0. ASSUME pawn' = pawn PROVE SameHp
    BY <1>0 DEF SameHp, Hp
  <1>1. CASE HandleSpawn(c)
    <2>1. /\ k.type = "spawn"
          /\ \A d \in Clients : d # c => pawn'[d] = pawn[d]
          /\ DOMAIN pawn'[c] = DOMAIN pawn[c] \cup DOMAIN k.list
          /\ \A p \in DOMAIN pawn[c] : pawn'[c][p] = pawn[c][p]
          /\ \A p \in DOMAIN k.list \ DOMAIN pawn[c] : pawn'[c][p] = Spawn(k.list[p])
      BY <1>1, ReceivesSpawn
    <2>2. \A info : Spawn(info).hp = MaxHp
      BY DEF Spawn
    <2> HIDE DEF k
    <2>3. \A p \in DOMAIN k.list \ DOMAIN pawn[c] : pawn'[c][p].hp = MaxHp
      BY <2>1, <2>2
    <2> QED
      BY <2>1, <2>3 DEF SameHp, Hp, k
  <1>2. CASE HandleResMove(c)
    <2> DEFINE w == [pawn[c][k.who] EXCEPT !.dest = k.info.at, !.goal = k.info.at, !.run = TRUE]
    <2>1. /\ k.type = "resMove"
          /\ k.who \in DOMAIN pawn[c] => OnePawn(c, k.who, w)
          /\ k.who \notin DOMAIN pawn[c] => pawn' = pawn
      BY <1>2, ReceivesResMove
    <2>2. ASSUME k.who \in DOMAIN pawn[c] PROVE w.hp = pawn[c][k.who].hp
      BY <2>2 DEF Typed, Walker, Pawn
    <2> HIDE DEF w, k
    <2> QED
      BY <1>0, <2>1, <2>2, OnePawnHp DEF k
  <1>3. CASE ClientMove(c)
    <2> DEFINE w == [pawn[c][k.who] EXCEPT !.dest = k.info.at, !.at = k.info.at, !.run = k.info.run]
    <2>1. /\ k.type = "move"
          /\ k.who \in DOMAIN pawn[c] \ {c} => OnePawn(c, k.who, w)
          /\ k.who \notin DOMAIN pawn[c] \ {c} => pawn' = pawn
      BY <1>3, ReceivesMove
    <2>2. ASSUME k.who \in DOMAIN pawn[c] PROVE w.hp = pawn[c][k.who].hp
      BY <2>2 DEF Typed, Walker, Pawn
    <2> HIDE DEF w, k
    <2> QED
      BY <1>0, <2>1, <2>2, OnePawnHp DEF k
  <1>4. CASE HandleResShoot(c)
    BY <1>0, <1>4 DEF HandleResShoot, Got
  <1> QED
    BY <1>1, <1>2, <1>3, <1>4 DEF HandleRecvPacket

(* The steps *)

LEMMA HealthQuiet ==
    ASSUME Typed, Health, SameHp, UNCHANGED <<objects, down, hurt, missed>>
    PROVE  Health'
  <1>1. PICK total \in [Clients -> Nat] :
             /\ \A p \in Clients \ hurt : total[p] = 0
             /\ \A c \in objects : \A p \in objects \ missed[c] : Taken(c, p, total[p])
    BY DEF Health
  <1>2. ASSUME NEW c \in objects, NEW p \in objects \ missed[c] PROVE Taken(c, p, total[p])'
    <2>1. Taken(c, p, total[p]) /\ c \in Clients /\ p \in Clients
      BY <1>1 DEF Typed
    <2>2. Hp(c, p)' = Hp(c, p) /\ down'[c] = down[c]
      BY <2>1 DEF SameHp
    <2> QED
      BY <2>1, <2>2 DEF Taken
  <1> QED
    BY <1>1, <1>2 DEF Health

\* An answer is told to all at once: an attack is one blow more for everybody.
LEMMA HealthServes ==
    ASSUME Typed, Health, NEW b \in Clients, NEW k, Serves(b, k), hurt \subseteq hurt',
           \A p \in Clients : Blow(k, p) = 0 \/ p \in hurt'
    PROVE  Health'
  <1>1. PICK total \in [Clients -> Nat] :
             /\ \A p \in Clients \ hurt : total[p] = 0
             /\ \A c \in objects : \A p \in objects \ missed[c] : Taken(c, p, total[p])
    BY DEF Health
  <1> DEFINE t == [p \in Clients |-> total[p] + Blow(k, p)]
  <1>2. \A p \in Clients : Blow(k, p) \in Nat
    BY DEF Blow
  <1>3. t \in [Clients -> Nat] /\ \A p \in Clients : t[p] = total[p] + Blow(k, p)
    BY <1>1, <1>2
  <1> HIDE DEF t
  <1>4. \A p \in Clients \ hurt' : t[p] = 0
    BY <1>1, <1>3
  <1>5. UNCHANGED <<objects, missed, pawn>> /\ k \in ToClient
    BY DEF Serves, world
  <1>6. ASSUME NEW c \in objects PROVE c \in Clients /\ down[c] \in Seq(ToClient) /\ down'[c] = Append(down[c], k)
    BY <1>5, ToldAll DEF Serves, Typed
  <1>7. ASSUME NEW c \in objects, NEW p \in objects \ missed[c] PROVE Taken(c, p, t[p])'
    <2>1. p \in Clients /\ t[p] = total[p] + Blow(k, p)
      BY <1>3 DEF Typed
    <2>2. PICK n \in Nat : Hp(c, p) = HpAfter(n) /\ Counts(down[c], p, n, total[p])
      BY <1>1 DEF Taken
    <2>3. Hp(c, p)' = HpAfter(n)
      BY <1>5, <2>2 DEF Hp
    <2> DEFINE q == down[c]
               m == total[p]
    <2>a. q \in Seq(ToClient) /\ k \in ToClient /\ Counts(q, p, n, m)
      BY <1>5, <1>6, <2>2
    <2> HIDE DEF q, m
    <2>b. Counts(Append(q, k), p, n, m + Blow(k, p))
      BY <2>a, CountsAppended
    <2>4. Counts(down'[c], p, n, t[p])
      BY <1>6, <2>1, <2>b DEF q, m
    <2> QED
      BY <2>3, <2>4 DEF Taken
  <1> QED
    BY <1>3, <1>4, <1>5, <1>7 DEF Health

LEMMA HealthJob ==
    ASSUME Typed, Health, NEW c \in Clients, RoomJob(c)
    PROVE  Health'
  <1>1. CASE HandleREQMove(c)
    <2>1. PICK k : Serves(c, k) /\ k.type = "resMove" /\ hurt' = hurt
      BY <1>1, ServesREQMove
    <2> QED
      BY <2>1, HealthServes DEF Blow
  <1>2. CASE HandleMove(c)
    <2>1. PICK k : Serves(c, k) /\ k.type = "move" /\ hurt' = hurt
      BY <1>2, ServesMove
    <2> QED
      BY <2>1, HealthServes DEF Blow
  <1>3. CASE HandleREQShoot(c)
    <2>1. PICK k : Serves(c, k) /\ k.type = "resShoot" /\ hurt' = hurt
      BY <1>3, ServesREQShoot DEF history
    <2> QED
      BY <2>1, HealthServes DEF Blow
  <1>4. CASE HandleREQAttack(c)
    <2>1. PICK k : Serves(c, k) /\ hurt' = hurt \cup {k.target}
      BY <1>4, ServesREQAttack
    <2> QED
      BY <2>1, HealthServes DEF Blow
  <1> QED
    BY <1>1, <1>2, <1>3, <1>4 DEF RoomJob

\* A client that handles a packet has taken its blow and has it no longer to
\* come.
LEMMA HealthReceives ==
    ASSUME Typed, Health, NEW b \in Clients, Receives(b),
           \A c \in objects : \A p \in objects : c # b => Hp(c, p)' = Hp(c, p),
           b \in objects => \A p \in objects : \A n \in Nat :
              Hp(b, p) = HpAfter(n) => Hp(b, p)' = HpAfter(n + Blow(Head(down[b]), p))
    PROVE  Health'
  <1>1. PICK total \in [Clients -> Nat] :
             /\ \A p \in Clients \ hurt : total[p] = 0
             /\ \A c \in objects : \A p \in objects \ missed[c] : Taken(c, p, total[p])
    BY DEF Health
  <1>2. /\ UNCHANGED <<objects, missed, hurt>> /\ down[b] # << >> /\ objects \subseteq Clients
        /\ down[b] \in Seq(ToClient) /\ down'[b] = Tail(down[b])
        /\ \A c \in Clients : c # b => down'[c] = down[c]
    BY DEF Receives, server, history, Typed
  <1>3. ASSUME NEW c \in objects, NEW p \in objects \ missed[c] PROVE Taken(c, p, total[p])'
    <2>1. PICK n \in Nat : Hp(c, p) = HpAfter(n) /\ Counts(down[c], p, n, total[p])
      BY <1>1 DEF Taken
    <2>2. CASE c # b
      BY <1>2, <2>1, <2>2 DEF Taken
    <2>3. CASE c = b
      <3> DEFINE h == Blow(Head(down[b]), p)
      <3>1. h \in Nat
        BY DEF Blow
      <3>2. Counts(down'[b], p, n + h, total[p])
        BY <1>2, <2>1, <2>3, CountsRemoved
      <3>3. Hp(b, p)' = HpAfter(n + h)
        BY <2>1, <2>3
      <3> HIDE DEF h
      <3> QED
        BY <2>3, <3>1, <3>2, <3>3 DEF Taken
    <2> QED
      BY <2>2, <2>3
  <1> QED
    BY <1>1, <1>2, <1>3 DEF Health

LEMMA HealthReceive ==
    ASSUME Typed, Present, Known, Health, NEW b \in Clients, HandleRecvPacket(b)
    PROVE  Health'
  <1>1. Receives(b) /\ objects \subseteq Clients
    BY ReceivesSome DEF Typed
  <1>2. CASE ~HandleResAttack(b)
    <2>1. SameHp /\ \A p : Blow(Head(down[b]), p) = 0
      BY <1>2, ReceivesHp DEF Blow
    <2>2. \A n \in Nat : n + 0 = n
      OBVIOUS
    <2> QED
      BY <1>1, <2>1, <2>2, HealthReceives DEF SameHp
  <1>3. CASE HandleResAttack(b)
    <2> DEFINE k == Head(down[b])
               w == [pawn[b][k.target] EXCEPT !.hp = IF @ > Damage THEN @ - Damage ELSE 0]
    <2>1. /\ k.type = "resAttack" /\ k.target \in Clients
          /\ {k.who, k.target} \subseteq DOMAIN pawn[b] => OnePawn(b, k.target, w)
      BY <1>3, ReceivesAttack
    <2>2. {k.who, k.target} \subseteq DOMAIN pawn[b]
      BY <1>1, <2>1, HeadKnown DEF Names, Receives
    <2>3. /\ w.hp = IF pawn[b][k.target].hp > Damage THEN pawn[b][k.target].hp - Damage ELSE 0
      BY <2>2 DEF Typed, Walker, Pawn
    <2> HIDE DEF k, w
    <2>4. OnePawn(b, k.target, w)
      BY <2>1, <2>2
    <2>5. ASSUME NEW c \in Clients, NEW p \in Clients, c # b \/ p # k.target PROVE Hp(c, p)' = Hp(c, p)
      BY <2>4, <2>5 DEF Hp, OnePawn
    <2>6. ASSUME NEW p \in objects, NEW n \in Nat, Hp(b, p) = HpAfter(n)
          PROVE  Hp(b, p)' = HpAfter(n + Blow(k, p))
      <3>1. CASE p # k.target
        <4>1. Blow(k, p) = 0 /\ n + 0 = n
          BY <3>1 DEF Blow
        <4> QED
          BY <1>1, <2>5, <2>6, <3>1, <4>1
      <3>2. CASE p = k.target
        <4>1. Blow(k, p) = 1
          BY <2>1, <3>2 DEF Blow
        <4>2. p \in DOMAIN pawn[b] /\ p \in DOMAIN pawn'[b] /\ pawn'[b][p] = w
          BY <2>2, <2>4, <3>2 DEF OnePawn
        <4>3. pawn[b][p].hp = HpAfter(n) /\ Hp(b, p)' = w.hp
          BY <2>6, <4>2 DEF Hp
        <4>4. w.hp = IF HpAfter(n) > Damage THEN HpAfter(n) - Damage ELSE 0
          BY <2>3, <3>2, <4>3
        <4> QED
          BY <4>1, <4>3, <4>4, OneBlow
      <3> QED
        BY <3>1, <3>2
    <2> QED
      BY <1>1, <2>5, <2>6, HealthReceives DEF k
  <1> QED
    BY <1>2, <1>3

\* Whoever enters is not told of what was before, and no attack on it is under
\* way.
LEMMA HealthEnters ==
    ASSUME Typed, Present, Known, Health, NEW e \in Clients, NEW self, NEW list, Enters(e, self, list)
    PROVE  Health'
  <1>1. PICK total \in [Clients -> Nat] :
             /\ \A p \in Clients \ hurt : total[p] = 0
             /\ \A c \in objects : \A p \in objects \ missed[c] : Taken(c, p, total[p])
    BY DEF Health
  <1>2. /\ objects' = objects \cup {e} /\ e \notin objects /\ objects \subseteq Clients
        /\ pawn' = pawn /\ hurt' = hurt
        /\ missed'[e] = hurt /\ \A c \in objects : missed'[c] = missed[c]
        /\ self \in ToClient /\ list \in ToClient /\ down'[e] = << self, list >>
        /\ \A p : Blow(self, p) = 0 /\ Blow(list, p) = 0
    BY DEF Enters, world, Typed, Blow
  <1>3. /\ HpAfter(0) = MaxHp /\ 0 \in Nat /\ 0 + 0 = 0
        /\ e \notin hurt /\ DOMAIN pawn[e] = {} /\ \A c \in Clients : e \notin DOMAIN pawn[c]
    <2>1. 0 \in Nat /\ 0 + 0 = 0
      OBVIOUS
    <2>2. HpAfter(0) = MaxHp
      BY <2>1, OneBlow
    <2> QED
      BY <1>2, <2>1, <2>2 DEF Present
  <1>4. ASSUME NEW c \in objects
        PROVE  c \in Clients /\ down[c] \in Seq(ToClient) /\ down'[c] = Append(down[c], self)
    BY DEF Enters, Typed
  <1>5. ASSUME NEW c \in objects, NEW p \in objects \ missed[c] PROVE Taken(c, p, total[p])'
    <2>1. PICK n \in Nat : Hp(c, p) = HpAfter(n) /\ Counts(down[c], p, n, total[p])
      BY <1>1 DEF Taken
    <2>2. total[p] + 0 = total[p]
      BY <1>1, <1>2
    <2> DEFINE q == down[c]
               m == total[p]
    <2>a. q \in Seq(ToClient) /\ self \in ToClient /\ Counts(q, p, n, m)
      BY <1>2, <1>4, <2>1
    <2> HIDE DEF q, m
    <2>b. Counts(Append(q, self), p, n, m + Blow(self, p))
      BY <2>a, CountsAppended
    <2>3. Counts(down'[c], p, n, total[p])
      BY <1>2, <1>4, <2>2, <2>b DEF q, m
    <2> QED
      BY <1>2, <2>1, <2>3 DEF Taken, Hp
  <1>6. ASSUME NEW c \in objects PROVE Taken(c, e, total[e])'
    <2>1. total[e] = 0 /\ Hp(c, e)' = HpAfter(0)
      BY <1>1, <1>2, <1>3, <1>4 DEF Hp
    <2>2. ASSUME NEW i \in 1 .. Len(down[c]) PROVE Blow(down[c][i], e) = 0
      <3>1. down[c][i].type # "spawn" => e \notin Names(down[c][i])
        BY <1>2, <1>4, NamesPresent
      <3> QED
        BY <3>1 DEF Blow, Names
    <2>3. Counts(down[c], e, 0, 0)
      BY <1>3, <1>4, <2>2, CountsNone
    <2>4. Counts(down'[c], e, 0, 0 + Blow(self, e))
      BY <1>2, <1>4, <2>3, CountsAppended
    <2>5. Counts(down'[c], e, 0, 0)
      BY <1>2, <1>3, <2>4
    <2> QED
      BY <1>3, <2>1, <2>5 DEF Taken
  <1>7. ASSUME NEW p \in (objects \cup {e}) \ hurt PROVE Taken(e, p, total[p])'
    <2>1. total[p] = 0 /\ Hp(e, p)' = HpAfter(0)
      BY <1>1, <1>2, <1>3 DEF Hp
    <2> DEFINE q == << self, list >>
    <2>2. q \in Seq(ToClient) /\ Len(q) = 2 /\ q[1] = self /\ q[2] = list
      BY <1>2, TwoPackets
    <2>3. \A i \in 1 .. 2 : i = 1 \/ i = 2
      OBVIOUS
    <2> HIDE DEF q
    <2>4. \A i \in 1 .. Len(q) : Blow(q[i], p) = 0
      BY <1>2, <2>2, <2>3
    <2>5. Counts(q, p, 0, 0)
      BY <1>3, <2>2, <2>4, CountsNone
    <2> QED
      BY <1>2, <1>3, <2>1, <2>5 DEF Taken, q
  <1>8. ASSUME NEW c \in objects', NEW p \in objects' \ missed'[c] PROVE Taken(c, p, total[p])'
    <2>1. c \in objects \/ c = e
      BY <1>2
    <2>2. p \in objects \/ p = e
      BY <1>2
    <2> QED
      BY <1>2, <1>5, <1>6, <1>7, <2>1, <2>2
  <1> QED
    BY <1>1, <1>2, <1>8 DEF Health

LEMMA HealthStep ==
    ASSUME Typed, Present, Known, Health, [Next]_vars
    PROVE  Health'
  <1>1. CASE vars' = vars
    <2>1. UNCHANGED <<objects, down, pawn, hurt, missed>>
      BY <1>1 DEF vars, server, world, history
    <2>2. SameHp
      BY <2>1 DEF SameHp, Hp
    <2> QED
      BY <2>1, <2>2, HealthQuiet
  <1>2. ASSUME NEW c \in Clients, EnterRoom(c) PROVE Health'
    BY <1>2, Entered, HealthEnters DEF Present, EnterRoom
  <1>3. ASSUME NEW c \in Clients, ClientStep(c) PROVE Health'
    <2>1. UNCHANGED <<objects, down, hurt, missed>>
      BY <1>3, ActsSome DEF Acts, server, history
    <2>2. SameHp
      BY <1>3, ClientStepHp
    <2> QED
      BY <2>1, <2>2, HealthQuiet
  <1> QED
    BY <1>1, <1>2, <1>3, Steps, HealthJob, HealthReceive

HealthInv == Typed /\ Present /\ Known /\ Health

LEMMA HealthInvariant == Spec => []HealthInv
  <1>1. Init => HealthInv
    <2> SUFFICES ASSUME Init PROVE HealthInv
      OBVIOUS
    <2>1. Known /\ objects = {}
      BY DEF Init, Known
    <2>2. [p \in Clients |-> 0] \in [Clients -> Nat]
      OBVIOUS
    <2>3. Health
      <3> DEFINE t == [p \in Clients |-> 0]
      <3>1. t \in [Clients -> Nat] /\ \A p \in Clients \ hurt : t[p] = 0
        OBVIOUS
      <3> HIDE DEF t
      <3> QED
        BY <2>1, <3>1 DEF Health
    <2> QED
      BY <2>1, <2>3, TypedInit DEF HealthInv
  <1>2. HealthInv /\ [Next]_vars => HealthInv'
    BY TypedStep, PresentStep, KnownStep, HealthStep DEF HealthInv
  <1> QED
    BY <1>1, <1>2, PTL DEF Spec

\* Whoever a packet on its way to a client names (S_RES_MOVE, S_MOVE,
\* S_RES_SHOOT, S_RES_ATTACK) has a pawn there or is in a list before that
\* packet, so that FindPlayer does not fail for it; and everybody in the room
\* is shown, or about to be.
THEOREM NamedAreKnown == Spec => []Known
  <1>1. HealthInv => Known
    BY DEF HealthInv
  <1> QED
    BY <1>1, HealthInvariant, PTL

\* When nothing is under way two clients that saw all attacks on a player have
\* the same health for it (HealthAgrees), whatever bullets each of them had and
\* in whatever order it handled what came between.
THEOREM HealthTheSame == Spec => []HealthAgrees
  <1>1. HealthInv => HealthAgrees
    <2> SUFFICES ASSUME HealthInv, NoTraffic, NEW c \in objects, NEW d \in objects,
                        NEW p \in objects \ (missed[c] \cup missed[d])
                 PROVE  pawn[c][p].hp = pawn[d][p].hp
      BY DEF HealthAgrees
    <2>1. PICK total \in [Clients -> Nat] :
               \A b \in objects : \A r \in objects \ missed[b] : Taken(b, r, total[r])
      BY DEF HealthInv, Health
    <2>2. Len(<< >>) = 0
      OBVIOUS
    <2>3. ASSUME NEW b \in objects, p \notin missed[b] PROVE pawn[b][p].hp = HpAfter(total[p])
      <3>1. down[b] = << >> /\ Len(down[b]) = 0
        BY <2>2 DEF NoTraffic, HealthInv, Typed
      <3>2. PICK n \in Nat : Hp(b, p) = HpAfter(n) /\ Counts(down[b], p, n, total[p])
        BY <2>1, <2>3 DEF Taken
      <3>3. n = total[p]
        BY <3>1, <3>2, CountsNothing
      <3>4. Seen(DOMAIN pawn[b], down[b], 0 + 1, p)
        BY <3>1 DEF HealthInv, Known, AllSeen
      <3>5. 1 .. 0 + 1 - 1 = {}
        OBVIOUS
      <3>6. p \in DOMAIN pawn[b]
        BY <3>4, <3>5 DEF Seen
      <3> QED
        BY <3>2, <3>3, <3>6 DEF Hp
    <2> QED
      BY <2>3
  <1> QED
    BY <1>1, HealthInvariant, PTL

=============================================================================
