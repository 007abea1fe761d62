# Formal model of the game server and its client

TLA+ specifications of the C++ online game in this repository: the IOCP
server (`src/Server/Core` is the networking and threading library,
`src/Server/Server` the game server) and the network layer and game state of
the Unreal client (`src/Client/S1`). TLC checks the modules on small
instances; TLAPS proves the theorems for every value of the constants.

Contents: [the system](#the-system) · [one section per
module](#job-queues-jobqueuetla) · [runs](#runs) · [proofs](#proofs) ·
[findings](#findings) · [assumptions](#assumptions) · [not
modelled](#what-is-not-modelled) · [plan](#plan)

## The system

Five worker threads of the server take completions from one completion port
(`DoWorkerJob`: dispatch, reserved timer jobs, global queue), one thread calls
`UpdateAllRooms` every 100 ms. A client has its game thread, a `RecvWorker` and
a `SendWorker`.

| part | state | operations | interacts with | what is hard | what makes it correct |
|---|---|---|---|---|---|
| Job queues (`JobQueue`, `LockQueue`, `GlobalQueue`, `DoGlobalQueueWork`) | `_jobs`, `_jobCount` per queue, the global queue, `LCurrentJobQueue`, `LEndTickCount` per thread | `DoAsync`/`Push`, `Execute`, worker loop | every `Room` is a queue; handlers, timers and ticks post on it | no lock is held while a job runs: exclusion rests on a counter that is raised before the job is queued | a queue is a serial executor: one thread, order, every job once, eventually |
| Send path (`Session::Send`, `RegisterSend`, `ProcessSend`) | `_sendQueue`, `_sendRegistered`, `_sendEvent`, `_connected` | send, WSASend, its completion, disconnect | called by rooms and handlers on any thread; the kernel owns the event while a send is out | event and buffers have no lock, only the flag; failures | one user of the event, FIFO to the peer, nothing stuck |
| Life of sessions (`Listener`, `Session`, `Service`, `GameSessionManager`) | accept events and their sessions, `_sessions` twice, `_connected`, recv and disconnect events | accept, connect, receive, disconnect, release | kernel completions on any worker; `GameSession` callbacks | three completions of a session in any order, each call may fail | no release of an unknown session (it would crash), accept slots survive, one receive per session |
| Receive path, server (`RecvBuffer`, `PacketSession::OnRecv`) | buffer, `_readPos`, `_writePos` | receive, packet loop, clean | `ProcessRecv` gives bytes, `GameSession` gets packets | two positions, moved data, any fragmentation | the handlers see the peer's packets; always room; no overlapping copy |
| Session of the client (`PacketSession`, `RecvWorker`, `SendWorker`) | socket, the packet being read, `RecvPacketQueue`, `SendPacketQueue`, the references to the session, `Running` | read header, read payload, enqueue, handle; queue, send; release, stop | two threads of its own, two queues to the game thread | any fragmentation, reads that give up, sends that fail; who destroys the session, and when | the handlers see the server's packets, packets leave in order, a released session is destroyed |
| Timer (`JobTimer`, `DistributeReservedJobs`, `Room::UpdateTick`) | `_items`, `_distributing`, clock | reserve, distribute, tick | workers distribute, jobs reserve | a flag instead of a lock, items outside of the heap between pop and push | one distributor, no tick early, lost or doubled, all of them fire |
| Rooms and handlers (`Room`, `RoomManager`, `ServerPacketHandler`, `ObjectUtils`) | `_objects`, `Object::room`, `posInfo`, `Player::session`, `GameSession::player` | login, leave, change room, relay a move, shot, hit or arrival, disconnect | jobs of the room and direct calls of the handlers; sends to every client of the room | direct calls overlap jobs; two halves of a change of room; a relay whose sender or subject has left | `room` and `_objects` agree, nobody is lost; what clients see is what the room holds |
| Client world (`US1NetworkManager`) | `Players`, `Objects`, actors | spawn, despawn, clear, move, shoot, attack | the server's packets, in order | the order decides what is ignored | see rooms, walking and combat |
| Walking and combat (client `S1Player`, `S1MyPlayer`, `WeaponComponent`, projectiles, `EntityStatComponent`; `Room::HandleREQMove/Move/REQShoot/REQAttack`) | `posInfo` at the server; place, destination, state and health of every pawn, and bullets, at every client | click, walk, arrive, shoot, hit, damage | what a client asks for is applied and sent to everybody by the room | every client plays every player and reports its arrival; health is on the clients only | clients and server agree on places, clients on health; reports do not answer reports for ever |
| Login and accounts (`LoginManager`, `DBConnectionPool`) | pool of ODBC connections | authenticate, register | login handler | five workers, a pool of one | not modelled: behind dead code |

Hazards, each at its line with the properties that cover it, are in
`PROJECT.json`.

## Job queues: `JobQueue.tla`

**The code.** A room is a `JobQueue`. `DoAsync` makes a job and calls `Push`:
raise the atomic `_jobCount`, append to the locked `_jobs`, and, if the
counter was 0, become the queue's owner, either by executing it on the spot or,
when the thread is already executing another queue (`LCurrentJobQueue`), by
putting it on the global queue. `Execute` takes all the jobs, runs them,
subtracts their number, and leaves when the counter shows that nobody posted
meanwhile; out of time it puts the queue on the global queue, from which the
workers take queues in `DoGlobalQueueWork`. No lock is held while a job runs:
that rooms are single-threaded rests on the counter alone.

**The model.** One action per shared access (`PushCount`: the `fetch_add`;
`PushEnqueue`: the locked append and the local decision after it; `GlobalPush`,
`PopAll`, `FetchSub`, `GlobalPop`), plus `StartJob`/`FinishJob` around a job's
body, in which a thread may post further jobs, and the two outcomes of the time
test. A thread's place is `pc`; `current` is `LCurrentJobQueue`. The clock is
left out: `now >= LEndTickCount` may come out either way on a worker, and is
always true on a thread that never sets `LEndTickCount` (the main thread, and
the thread that calls `UpdateAllRooms`). `pushOnly` is left out, since no
caller passes it. Each job is posted at most once, by any thread, at any time;
`Jobs` is the only bound.

**Abstract specification.** `SerialExecutor.tla`: per queue a sequence of
pending jobs, at most one running, the finished ones in order. `JobQueue`
implements it under a mapping that reads the pending jobs off `_jobs` and off
the batch the executing thread took (`ImplementsSerial`).

**Properties.** `MutualExclusion`, `OneOwner` (one thread or one place in the
global queue or idle), `CountExact` (`_jobCount` against jobs queued, announced
and taken), `ImplementsSerial`, `EveryJobRuns` (liveness).

## Send path: `SendPath.tla`, `FifoChannel.tla`

**The code.** `Send` pushes a buffer under the session's lock, and the thread
that finds `_sendRegistered` false goes on to `RegisterSend`, which moves the
queue into `_sendEvent` and calls `WSASend`. The completion runs `ProcessSend`:
clear the event, then under the lock either reset the flag or register again.
The event is used without a lock by whoever set the flag, or by the kernel.

**The model.** Any number of `Threads` call `Send` and take the completion;
`lock` is the mutex; `kernel` is the overlapped send. The reads of `_connected`
outside of the lock are steps of their own. `WsaSend` succeeds or fails with a
reset, after which `HandleError` disconnects, or with another error, after
which it only logs; in both cases the collected buffers are dropped and the
flag reset (`Failures` says which errors occur, `ignored` that the second kind
did). `DisconnectElsewhere` is the
receive side that finds the connection ended. `wire`, `lost` and `accepted` are
histories. `Buffers` is the only bound.

**Abstract specification.** `FifoChannel.tla`: accepted buffers arrive in
order, each at most once; a failing connection drops from the front of what
waits.

**Properties.** `EventExclusive`, `NoStuckQueue`, `ImplementsChannel`; `NoGap` and `EveryBufferLeaves` except where a failed
`WSASend` was `ignored`, see [assumptions](#assumptions).

## Life of sessions: `SessionLife.tla`

**The code.** `StartAccept` posts one `AcceptEx` per unit of
`_maxSessionCount`, each with a new session. `ProcessAccept` connects the
session (`ProcessConnect`: `_connected`, `AddSession`, `OnConnected`,
`RegisterRecv`) and registers the event with another session; all its early
returns register again. `ProcessRecv` goes on receiving or disconnects;
`Disconnect` posts `DisconnectEx` once; its completion removes the session from
`GSessionManager` and `Service`. `ReleaseSession` asserts that it was there.

**The model.** Workers take completions in any order; each is a sequence of
steps (`pc`, `sess`, `acc`). The kernel's side are `AcceptCompletes`,
`RecvData`, `RecvZero`, `DisconnectCompletes`, `PeerCloses`. A session is an
object with a reference count: one to which nothing refers (`Referenced`) may
serve again as a new one. `Failures` is the set of calls that may fail.

**Properties.** `TablesInStep` (`ReleaseFinds`, the assertion, and
`ManagerInService`; both rest on `Disconnect` ending a connection only once),
`OneReceiver`, `SlotsAlive`, `NoDeafSession` (who notices that the peer left),
except for a session in `recvFailed`, of which a `WSARecv` failed with an error
that `HandleError` ignores, and `ClosingIsDriven` (who takes a closed session out
of the tables), except for one in `discFailed`, of which `DisconnectEx` failed.

## Packets at the server: `PacketStream.tla`, `PacketFraming.tla`

**The code.** A receive fills the free end of a buffer of ten times
`BUFFER_SIZE`; `OnRecv` handles every whole packet and reports how many bytes it
used; `OnRead` moves the read position, `Clean` resets both positions when
nothing is left or moves the data to the front when less than one `BUFFER_SIZE`
is free.

**The model.** A byte is its place in the peer's stream, so that a wrong
position or a wrong copy is seen as a wrong byte. `Receive(n)` lets the kernel
give any number of bytes that fits, `HandlePacket` is one turn of the loop,
`OnRead` its end, `Clean` the compaction with the `memcpy` as a function on the
cells. At a cell that is not the start of a packet the header may hold anything.
`HeaderSize`, `MaxPacket`, `BufferSize`, `BufferCount` are parameters; the code
has 4, 65535, 0x10000 and 10, which satisfy `SizesAssumption` (a packet fits
into `BufferSize`, and `BufferCount >= 3`). Packets are well formed, as
`MakeSendBuffer` makes them.

**Abstract specification.** `PacketFraming.tla`: packets sent reach the handler
whole, once, in order, all of them; shared with the client.

**Properties.** `BufferSound`: `RoomForReceive` (a receive of length 0 would look
like the end of the connection) and `InStep`; `CopyDisjoint` (overlapping
`memcpy` is undefined behaviour); `ImplementsFraming` (safety and liveness).

## The client's session: `ClientStream.tla`, `ClientSession.tla`

**The code.** `RecvWorker::ReceivePacket` reads a header, then its payload, both
with `ReceiveDesiredBytes`, which first asks `HasPendingData` and returns false
if nothing is there, and otherwise reads in a blocking loop. `Run` enqueues whole
packets; `HandleRecvPackets` dequeues them on the game thread. `SendPacket`
enqueues on the game thread, `SendWorker::Run` dequeues and writes with
`SendDesiredBytes`, whose result it ignores. The network manager holds the
session with a `TSharedPtr`; the workers hold a `TWeakPtr` and pin it while they
use a queue, so that any of the three threads may drop the last reference and run
`~PacketSession`, which tells each worker to stop (`Running = false`) and drops
it without waiting for its thread.

**The model.** `ClientStream` is the receive side: `AskHeader`,
`ReadHeader(n)`, `Parse`, `AskPayload`, `ReadPayload(n)`, `Enqueue`,
`HandleRecvPacket`; `Arrive(n)` is the network. The constant `CutAfterHeader`
says whether the network may deliver a header and its payload later.
`ClientSession` extends it with the rest: `pins` are the workers that hold the
session, `Drop` is the end of a reference and the only place where destruction
begins, and takes both queues with it; `Disconnect` is one action per statement
of the teardown. `SendBytes(n)` is one `Send`; `SendPacketEnds` its last, or one
that failed: the packet then counts as `cut`. A worker object may be freed while
its thread is inside of it: `ReceiveFreed` and `LeaveLoop` show where, and the
thread is "astray" from there on (undefined behaviour, of which nothing is said).
The receive side that ends with the connection is left out: the thread then
stays in its loop and asks again.

**Properties.** `KeepsFraming` (the client implements `PacketFraming` up to the
end of the session), `SendsInOrder` (the send side implements `FifoChannel`;
what arrived is what is on the wire with all of its bytes, `Received`: only a
packet that a `Send` failed on, or that the end of the session found in the
queue, is missing; `C_LEAVE_GAME`, which `DisconnectFromGameServer` merely
queues, can be one), `AllDelivered`, `ReleasedIsDestroyed` (the workers' pins
end, the session goes, both workers are told), and in `SessionTypeOK` that
whoever uses a queue finds the session alive. With the cut, a header is lost:
see [findings](#findings).

## Timer and ticks: `JobTimer.tla`

**The code.** `Reserve` puts an item in a heap under a lock. Every worker calls
`Distribute(now)` on each turn; `_distributing.exchange` lets one through, which
pops the due items under the lock and pushes them on their queues after it.
`UpdateTick` of a room does nothing but book itself again.

**The model.** The clock moves between any two steps and a worker's `asked` is
the value it read before. A chain is what one post of `UpdateTick` starts; its
next tick is in the timer, in the queue, with the thread that books it or with
the distributor (`Places`). Bounds: `Chains`, `MaxNow`. Items of one time leave
the heap in any order.

**Properties.** `OneDistributor`, `ChainsConserved`, `EveryTickFires`.

## Rooms and clients: `Room.tla`, `ClientWorld.tla`

**The code.** `Handle_C_REQ_LOGIN` creates a player and posts
`HandleEnterPlayer` on room 1. `Handle_C_MOVE`, `Handle_C_REQ_MOVE`,
`Handle_C_REQ_SHOOT` and `Handle_C_REQ_ATTACK` post a job on the room the sender
is in, which looks its player up in `_objects` and broadcasts.
`Handle_C_LEAVE_GAME` and `Handle_C_REQ_ENTER_ROOM` call `HandleLeavePlayer` and
`RelocatePlayerToRoom` directly, on the worker that received the packet.
`EnterRoom` adds to `_objects`, sends `S_ENTER_GAME` to the player, `S_SPAWN` to
the others, the list to the player; `LeaveRoom` removes, sends `S_LEAVE_GAME` to
the player, `S_DESPAWN` to the others and to it. `OnDisconnected` leaves the
player in its room, where the others go on seeing it.

**The model.** An operation of a room is a sequence of steps, one per access to
`_objects` and per send; its state is `op` of an actor, which is a handler (one
per session) or the job of a room. Jobs follow `JobQueue.tla`: a queue without
executor is executed by the poster, beginning with its job, and otherwise the
job waits; `HandOver` is the end of the time slice, `Tick` an execution for the
room's tick. A handler is busy while its thread executes a queue. Each send is
applied to the client's view at once: sends of a session keep their order
(`SendPath`, `ClientSession`), so a view is what the client has when it has
handled what was sent to it. `ClientWorld` gives what each packet does to
`Players` and the actors: `HandleSpawn` ignores who is in `Players`,
`HandleDespawn` destroys the actor and keeps the entry, `DeleteAllPlayer` clears
it. What a relay carries is in `Arena.tla`; here it matters to whom it goes, and
whether they have the actor.

Two flags bound the environment: `Overlap` (direct calls overlap jobs, which is
what the code does; each access to `_objects` is then atomic, although the
`unordered_map` has no lock) and `MayReturn` (a player enters a room it was in
before). Three histories condition properties: `calm` is true as long as no two
operations were inside of one room at once and no session logged in twice;
`astray` says that the last relay reached, while all was calm, a client that does
not show the player it is about; `left` are those that left by themselves.

**Properties.** Under overlap: `PlacesAgree` (`RoomAgrees`: `room` and `_objects`;
`NoFailedEntry`: neither "something is wrong" return of `AddObject` and
`RemoveObject` is taken), `EveryPlayerPlaced` (nobody is lost between two rooms).
As long as it is calm: `CalmViewsMatch` (each client shows exactly the players of
its room, and nobody outside of rooms) and `RelaysReachActors`.
`ViewMatchesRoom`, the first half of `CalmViewsMatch` without the condition,
fails with overlap, and without it when a player returns.

## Walking and combat: `Arena.tla`

**The code.** A click sends `C_REQ_MOVE`; the room's job stores it in `posInfo`
and sends `S_RES_MOVE` to everybody, and each client sends its own copy of the
pawn there (`SetDestInfo`, `MoveToTargetLocation`). In `Tick`, `CheckArrival`
notices on every client that a running pawn is at its destination: `OnArrival`
sets it to `IDLE` and sends `C_MOVE`, for every pawn and not only for the
client's own. `Room::HandleMove` stores that as well and relays `S_MOVE`, which
each client applies unless the pawn is its own. A shot sends `C_REQ_SHOOT` with
the place the pawn has on its way; the room stores it and relays `S_RES_SHOOT`,
for which a client spawns a bullet, unless `FireRate` says it is too early. A
bullet that overlaps a pawn on its shooter's client sends `C_REQ_ATTACK`; the room
relays `S_RES_ATTACK`, every client takes `Damage` from its own `CurrentHp` of the
target, and destroys the bullet if it has it. The server keeps no health.

**The model.** `up` and `down` are the packets between each client and the
server; a packet stays in `up` until the room's job for it is executed, so one
action is handler and job (jobs of one client stay in order, jobs run one at a
time: `JobQueue`). A client and its player have one name; who has entered stays,
since leaving is `Room`'s subject. A place is one of `Places` or `Way`, somewhere
between two of them, where a pawn is while it walks; path following and the
bullet's flight and overlap are Unreal's and appear as actions that may happen
(`WalkOn`, `WalkTo`, `Hit`, `BulletEnds`), the time of `FireRate` as a choice.
`Movers` and `Shooters` bound who acts. Histories: `asked`, where each player was
last sent; `late`, players for which an arrival elsewhere was applied since;
`hurt` and `missed`, targets of attacks, and those before a client entered.

**Properties.** `MoveMadeKnown` (when nothing is under way and nobody walks, all
clients show a player where the server has it) fails: see [findings](#findings).
`PositionsAgree` is the same for players that are not `late`. `HealthAgrees`:
clients that saw the same attacks agree on a target's health, whatever happened
to their bullets; one that entered later starts at full health, which is what
`missed` excepts. `TrafficDiesOut`: every arrival is reported by every client,
and every report goes to all of them, but reports do not make new ones.

## Runs

| run | bounds | shows |
|---|---|---|
| `jobqueue` | 2 workers, 1 poster, 2 queues, 4 jobs | the safety properties, `ImplementsSerial`, `EveryJobRuns` |
| `sendpath` | 3 threads, 4 buffers, all failures | the safety properties, `ImplementsChannel`, `EveryBufferLeaves` |
| `sessionlife` | 2 workers, 2 accept slots, 3 sessions, all failures | the safety properties |
| `jobtimer` | 2 workers, a room thread, 2 chains, clock to 5 | safety and `EveryTickFires` |
| `packetstream` | header 2, packets of 2 and 4, buffer of 3 × 5, stream of 18 | all properties |
| `clientsession` | packets of 2, 3, 4, stream of 7, no cut; 2 packets of 2 bytes out | all properties, both refinements, both liveness properties |
| `clientstream_cut` | packets of 2, 3, 4, stream of 10, with the cut | `HeaderInStep` is violated |
| `room` | 2 rooms, 2 clients, 2 players, 2 logins per session, overlap | all properties |
| `room_overlap`, `room_return` | one flag each, 1 login per session | `ViewMatchesRoom` is violated |
| `arena` | 2 clients, one walks twice and shoots once; 2 places and the way | `PositionsAgree`, `HealthAgrees`, `TrafficDiesOut` |
| `arena_late` | the same without shots | `MoveMadeKnown` is violated |

Why the bounds are enough for the interesting cases. Two workers and a third
thread give two posters against one executor and a queue that is handed over
while it is posted on; four jobs on two queues allow posts from inside a job to
its own and to the other queue, with a further job behind each. Four buffers
are one in flight, one collected, two pushed meanwhile. Three sessions over two
slots let a slot be refilled while both earlier sessions are closing, and an
object be used again. A stream of 18 bytes through 15 cells wraps the buffer,
with every fragmentation, including packets cut inside of the header; the
positions' arithmetic for all sizes is proved. Two chains are two ticks due
at once, or one booked while the other is distributed. A stream of 7 bytes to the
client is up to three packets, one handled, one queued, one being read when the
session goes; two packets out are one being sent and one that the teardown finds.
Two clients are one that sees and one that acts, twice over because in `room` each
does both; two rooms make a change; two logins and two players let one client
forget its first player. In `arena` both clients play and report the walking
pawn, in any order with its second request, its shot on the way and the entry of
either client; a second request is what makes a report late.
`CHECK_DEADLOCK FALSE` is set everywhere because every model ends when its
bounded supply of jobs, buffers, logins or time is used up, or every client has
left.

**Fairness.** Threads are scheduled (`WF` of each thread's steps): the server
never suspends one. Strong fairness stands where a step competes: a mutex that
is free again and again is obtained (the guarded regions are short), and a
worker reaches `DoGlobalQueueWork` in time once in a while (an assumption about
load: the code leaves it after 64 ms, see the hazards). The kernel ends an
overlapped send, and the network delivers. Callers owe nothing: no fairness is
assumed of posts, sends, clicks, or the end of the game. The client's two threads
and its game thread run (`WF` each); its teardown is ordinary code of the thread
that dropped the last reference. In `Arena` only the handling of packets is fair,
as one disjunction: pawns need not walk or arrive for `TrafficDiesOut`.
`SessionLife` and `Room` have no liveness property: their invariants name, for
every session and player that waits for something, who is about to do it.

## Proofs

`JobQueueProofs.tla` (for any sets of threads, queues and jobs):

- `TypeCorrect`, `OwnedByOne`, `CounterExact`, `ExclusiveExecution`: `TypeOK`,
  `OneOwner`, `CountExact`, `MutualExclusion` are invariants of `Spec`.
- The argument: `MutualExclusion` follows from the ownership of a queue, and
  ownership moves with the counter: who raises it from 0 or fails to bring it to
  0 owns the queue. Hence the inductive invariant joins `OneOwner` and
  `CountExact` with the types and with what each place says of the thread's
  local variables; neither is inductive alone, since `FetchSub` gives the queue
  up exactly when the counter equals the batch, and that this means an empty
  queue is `CountExact`. Cardinalities (how many threads announced a job) are
  handled by lemmas on finite sets.
- `QueuesAreSerial`: `JobQueue` implements `SerialExecutor`. `Abs` replaces the
  mapping's CHOOSE by the one executor that `OneOwner` gives; a job is submitted
  when it is queued, and `OncePosted` says that it was nowhere before;
  `BatchEmpty` that a thread which takes a queue over or gives it up has nothing
  left of an earlier batch, so that these steps stutter.

`SendPathProofs.tla` (for any sets of threads, buffers and failures):

- `TypeCorrect`, `OneUser`, `NothingStuck`: `TypeOK`, `EventExclusive`,
  `NoStuckQueue` are invariants of `Spec`.
- The argument: the flag is the right to use the send event, so `EventExclusive`
  is inductive with the types (which place the mutex). `NoStuckQueue` is not. It
  follows from `FlagHasUser` (a set flag on a connected session has a user) and
  `QueueHasFlag` (a queued buffer is announced by the flag). The step that
  endangers them is the end of a failed `WSASend`, which clears the flag and
  looks at no queue: `Emptied` says that nothing was pushed since
  `RegisterSend` took the buffers, as the lock is held all the time.
- `StreamWithoutGap`, `SendPathImplements`: `NoGap` is an invariant, and
  `SendPath` implements `FifoChannel` (`ImplementsChannel`).
- The argument: every step leaves the channel alone, accepts a buffer or takes
  some from the front of what waits (`StepKinds`). `Flow` keeps what was accepted
  equal to what arrived, what was lost and what waits, in that order. That no
  transfer follows a loss is `Dead`: who lost buffers holds the event and is about
  to end the connection, unless the error was one that `HandleError` ignores.

`SessionLifeProofs.tla` (for any workers, accept events, sessions and failures):

- `TypeCorrect`, `TablesStayInStep`, `OneReceiverAtATime`, `SlotsStayAlive`,
  `NobodyDeaf`, `ClosedLeave`: `TypeOK`, `TablesInStep`, `OneReceiver`,
  `SlotsAlive`, `NoDeafSession` and `ClosingIsDriven`, which are all the properties of the run.
- The argument follows a session's life: nothing happens to it before its
  connection (`FreshSlots`); while it is set up it has one worker and no receive
  (`Young`), so that no completion can overtake `AddSession`; between the exchange
  of `_connected` and `ReleaseSession` one worker or one `DisconnectEx` has its end
  (`Closing`), so that the tables are left once; in between its receive is in one
  place (`OneReceiver`) and somebody reads it (`NoDeafSession`).

`JobTimerProofs.tla` (for any threads, chains and clock):

- `TypeCorrect`, `OneAtATime`, `NoTickLost`: `TypeOK`, `OneDistributor` and
  `ChainsConserved`.
- The argument: the next tick of a chain is in one place (`OnePlace`: an item of
  the heap, an index of the queue, a booking, an index of what the distributor
  has popped), and each step takes it to another place or shifts its index. The
  heap is a set in the model: that a reserved item is new in it follows, since its
  tick would else have been in two places.

`PacketStreamProofs.tla` (for every size that satisfies `SizesAssumption`):

- `TypeCorrect`, `AlwaysSound`, `CopiesDisjoint`: `TypeOK`, `BufferSound` and
  `CopyDisjoint`; the positions
  stay in order, a receive always has `BufferSize` free bytes, the data is the
  latest piece of the stream, the `memcpy` never overlaps.
- The argument: after the packet loop what is left is shorter than a packet
  (`Leftover`), as the loop ends only when the header or the packet is
  incomplete. When less than `BufferSize` is free the read position is therefore
  past `(BufferCount - 1) * BufferSize - MaxPacket`, which is more than a packet
  when `BufferCount >= 3`. The code has 10; with 2 the copy could overlap.
- `KeepsFraming` (for any stream and any receives): `PacketStream` implements
  `PacketFraming`, safety only: the handlers see the peer's packets, whole, once,
  in order.
- The argument: the place in the stream that `OnRecv` has come to is always the
  end of the packets it handled (`Position`, across `OnRead` and `Clean`). As the
  buffer is in step, the header read there is the one of the next packet sent and
  of no other (`Ordered`).

`ClientSessionProofs.tla` (for every size of header and packets, any number of
packets both ways, failing sends, and a release at any moment):

- `SessionTypeCorrect`: `SessionTypeOK`. Workers hold the session exactly where
  they use its queues (`Side`), so that the queues exist then, whichever of the
  three threads drops the last reference and takes them away.
- `SessionKeepsFraming` (if `~CutAfterHeader`): `ClientSession` implements
  `PacketFraming` up to the end of the session (`KeepsFraming`);
  `HeaderStaysInStep`: under the same condition what is parsed as a header is one,
  which is the property that finding 1 refutes.
- The argument: while the session lives, `RecvWorker` begins a packet in the
  stream where the packets it has passed on end (`InStep`; `Got` counts those
  handled and those in the queue), and what it reads there is the next packet sent.
  The place that endangers it is the second `HasPendingData`: at `payload` the
  reader stands at the end of a header, and by `NotCut` more than that has arrived,
  so that the question is not answered with no.
- `SessionSendsInOrder`: `SendsInOrder`, that the send side implements
  `FifoChannel` with the bytes on the wire for the channel: a packet has arrived
  when all of its bytes were written.
- The argument: packets are numbered as `SendPacket` accepts them; the last ones
  are in the queue, the one before them is with `SendWorker`, all earlier ones are
  sent or given up (`Numbered`); of the one with the worker exactly `size` bytes
  are missing (`Bytes`). The end of the session, which loses the queue and perhaps
  the packet in work, is a transfer of which nothing arrives, and afterwards
  nothing is accepted.

`RoomProofs.tla` (for any rooms, sessions and players, with or without overlap and
returns):

- `TypeCorrect`, `PlacesStayInStep`, `NobodyLost`: `TypeOK`, `PlacesAgree`,
  `EveryPlayerPlaced`.
- The argument: no lock guards `Object::room` and the maps together. At any time
  at most one operation is going to put a player into a room, as a queued job, a
  running one or the second half of a change (`OneEntry`), and meanwhile it is in
  no room (`Where`); only the handler of its own session takes it out of one
  (`Shape`), one packet at a time. `Placed` is what `EveryPlayerPlaced` says in
  these terms.
- `ClientsSeeTheirRoom`, `RelaysFindActors` (if `~MayReturn`, with or without
  overlap): `CalmViewsMatch` and `RelaysReachActors`.
- The argument: `CalmViewsMatch` speaks of rooms nobody is inside of, so the
  invariant says what holds meanwhile. `Sees` gives it for each place of an
  operation: a client shows those in its room except whom the operation has still
  to tell it of (`Unheard`), and besides them the one that left and of whose
  leaving it has still to hear (`Lingering`). That `S_SPAWN` is never ignored needs
  that nobody in the room was seen and destroyed before, and hence `Fresh`: whoever
  is going to be put into a room, by a queued job, a running one or the second half
  of a change, has never been there. While it is calm one operation at most is
  inside of a room (`OneInside`), so that nothing is told twice or in the wrong
  order, and the player it is about stays there (`Attended`). `Unseeing` is the
  other half, clients outside of rooms. A relay sends to those whose view `Sees`
  describes.

`ArenaProofs.tla` (for any clients, places, health and damage, any number of
shots):

- `TypeCorrect`, `PlayersPlacedAlike`, `HealthTheSame`: `TypeOK`,
  `PositionsAgree`, `HealthAgrees`. `TypeOK` types every variable, the packets
  under way in both directions included, and says besides that clients have pawns
  only of players in the room and that a pawn that runs has its destination as its
  goal or is there; for the latter the proof needs that arrivals are reported
  standing (`ToServer`, `Walker`).
- First, who is in the game: only those who entered are named in packets
  (`Present`), and a client that is sent a packet has pawns for those it names, or
  is sent them in a list before (`Known`), so that no packet is ignored for lack
  of a pawn. The latter is the theorem `NamedAreKnown`.
- Places: everything goes back to `asked[p]`, where the player was last sent
  (`Placement`). The last order under way to a client is that one (`Ordered`), and
  the own client, which takes no arrivals, goes there and stands nowhere else once
  it has it (`OwnPlaced`). The server and the other clients may be misled by an
  arrival or a shot from an earlier walk, but as long as no arrival was applied
  late that is put right by the own client's word, which is then still to come: an
  order it has not handled, the walk itself, or the report of the arrival (`Own`).
  `ServerPlaced`, `Placed` and `Shots` say so for the server, the clients, and the
  place that a shot carries. When all is settled no word is to come.
- Health: for each player there is a number of attacks, the same for all clients,
  that a client has taken or will take from its queue (`Taken`); what it has
  taken determines the health it shows (`HpAfter`, which stops at 0). A number
  that all share can be kept because the room broadcasts an attack to everybody in
  one job, and counts only those who were there for all of them (`missed`).

With these every invariant of a run that is expected to pass has a theorem, and
so have the refinements `ImplementsSerial`, `ImplementsChannel`, `KeepsFraming`
and `SendsInOrder`. Only model-checked is liveness, since TLAPS treats neither
fairness nor `ENABLED`: `EveryJobRuns`, `EveryBufferLeaves`, `EveryTickFires`,
`AllDelivered`, `ReleasedIsDestroyed`, `TrafficDiesOut`, and the fairness in
`ImplementsFraming` (its safety is `KeepsFraming` of `PacketStreamProofs`).

## Findings

1. **A header that arrives alone is lost** (`clientstream_cut`).
   `NetworkWorker.cpp` asks `HasPendingData` before the payload as well; when the
   TCP segment ends right after a header it returns false, the header is
   forgotten, and the payload is parsed as a header. From there on the client is
   out of step.
2. **A leave overtakes an entry** (`room_overlap`). `Handle_C_LEAVE_GAME` does not
   post its call. While the job of the player's entry is between `AddObject` and
   its broadcast, the handler removes the player and sends `S_DESPAWN`; the
   `S_SPAWN` that follows leaves the others with a player that is gone.
3. **A player that returns is invisible** (`room_return`). `HandleDespawn` does not
   remove the entry from `Players`, and `HandleSpawn` ignores who is there.
4. **A late arrival moves a player back** (`arena_late`). Every client reports the
   arrival of every pawn, and `Room::HandleMove` takes each report for the player's
   place. One from a client that lags behind is applied after the player has
   gone on: server and other clients move it back, while its own client ignores
   `S_MOVE` for its own pawn and shows it elsewhere from then on.

## Assumptions

- A `WSASend` or `WSARecv` that fails with anything but a reset, and a
  `DisconnectEx` that fails, are reported by `HandleError` or not at all and have
  no consequence. All of them occur in the runs. A history variable for each
  remembers it, and four properties except what happened to it: after such a
  `WSASend` (`ignored`) the stream has a gap (`NoGap`) and buffers are lost
  (`EveryBufferLeaves`); after such a `WSARecv` (`recvFailed`) the session has no
  receive (`NoDeafSession`); after a failed `DisconnectEx` (`discFailed`) it stays
  in the tables (`ClosingIsDriven`).
- `CutAfterHeader = FALSE` (`clientsession`), `calm` and `MayReturn = FALSE`
  (`room`), not `late` (`arena`) are what the properties need that the findings
  refute without them. Two are hypotheses of theorems: `~CutAfterHeader` of
  `SessionKeepsFraming` and `HeaderStaysInStep`, `~MayReturn` of
  `ClientsSeeTheirRoom` and `RelaysFindActors`; `calm` and `late` are part of the
  properties. All others hold without a hypothesis.
- A send of the client that fails loses its packet; bytes of it that are on the
  wire put the server out of step. `SendsInOrder` speaks of the other packets.
- A client acts for its player only once it has `S_ENTER_GAME` (`InRoom` in
  `Room`): the shipped client has no pawn to act with before; the handlers do not
  look.
- A bullet hits a target at most once (`hits` in `Arena`): a bound of the model,
  since `OnSphereOverlap` reports every overlap.
- Packets are well formed: the size field is that of `MakeSendBuffer`.
- Memory is sequentially consistent for atomics and for what a lock guards,
  which is what the code's default orderings give.
- Constants: the theorems assume what the modules' ASSUMEs say, among them that
  `None` is none of the program's objects (a player, a job, a timer item), that the
  pool is none of the sessions (`Room`), and `SizesAssumption`.
- The rooms exist before the first login (at start-up the workers run before
  the rooms are created, see the hazards).

## What is not modelled

- The accounts: `AuthenticateUser` returns true for everybody (the rest of it
  is unreachable), `RegisterUser` has no caller, and the pool of connections is
  used only there. A login is a choice.
- Start-up: the rooms exist from the initial state on, while in the code the
  workers run before the main thread creates them.
- Load: a worker that spends its 64 ms before `DoGlobalQueueWork` on every turn.
- Packets of 64 KiB and more, whose size field would be cut to 16 bits.
- What a thread does with a freed worker or a torn `unordered_map`.
- `ClientService` and `RegisterConnect` (no caller in the game server),
  `DeleteRoom`, monsters and chat (no behaviour), constructors, socket and address
  wrappers, byte buffers, packet tables, widgets, animation and input.
- Nearly all of the repository's lines are the vendored Protocol Buffers library,
  several times over, and code generated by it: messages are kept as the fields
  their handlers act on.

## Plan

Done, in this order: job queues, send path, session life, timer, packets at both
ends, rooms and clients, the client's session with its workers and teardown,
walking and combat; proofs of the safety of all of these, and that `JobQueue`,
`SendPath`, `PacketStream` and both directions of `ClientSession` implement their
abstract specifications.

Left:

1. `Startup`: workers against the creation of the rooms, in `Room.tla`.
2. The safety behind `TrafficDiesOut`: a bound on the packets that one walk makes.
