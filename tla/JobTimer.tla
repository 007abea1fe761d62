------------------------------ MODULE JobTimer ------------------------------
(***************************************************************************)
(* Server/Core/JobTimer and the periodic tick of a room: UpdateAllRooms    *)
(* posts UpdateTick on the room's queue, and UpdateTick books itself with  *)
(* the timer again (DoTimer), so that each post starts a chain of its own. *)
(* Workers call DistributeReservedJobs on every turn; the flag             *)
(* _distributing lets one of them through.                                 *)
(*                                                                         *)
(* The room's queue is used as what JobQueue.tla shows it to be: a serial  *)
(* executor.  That Push may execute the job on the spot is the case of a   *)
(* tick that runs right after it was pushed.                               *)
(***************************************************************************)
EXTENDS Naturals, Sequences, FiniteSets, SequencesExt

CONSTANTS Workers, Runners,  \* Runners: threads that may run the room's jobs
          Chains,   \* the ticks posted by UpdateAllRooms: bounds their number
          Delay,    \* the argument of DoTimer
          MaxNow,   \* the last value of the clock in a model
          None

Threads == Workers \cup Runners

Item == [executeTick : 0 .. (MaxNow + Delay), job : Chains]

ASSUME DelayAssumption == Delay \in Nat /\ MaxNow \in Nat
ASSUME NoneAssumption == None \notin Item

VARIABLES now,           \* GetTickCount64
          items,         \* _items of the timer
          distributing,  \* _distributing
          queue,         \* the room's jobs, pushed and not yet run
          pc,
          asked,         \* the time a worker passed to Distribute
          due,           \* the items a distributing worker still has to push
          booking,       \* the item a thread is about to put in the timer
          posted         \* history: the chains that were started

vars == <<now, items, distributing, queue, pc, asked, due, booking, posted>>

PCs == {"idle", "exchange", "collect", "push", "reserve"}

Init == /\ now = 0
        /\ items = {}
        /\ distributing = FALSE
        /\ queue = << >>
        /\ pc = [t \in Threads |-> "idle"]
        /\ asked = [t \in Threads |-> 0]
        /\ due = [t \in Threads |-> << >>]
        /\ booking = [t \in Threads |-> None]
        /\ posted = {}

Goto(t, p) == pc' = [pc EXCEPT ![t] = p]

Tick == /\ now < MaxNow
        /\ now' = now + 1
        /\ UNCHANGED <<items, distributing, queue, pc, asked, due, booking, posted>>

-----------------------------------------------------------------------------
(* The room: UpdateAllRooms, UpdateTick, DoTimer *)

Post(c) == /\ c \notin posted
           /\ posted' = posted \cup {c}
           /\ queue' = Append(queue, c)
           /\ UNCHANGED <<now, items, distributing, pc, asked, due, booking>>

\* UpdateTick up to Reserve's reading of the clock; one job of the room at a
\* time.  (No tick is booked beyond the clock of the model.)
UpdateTick(t) ==
    /\ pc[t] = "idle"
    /\ \A u \in Threads : pc[u] # "reserve"
    /\ queue # << >>
    /\ now + Delay <= MaxNow
    /\ booking' = [booking EXCEPT ![t] = [executeTick |-> now + Delay, job |-> Head(queue)]]
    /\ queue' = Tail(queue)
    /\ Goto(t, "reserve")
    /\ UNCHANGED <<now, items, distributing, asked, due, posted>>

Reserve(t) ==
    /\ pc[t] = "reserve"
    /\ items' = items \cup {booking[t]}
    /\ booking' = [booking EXCEPT ![t] = None]
    /\ Goto(t, "idle")
    /\ UNCHANGED <<now, distributing, queue, asked, due, posted>>

-----------------------------------------------------------------------------
(* ThreadManager::DistributeReservedJobs, JobTimer::Distribute *)

ReadClock(w) ==
    /\ pc[w] = "idle"
    /\ asked' = [asked EXCEPT ![w] = now]
    /\ Goto(w, "exchange")
    /\ UNCHANGED <<now, items, distributing, queue, due, booking, posted>>

\* Fault: the flag is read and then written.
ExchangeUntested(w) ==
    /\ pc[w] = "exchange"
    /\ distributing' = TRUE
    /\ Goto(w, "collect")
    /\ UNCHANGED <<now, items, queue, asked, due, booking, posted>>

Exchange(w) ==
    /\ pc[w] = "exchange"
    /\ distributing' = TRUE
    /\ Goto(w, IF distributing THEN "idle" ELSE "collect")
    /\ UNCHANGED <<now, items, queue, asked, due, booking, posted>>

\* Under the lock, the due items in the order of executeTick; the heap gives
\* items of one time in any order.
InOrder(s) == \A i, k \in DOMAIN s : i < k => s[i].executeTick <= s[k].executeTick

\* Fault: an item is copied out of the heap and not popped.
CollectCopy(w) ==
    LET ready == {i \in items : i.executeTick <= asked[w]} IN
    /\ pc[w] = "collect"
    /\ \E s \in SetToSeqs(ready) : InOrder(s) /\ due' = [due EXCEPT ![w] = s]
    /\ Goto(w, "push")
    /\ UNCHANGED <<now, items, distributing, queue, asked, booking, posted>>

Collect(w) ==
    LET ready == {i \in items : i.executeTick <= asked[w]} IN
    /\ pc[w] = "collect"
    /\ \E s \in SetToSeqs(ready) : InOrder(s) /\ due' = [due EXCEPT ![w] = s]
    /\ items' = items \ ready
    /\ Goto(w, "push")
    /\ UNCHANGED <<now, distributing, queue, asked, booking, posted>>

\* owner->Push of the next item.
PushDue(w) ==
    /\ pc[w] = "push"
    /\ due[w] # << >>
    /\ queue' = Append(queue, Head(due[w]).job)
    /\ due' = [due EXCEPT ![w] = Tail(@)]
    /\ UNCHANGED <<now, items, distributing, pc, asked, booking, posted>>

\* Fault: the loop ends after the first item.
ReleaseFirst(w) ==
    /\ pc[w] = "push"
    /\ distributing' = FALSE
    /\ Goto(w, "idle")
    /\ UNCHANGED <<now, items, queue, asked, due, booking, posted>>

\* Fault: the flag stays set when the clock moved during the work.
ReleaseBusy(w) ==
    /\ pc[w] = "push"
    /\ due[w] = << >>
    /\ distributing' = (asked[w] < now)
    /\ Goto(w, "idle")
    /\ UNCHANGED <<now, items, queue, asked, due, booking, posted>>

Release(w) ==
    /\ pc[w] = "push"
    /\ due[w] = << >>
    /\ distributing' = FALSE
    /\ Goto(w, "idle")
    /\ UNCHANGED <<now, items, queue, asked, due, booking, posted>>

Distribute(w) == ReadClock(w) \/ Exchange(w) \/ Collect(w) \/ PushDue(w) \/ Release(w)

Next == \/ Tick
        \/ \E c \in Chains : Post(c)
        \/ \E t \in Threads : UpdateTick(t) \/ Reserve(t)
        \/ \E w \in Workers : Distribute(w)

Spec == Init /\ [][Next]_vars

\* Time passes, the room's jobs run, and the workers go round their loop.
FairSpec == /\ Spec
            /\ WF_vars(Tick)
            /\ WF_vars(\E t \in Threads : UpdateTick(t))
            /\ \A t \in Threads : WF_vars(Reserve(t))
            /\ \A w \in Workers : WF_vars(Distribute(w))

-----------------------------------------------------------------------------
(* Properties *)

\* Types, and what a thread's place says of its local variables.
TypeOK == /\ now \in 0 .. MaxNow
          /\ items \subseteq Item
          /\ distributing \in BOOLEAN
          /\ queue \in Seq(Chains)
          /\ pc \in [Threads -> PCs]
          /\ asked \in [Threads -> 0 .. MaxNow]
          /\ due \in [Threads -> Seq(Item)]
          /\ booking \in [Threads -> Item \cup {None}]
          /\ posted \subseteq Chains
          /\ \A t \in Threads : /\ booking[t] # None <=> pc[t] = "reserve"
                                /\ due[t] # << >> => pc[t] = "push"

Distributing(w) == pc[w] \in {"collect", "push"}

\* "Only one thread at a time passes" (the comment in Distribute), and the
\* flag is set exactly as long, so that it never stays set behind it.
OneDistributor ==
    /\ \A v, w \in Threads : Distributing(v) /\ Distributing(w) => v = w
    /\ distributing <=> \E w \in Threads : Distributing(w)

\* The places a chain's next tick is in: the timer, the queue, a thread that
\* books it, a distributor that has still to push it.
Places(c) ==
    {<<"timer", i>> : i \in {i \in items : i.job = c}}
    \cup {<<"queue", i>> : i \in {i \in DOMAIN queue : queue[i] = c}}
    \cup {<<"booking", t>> : t \in {t \in Threads : booking[t] # None /\ booking[t].job = c}}
    \cup UNION {{<<"due", w, i>> : i \in {i \in DOMAIN due[w] : due[w][i].job = c}} : w \in Threads}

\* A tick is neither lost nor doubled on its way through queue, timer and
\* distributor.  The other side of it: nothing ever ends a chain, so every
\* post of UpdateAllRooms adds one more tick per period, for ever.
ChainsConserved == \A c \in posted : Cardinality(Places(c)) = 1

\* A booked tick comes due and reaches the room.
EveryTickFires ==
    \A i \in [executeTick : 0 .. MaxNow, job : Chains] :
        i \in items ~> i.job \in ToSet(queue)
=============================================================================
