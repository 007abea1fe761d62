------------------------------ MODULE JobQueue ------------------------------
(***************************************************************************)
(* Server/Core/JobQueue, GlobalQueue, LockQueue and                        *)
(* ThreadManager::DoGlobalQueueWork: jobs posted on a queue run on         *)
(* whatever thread finds the queue idle; the queue migrates between        *)
(* threads through the global queue.                                       *)
(*                                                                         *)
(* One action per access to shared memory: the atomic counter _jobCount,   *)
(* the locked _jobs of a queue and the locked GGlobalQueue.  The local     *)
(* steps that follow an access are part of it.  The clock is not           *)
(* modelled: a comparison with LEndTickCount may come out either way,      *)
(* except on a thread that never sets LEndTickCount (it stays 0).          *)
(***************************************************************************)
EXTENDS Integers, Sequences, FiniteSets

CONSTANTS Workers,  \* the IOCP workers: they run DoWorkerJob for ever
          Posters,  \* other threads that post jobs (UpdateAllRooms): no loop
          Queues,   \* the JobQueue objects (the rooms)
          Jobs,     \* the jobs posted; the bound of a model is its size
          Home,     \* Home[j]: the queue that job j is posted on
          None      \* nullptr, for thread-local pointers

Threads == Workers \cup Posters

ASSUME ThreadsAssumption == IsFiniteSet(Threads)
ASSUME HomeAssumption == Home \in [Jobs -> Queues]
ASSUME NoneAssumption == None \notin Queues /\ None \notin Jobs

VARIABLES jobCount,     \* _jobCount of each queue
          jobs,         \* _jobs of each queue: the locked FIFO
          globalQueue,  \* GGlobalQueue: queues that wait for a worker
          current,      \* LCurrentJobQueue of each thread
          pc,           \* the next shared access of each thread
          arg,          \* the job a thread is inside Push with
          prev,         \* prevCount of that Push
          batch,        \* `jobs' of Execute: what is left of it to run
          taken,        \* jobCount of Execute: the size of that vector
          handed,       \* the queue a thread is about to put on GGlobalQueue
          caller,       \* where the thread goes on when Execute returns
          posted,       \* the jobs some Push was called with
          done          \* history: jobs of each queue in execution order

shared  == <<jobCount, jobs, globalQueue>>
local   == <<current, pc, arg, prev, batch, taken, handed, caller>>
history == <<posted, done>>
vars    == <<shared, local, history>>

PCs == {"idle",     \* outside of the job system: packet handlers, timer
        "enqueue",  \* in Push, after fetch_add
        "hand",     \* about to call GGlobalQueue->Push
        "popAll",   \* Execute: head of its while loop
        "next",     \* Execute: head of its for loop
        "run",      \* Execute: in the body of a job
        "sub",      \* Execute: about to call fetch_sub
        "time",     \* Execute: comparing the time with LEndTickCount
        "global"}   \* DoGlobalQueueWork: head of its loop

Init == /\ jobCount    = [q \in Queues |-> 0]
        /\ jobs        = [q \in Queues |-> << >>]
        /\ globalQueue = << >>
        /\ current     = [t \in Threads |-> None]
        /\ pc          = [t \in Threads |-> "idle"]
        /\ arg         = [t \in Threads |-> None]
        /\ prev        = [t \in Threads |-> 0]
        /\ batch       = [t \in Threads |-> << >>]
        /\ taken       = [t \in Threads |-> 0]
        /\ handed      = [t \in Threads |-> None]
        /\ caller      = [t \in Threads |-> "idle"]
        /\ posted      = {}
        /\ done        = [q \in Queues |-> << >>]

-----------------------------------------------------------------------------
(* JobQueue::Push *)

\* A thread posts a job, from a handler or from the body of another job:
\* DoAsync makes the job, Push starts with fetch_add on _jobCount.
PushCount(t, j) ==
    LET q == Home[j] IN
    /\ pc[t] \in {"idle", "run"}
    /\ j \notin posted
    /\ prev' = [prev EXCEPT ![t] = jobCount[q]]
    /\ jobCount' = [jobCount EXCEPT ![q] = @ + 1]
    /\ arg' = [arg EXCEPT ![t] = j]
    /\ posted' = posted \cup {j}
    /\ pc' = [pc EXCEPT ![t] = "enqueue"]
    /\ UNCHANGED <<jobs, globalQueue, current, batch, taken, handed, caller, done>>

\* _jobs.Push, and then what its poster does with the queue: leave it to the
\* thread that already has it, execute it here, or hand it to the workers
\* (when this Push is called by a job, LCurrentJobQueue is set).
PushEnqueue(t) ==
    LET q == Home[arg[t]] IN
    /\ pc[t] = "enqueue"
    /\ jobs' = [jobs EXCEPT ![q] = Append(@, arg[t])]
    /\ arg' = [arg EXCEPT ![t] = None]
    /\ \/ /\ prev[t] # 0
          /\ pc' = [pc EXCEPT ![t] = IF current[t] = None THEN "idle" ELSE "run"]
          /\ UNCHANGED <<current, handed, caller>>
       \/ /\ prev[t] = 0
          /\ current[t] = None
          /\ pc' = [pc EXCEPT ![t] = "popAll"]
          /\ current' = [current EXCEPT ![t] = q]
          /\ caller' = [caller EXCEPT ![t] = "idle"]
          /\ UNCHANGED handed
       \/ /\ prev[t] = 0
          /\ current[t] # None
          /\ pc' = [pc EXCEPT ![t] = "hand"]
          /\ handed' = [handed EXCEPT ![t] = q]
          /\ UNCHANGED <<current, caller>>
    /\ prev' = [prev EXCEPT ![t] = 0]
    /\ UNCHANGED <<jobCount, globalQueue, batch, taken, posted, done>>

\* Fault: a queue that is handed over twice is queued twice, as when both
\* Push and Execute think it is theirs to hand.
GlobalPushTwice(t) ==
    /\ pc[t] = "hand"
    /\ globalQueue' = globalQueue \o <<handed[t], handed[t]>>
    /\ handed' = [handed EXCEPT ![t] = None]
    /\ pc' = [pc EXCEPT ![t] = IF current[t] = None THEN caller[t] ELSE "run"]
    /\ UNCHANGED <<jobCount, jobs, current, arg, prev, batch, taken, caller, history>>

\* GGlobalQueue->Push, called by Push (inside of a job) and by Execute (out
\* of time, LCurrentJobQueue already cleared).
GlobalPush(t) ==
    /\ pc[t] = "hand"
    /\ globalQueue' = Append(globalQueue, handed[t])
    /\ handed' = [handed EXCEPT ![t] = None]
    /\ pc' = [pc EXCEPT ![t] = IF current[t] = None THEN caller[t] ELSE "run"]
    /\ UNCHANGED <<jobCount, jobs, current, arg, prev, batch, taken, caller, history>>

-----------------------------------------------------------------------------
(* JobQueue::Execute *)

PopAll(t) ==
    LET q == current[t] IN
    /\ pc[t] = "popAll"
    /\ batch' = [batch EXCEPT ![t] = jobs[q]]
    /\ taken' = [taken EXCEPT ![t] = Len(jobs[q])]
    /\ jobs' = [jobs EXCEPT ![q] = << >>]
    /\ pc' = [pc EXCEPT ![t] = "next"]
    /\ UNCHANGED <<jobCount, globalQueue, current, arg, prev, handed, caller, history>>

StartJob(t) ==
    /\ pc[t] = "next"
    /\ pc' = [pc EXCEPT ![t] = IF batch[t] = << >> THEN "sub" ELSE "run"]
    /\ UNCHANGED <<shared, current, arg, prev, batch, taken, handed, caller, history>>

FinishJob(t) ==
    /\ pc[t] = "run"
    /\ done' = [done EXCEPT ![current[t]] = Append(@, Head(batch[t]))]
    /\ batch' = [batch EXCEPT ![t] = Tail(@)]
    /\ pc' = [pc EXCEPT ![t] = "next"]
    /\ UNCHANGED <<shared, current, arg, prev, taken, handed, caller, posted>>

\* Fault: one is subtracted for the whole batch.
FetchSubOne(t) ==
    LET q == current[t] IN
    /\ pc[t] = "sub"
    /\ jobCount' = [jobCount EXCEPT ![q] = @ - 1]
    /\ taken' = [taken EXCEPT ![t] = 0]
    /\ IF jobCount[q] = 1
       THEN /\ current' = [current EXCEPT ![t] = None]
            /\ pc' = [pc EXCEPT ![t] = caller[t]]
       ELSE /\ pc' = [pc EXCEPT ![t] = "time"]
            /\ UNCHANGED current
    /\ UNCHANGED <<jobs, globalQueue, arg, prev, batch, handed, caller, history>>

\* Fault: the counter is cleared and the batch then subtracted from it.
FetchSubCleared(t) ==
    LET q == current[t] IN
    /\ pc[t] = "sub"
    /\ jobCount' = [jobCount EXCEPT ![q] = 0 - taken[t]]
    /\ taken' = [taken EXCEPT ![t] = 0]
    /\ current' = [current EXCEPT ![t] = None]
    /\ pc' = [pc EXCEPT ![t] = caller[t]]
    /\ UNCHANGED <<jobs, globalQueue, arg, prev, batch, handed, caller, history>>

\* Fault: the queue is released after every batch, whatever the counter says.
FetchSubLeave(t) ==
    /\ pc[t] = "sub"
    /\ jobCount' = [jobCount EXCEPT ![current[t]] = @ - taken[t]]
    /\ taken' = [taken EXCEPT ![t] = 0]
    /\ current' = [current EXCEPT ![t] = None]
    /\ pc' = [pc EXCEPT ![t] = caller[t]]
    /\ UNCHANGED <<jobs, globalQueue, arg, prev, batch, handed, caller, history>>

\* _jobCount.fetch_sub: the thread keeps the queue unless the counter shows
\* that nobody posted since PopAll.
FetchSub(t) ==
    LET q == current[t] IN
    /\ pc[t] = "sub"
    /\ jobCount' = [jobCount EXCEPT ![q] = @ - taken[t]]
    /\ taken' = [taken EXCEPT ![t] = 0]
    /\ \/ /\ jobCount[q] = taken[t]
          /\ current' = [current EXCEPT ![t] = None]
          /\ pc' = [pc EXCEPT ![t] = caller[t]]
       \/ /\ jobCount[q] # taken[t]
          /\ pc' = [pc EXCEPT ![t] = "time"]
          /\ UNCHANGED current
    /\ UNCHANGED <<jobs, globalQueue, arg, prev, batch, handed, caller, history>>

TimeLeft(t) ==
    /\ pc[t] = "time"
    /\ t \in Workers
    /\ pc' = [pc EXCEPT ![t] = "popAll"]
    /\ UNCHANGED <<shared, current, arg, prev, batch, taken, handed, caller, history>>

\* Fault: out of time, Execute returns and hands the queue to nobody.
TimeUpLost(t) ==
    /\ pc[t] = "time"
    /\ current' = [current EXCEPT ![t] = None]
    /\ pc' = [pc EXCEPT ![t] = caller[t]]
    /\ UNCHANGED <<shared, arg, prev, batch, taken, handed, caller, history>>

\* Fault: out of time, the jobs of the last batch are taken as not run.
TimeUpAgain(t) ==
    LET q == current[t] IN
    /\ pc[t] = "time"
    /\ jobs' = [jobs EXCEPT ![q] = SubSeq(done[q], Len(done[q]), Len(done[q])) \o @]
    /\ handed' = [handed EXCEPT ![t] = q]
    /\ current' = [current EXCEPT ![t] = None]
    /\ pc' = [pc EXCEPT ![t] = "hand"]
    /\ UNCHANGED <<jobCount, globalQueue, arg, prev, batch, taken, caller, history>>

TimeUp(t) ==
    /\ pc[t] = "time"
    /\ handed' = [handed EXCEPT ![t] = current[t]]
    /\ current' = [current EXCEPT ![t] = None]
    /\ pc' = [pc EXCEPT ![t] = "hand"]
    /\ UNCHANGED <<shared, arg, prev, batch, taken, caller, history>>

-----------------------------------------------------------------------------
(* ThreadManager::DoGlobalQueueWork, called once per turn of DoWorkerJob *)

GlobalBegin(w) ==
    /\ pc[w] = "idle"
    /\ pc' = [pc EXCEPT ![w] = "global"]
    /\ UNCHANGED <<shared, current, arg, prev, batch, taken, handed, caller, history>>

GlobalPop(w) ==
    /\ pc[w] = "global"
    /\ globalQueue # << >>
    /\ current' = [current EXCEPT ![w] = Head(globalQueue)]
    /\ globalQueue' = Tail(globalQueue)
    /\ caller' = [caller EXCEPT ![w] = "global"]
    /\ pc' = [pc EXCEPT ![w] = "popAll"]
    /\ UNCHANGED <<jobCount, jobs, arg, prev, batch, taken, handed, history>>

\* The time is over, or Pop returned nullptr.
GlobalStop(w) ==
    /\ pc[w] = "global"
    /\ pc' = [pc EXCEPT ![w] = "idle"]
    /\ UNCHANGED <<shared, current, arg, prev, batch, taken, handed, caller, history>>

-----------------------------------------------------------------------------
\* The steps a thread takes without waiting for a reason to.
Step(t) == \/ PushEnqueue(t) \/ GlobalPush(t)
           \/ PopAll(t) \/ StartJob(t) \/ FinishJob(t)
           \/ FetchSub(t) \/ TimeLeft(t) \/ TimeUp(t)

Next == \/ \E t \in Threads : (\E j \in Jobs : PushCount(t, j)) \/ Step(t)
        \/ \E w \in Workers : GlobalBegin(w) \/ GlobalPop(w) \/ GlobalStop(w)

Spec == Init /\ [][Next]_vars

\* Threads are scheduled and jobs end (Step, GlobalBegin); a worker that is
\* again and again in DoGlobalQueueWork with a queue waiting gets there with
\* time left once in a while (GlobalPop).  Nobody has to post a job.
FairSpec == /\ Spec
            /\ \A t \in Threads : WF_vars(Step(t))
            /\ \A w \in Workers : WF_vars(GlobalBegin(w)) /\ SF_vars(GlobalPop(w))

-----------------------------------------------------------------------------
(* Properties *)

TypeOK ==
    /\ jobCount \in [Queues -> Nat]
    /\ jobs \in [Queues -> Seq(Jobs)]
    /\ globalQueue \in Seq(Queues)
    /\ current \in [Threads -> Queues \cup {None}]
    /\ pc \in [Threads -> PCs]
    /\ arg \in [Threads -> Jobs \cup {None}]
    /\ prev \in [Threads -> Nat]
    /\ batch \in [Threads -> Seq(Jobs)]
    /\ taken \in [Threads -> Nat]
    /\ handed \in [Threads -> Queues \cup {None}]
    /\ caller \in [Threads -> {"idle", "global"}]
    /\ posted \in SUBSET Jobs
    /\ done \in [Queues -> Seq(Jobs)]

Executing(t, q) == current[t] = q

InJob(t) == current[t] # None /\ pc[t] \in {"run", "enqueue", "hand"}

\* Threads between fetch_add and _jobs.Push: counted, not yet in the queue.
Pushers(q) == {t \in Threads : pc[t] = "enqueue" /\ Home[arg[t]] = q}

\* Mutual exclusion: two threads never execute one queue at the same time,
\* although Execute takes no lock.  This is what lets a Room keep its
\* _objects without one.  (JobQueue::Push and Execute)
MutualExclusion ==
    \A t, u \in Threads, q \in Queues :
        Executing(t, q) /\ Executing(u, q) => t = u

\* The four places where the right to execute a queue can be.
Claim(t, q) == \/ pc[t] = "enqueue" /\ Home[arg[t]] = q /\ prev[t] = 0
               \/ current[t] = q
               \/ handed[t] = q

Waits(i, q) == globalQueue[i] = q

OwnedOnce(q) ==
    /\ \A t, u \in Threads : Claim(t, q) /\ Claim(u, q) => t = u
    /\ \A i, k \in DOMAIN globalQueue : Waits(i, q) /\ Waits(k, q) => i = k
    /\ (\E t \in Threads : Claim(t, q)) => \A i \in DOMAIN globalQueue : ~Waits(i, q)
    /\ jobCount[q] > 0 <=> \/ \E t \in Threads : Claim(t, q)
                           \/ \E i \in DOMAIN globalQueue : Waits(i, q)

\* A queue is in one thread's hands, or in GGlobalQueue once, or idle; it is
\* idle exactly when its counter is 0, so that the next Push takes it.  A
\* queue lost with jobs in it would stay silent for ever, a queue held twice
\* would run on two threads.  (the test prevCount == 0, the test of
\* fetch_sub, and every GGlobalQueue->Push)
OneOwner == \A q \in Queues : OwnedOnce(q)

Counted(q) ==
    /\ \A t \in Threads : Executing(t, q) =>
           jobCount[q] = Len(jobs[q]) + Cardinality(Pushers(q)) + taken[t]
    /\ (\A t \in Threads : ~Executing(t, q)) =>
           jobCount[q] = Len(jobs[q]) + Cardinality(Pushers(q))

\* _jobCount counts what is queued, what a poster counted and has still to
\* enqueue, and what the executor took and has still to subtract, and
\* nothing else.  (fetch_add before _jobs.Push, fetch_sub after the batch)
CountExact == \A q \in Queues : Counted(q)

\* A job that was posted runs, whatever thread its poster is and whatever
\* the workers are doing.  (no Push may find the queue taken by a thread that
\* is about to leave it)
EveryJobRuns ==
    \A j \in Jobs :
        j \in posted ~> \E i \in DOMAIN done[Home[j]] : done[Home[j]][i] = j

-----------------------------------------------------------------------------
(* JobQueue implements SerialExecutor *)

ExecutorOf(q) == {t \in Threads : Executing(t, q)}

BatchOf(q) == IF ExecutorOf(q) = {} THEN << >>
              ELSE batch[CHOOSE t \in Threads : Executing(t, q)]

RunningJob(q) == IF \E t \in ExecutorOf(q) : InJob(t) THEN Head(BatchOf(q)) ELSE None

WaitingJobs(q) == (IF RunningJob(q) = None THEN BatchOf(q) ELSE Tail(BatchOf(q)))
                  \o jobs[q]

Serial == INSTANCE SerialExecutor WITH
              NoJob   <- None,
              pending <- [q \in Queues |-> WaitingJobs(q)],
              running <- [q \in Queues |-> RunningJob(q)]

\* Whatever the threads do, a queue looks like a serial executor to those
\* who post on it: one job at a time, each once, in order.  (Push, Execute
\* and DoGlobalQueueWork together)
ImplementsSerial == Serial!Spec
=============================================================================
