--------------------------- MODULE JobQueueProofs ---------------------------
(***************************************************************************)
(* Proofs about JobQueue for any threads, queues and jobs: type            *)
(* correctness, the exact counter, one owner per queue, from it mutual     *)
(* exclusion (the inductive invariant is IInv), and that every queue is a  *)
(* serial executor (RInv, with IInv and with OncePosted: what a poster is  *)
(* about to queue was not queued before).                                  *)
(***************************************************************************)
EXTENDS JobQueue, FiniteSetTheorems, SequenceTheorems, TLAPS

\* What pc says of the other thread-local variables.
LocalAt(t) ==
    /\ pc[t] = "enqueue" <=> arg[t] # None
    /\ pc[t] = "hand" <=> handed[t] # None
    /\ pc[t] \in {"idle", "global"} => current[t] = None
    /\ pc[t] \in {"popAll", "next", "run", "sub", "time"} => current[t] # None
    /\ pc[t] = "run" => batch[t] # << >>
    /\ pc[t] \in {"enqueue", "hand"} /\ current[t] # None => batch[t] # << >>
    /\ pc[t] \in {"popAll", "time"} => taken[t] = 0
    /\ current[t] = None => taken[t] = 0

LocalOK == \A t \in Threads : LocalAt(t)

\* A thread never holds a queue in two of its pointers at once.
OneClaim ==
    \A t \in Threads, q \in Queues :
        current[t] = q => /\ handed[t] # q
                          /\ ~(pc[t] = "enqueue" /\ Home[arg[t]] = q /\ prev[t] = 0)

IInv == TypeOK /\ LocalOK /\ OneClaim /\ OneOwner /\ CountExact

-----------------------------------------------------------------------------
LEMMA PushersFinite ==
    ASSUME NEW q \in Queues
    PROVE  IsFiniteSet(Pushers(q)) /\ Cardinality(Pushers(q)) \in Nat
  BY ThreadsAssumption, FS_Subset, FS_CardinalityType DEF Pushers

THEOREM InitIInv == Init => IInv
  <1> SUFFICES ASSUME Init PROVE IInv
    OBVIOUS
  <1> USE DEF Init
  <1>1. TypeOK
    BY DEF TypeOK, PCs
  <1>2. LocalOK
    BY DEF LocalOK, LocalAt
  <1>3. OneClaim
    BY NoneAssumption DEF OneClaim
  <1>4. OneOwner
    BY NoneAssumption DEF OneOwner, OwnedOnce, Claim, Waits
  <1>5. CountExact
    <2> SUFFICES ASSUME NEW q \in Queues
                 PROVE  /\ \A t \in Threads : ~Executing(t, q)
                        /\ jobCount[q] = Len(jobs[q]) + Cardinality(Pushers(q))
      BY DEF CountExact, Counted
    <2>1. \A t \in Threads : ~Executing(t, q)
      BY NoneAssumption DEF Executing
    <2>2. Pushers(q) = {}
      BY DEF Pushers
    <2>3. Cardinality(Pushers(q)) = 0
      BY <2>2, FS_EmptySet
    <2> QED
      BY <2>1, <2>3
  <1> QED
    BY <1>1, <1>2, <1>3, <1>4, <1>5 DEF IInv

-----------------------------------------------------------------------------
\* A queue keeps its owner when its counter stays positive or zero, the
\* global queue stays, and the threads keep their claims.
LEMMA OwnedFrame ==
    ASSUME NEW r \in Queues, OwnedOnce(r),
           (jobCount'[r] > 0) <=> (jobCount[r] > 0),
           globalQueue' = globalQueue,
           \A u \in Threads : Claim(u, r)' <=> Claim(u, r)
    PROVE  OwnedOnce(r)'
  BY DEF OwnedOnce, Waits

\* The counter stays exact when nothing it depends on changes.
LEMMA CountedFrame ==
    ASSUME NEW r \in Queues, Counted(r),
           jobCount'[r] = jobCount[r], jobs'[r] = jobs[r],
           Pushers(r)' = Pushers(r),
           \A u \in Threads : Executing(u, r)' <=> Executing(u, r),
           \A u \in Threads : Executing(u, r) => taken'[u] = taken[u]
    PROVE  Counted(r)'
  BY DEF Counted

\* What Counted gives about natural numbers.
LEMMA CountedTypes ==
    ASSUME TypeOK, NEW r \in Queues
    PROVE  /\ jobCount[r] \in Nat /\ jobs[r] \in Seq(Jobs) /\ Len(jobs[r]) \in Nat
           /\ Cardinality(Pushers(r)) \in Nat
           /\ \A u \in Threads : taken[u] \in Nat
  BY PushersFinite DEF TypeOK

\* Steps that only move a thread's pc, away from and to places outside Push.
LEMMA PrivateStep ==
    ASSUME IInv, NEW t \in Threads, NEW p \in PCs \ {"enqueue"},
           pc[t] # "enqueue", pc' = [pc EXCEPT ![t] = p],
           UNCHANGED <<shared, current, arg, prev, taken, handed>>
    PROVE  OneClaim' /\ OneOwner' /\ CountExact'
  <1> USE DEF IInv, shared
  <1>1. \A u \in Threads : pc'[u] = "enqueue" <=> pc[u] = "enqueue"
    BY DEF TypeOK
  <1>2. OneClaim'
    BY <1>1 DEF OneClaim
  <1>3. \A u \in Threads, r \in Queues : Claim(u, r)' <=> Claim(u, r)
    BY <1>1 DEF Claim
  <1>4. OneOwner'
    BY <1>3, OwnedFrame DEF OneOwner
  <1>5. \A r \in Queues : Pushers(r)' = Pushers(r)
    BY <1>1 DEF Pushers
  <1>6. CountExact'
    BY <1>5, CountedFrame DEF CountExact, Executing
  <1> QED
    BY <1>2, <1>4, <1>6

\* Where the one is added does not matter.
LEMMA OneMore ==
    ASSUME NEW a \in Nat, NEW b \in Nat, NEW n \in Nat
    PROVE  a + b + n + 1 = a + (b + 1) + n
  OBVIOUS

LEMMA PushCountIInv ==
    ASSUME IInv, NEW t \in Threads, NEW j \in Jobs, PushCount(t, j)
    PROVE  IInv'
  <1> DEFINE q == Home[j]
  <1> USE DEF IInv, PushCount
  <1>0. q \in Queues /\ jobCount[q] \in Nat /\ j # None
    BY HomeAssumption, NoneAssumption DEF TypeOK
  <1>1. TypeOK'
    BY <1>0, SMTT(30) DEF TypeOK, PCs
  <1>2. LocalOK'
    BY <1>0 DEF TypeOK, LocalOK, LocalAt
  <1>3. ASSUME NEW u \in Threads, NEW r \in Queues
        PROVE  Claim(u, r)' <=> Claim(u, r) \/ (u = t /\ r = q /\ jobCount[q] = 0)
    BY <1>0 DEF TypeOK, LocalOK, LocalAt, Claim
  <1>4. OneClaim'
    <2> SUFFICES ASSUME NEW u \in Threads, NEW r \in Queues, (current[u] = r)'
                 PROVE  /\ (handed[u] # r)'
                        /\ ~(pc[u] = "enqueue" /\ Home[arg[u]] = r /\ prev[u] = 0)'
      BY DEF OneClaim
    <2>1. current[u] = r /\ handed[u] # r /\ (handed[u] # r)'
      BY DEF OneClaim
    <2>2. jobCount[r] # 0
      <3>1. Claim(u, r) /\ OwnedOnce(r) /\ jobCount[r] \in Nat
        BY <2>1 DEF OneOwner, Claim, TypeOK
      <3> QED
        BY <3>1 DEF OwnedOnce
    <2>3. CASE u = t
      <3>1. CASE r = q
        BY <2>2, <2>3, <3>1, <1>0, <2>1 DEF TypeOK
      <3>2. CASE r # q
        BY <2>3, <3>2, <1>0, <2>1 DEF TypeOK
      <3> QED
        BY <3>1, <3>2
    <2>4. CASE u # t
      BY <2>1, <2>4, <1>0 DEF OneClaim, TypeOK
    <2> QED
      BY <2>3, <2>4
  <1>5. OneOwner'
    <2> SUFFICES ASSUME NEW r \in Queues PROVE OwnedOnce(r)'
      BY DEF OneOwner
    <2>1. OwnedOnce(r) /\ jobCount[r] \in Nat
      BY DEF OneOwner, TypeOK
    <2>2. CASE r # q
      <3>1. jobCount'[r] = jobCount[r]
        BY <1>0, <2>2 DEF TypeOK
      <3> QED
        BY <1>3, <2>1, <2>2, <3>1 DEF OwnedOnce, Waits
    <2>3. CASE r = q
      <3>1. jobCount'[r] = jobCount[r] + 1
        BY <1>0, <2>3 DEF TypeOK
      <3> QED
        BY <1>3, <2>1, <2>3, <3>1 DEF OwnedOnce, Waits
    <2> QED
      BY <2>2, <2>3
  <1>6. CountExact'
    <2> SUFFICES ASSUME NEW r \in Queues PROVE Counted(r)'
      BY DEF CountExact
    <2>1. /\ Counted(r) /\ jobCount[r] \in Nat /\ Len(jobs[r]) \in Nat
          /\ \A u \in Threads : taken[u] \in Nat
      BY DEF CountExact, TypeOK
    <2>2. Cardinality(Pushers(r)) \in Nat
      BY PushersFinite
    <2>3. CASE r # q
      <3>1. Pushers(r)' = Pushers(r) /\ jobCount'[r] = jobCount[r]
        BY <1>0, <2>3 DEF TypeOK, Pushers
      <3> QED
        BY <2>1, <3>1 DEF Counted, Executing
    <2>4. CASE r = q
      <3>1. Pushers(r)' = Pushers(r) \cup {t} /\ t \notin Pushers(r)
        BY <1>0, <2>4 DEF TypeOK, Pushers
      <3>2. Cardinality(Pushers(r)') = Cardinality(Pushers(r)) + 1
        BY <3>1, PushersFinite, FS_AddElement
      <3>3. jobCount'[r] = jobCount[r] + 1
        BY <1>0, <2>4 DEF TypeOK
      <3>4. jobs' = jobs /\ taken' = taken /\ current' = current
        OBVIOUS
      <3>5. ASSUME NEW n \in Nat, jobCount[r] = Len(jobs[r]) + Cardinality(Pushers(r)) + n
            PROVE  jobCount'[r] = Len(jobs'[r]) + Cardinality(Pushers(r)') + n
        <4>1. jobCount'[r] = Len(jobs[r]) + Cardinality(Pushers(r)) + n + 1
          BY <3>3, <3>5
        <4>2. Len(jobs[r]) + Cardinality(Pushers(r)) + n + 1 = Len(jobs[r]) + (Cardinality(Pushers(r)) + 1) + n
          <5>1. Len(jobs[r]) \in Nat /\ Cardinality(Pushers(r)) \in Nat /\ n \in Nat
            BY <2>1, <2>2
          <5> HIDE DEF IInv, PushCount
          <5> QED
            BY ONLY <5>1, OneMore
        <4>3. Len(jobs'[r]) = Len(jobs[r])
          BY <3>4
        <4> QED
          BY <3>2, <4>1, <4>2, <4>3
      <3>6. ASSUME NEW u \in Threads, Executing(u, r)'
            PROVE  jobCount'[r] = Len(jobs'[r]) + Cardinality(Pushers(r)') + taken'[u]
        BY <2>1, <3>4, <3>5, <3>6 DEF Counted, Executing
      <3>7. ASSUME \A u \in Threads : ~Executing(u, r)'
            PROVE  jobCount'[r] = Len(jobs'[r]) + Cardinality(Pushers(r)')
        BY <2>1, <2>2, <3>2, <3>3, <3>4, <3>7 DEF Counted, Executing
      <3> QED
        BY <3>6, <3>7 DEF Counted
    <2> QED
      BY <2>3, <2>4
  <1> QED
    BY <1>1, <1>2, <1>4, <1>5, <1>6

LEMMA StartJobIInv ==
    ASSUME IInv, NEW t \in Threads, StartJob(t)
    PROVE  IInv'
  <1> USE DEF IInv, StartJob
  <1>1. TypeOK'
    BY DEF TypeOK, PCs, shared, history
  <1>2. LocalOK'
    BY DEF TypeOK, LocalOK, LocalAt, shared, history
  <1>3. PICK p \in {"sub", "run"} : pc' = [pc EXCEPT ![t] = p]
    OBVIOUS
  <1>4. p \in PCs \ {"enqueue"}
    BY DEF PCs
  <1> QED
    BY <1>1, <1>2, <1>3, <1>4, PrivateStep

LEMMA FinishJobIInv ==
    ASSUME IInv, NEW t \in Threads, FinishJob(t)
    PROVE  IInv'
  <1> USE DEF IInv, FinishJob
  <1>1. /\ current[t] \in Queues /\ batch[t] \in Seq(Jobs) /\ batch[t] # << >>
        /\ Head(batch[t]) \in Jobs /\ Tail(batch[t]) \in Seq(Jobs)
    BY DEF TypeOK, LocalOK, LocalAt
  <1>2. TypeOK'
    BY <1>1 DEF TypeOK, PCs, shared
  <1>3. LocalOK'
    BY DEF TypeOK, LocalOK, LocalAt, shared
  <1>4. "next" \in PCs \ {"enqueue"}
    BY DEF PCs
  <1> QED
    BY <1>2, <1>3, <1>4, PrivateStep

LEMMA TimeLeftIInv ==
    ASSUME IInv, NEW t \in Threads, TimeLeft(t)
    PROVE  IInv'
  <1> USE DEF IInv, TimeLeft
  <1>1. TypeOK'
    BY DEF TypeOK, PCs, shared, history
  <1>2. LocalOK'
    BY DEF TypeOK, LocalOK, LocalAt, shared, history
  <1>3. "popAll" \in PCs \ {"enqueue"}
    BY DEF PCs
  <1> QED
    BY <1>1, <1>2, <1>3, PrivateStep

LEMMA GlobalBeginIInv ==
    ASSUME IInv, NEW t \in Threads, GlobalBegin(t)
    PROVE  IInv'
  <1> USE DEF IInv, GlobalBegin
  <1>1. TypeOK'
    BY DEF TypeOK, PCs, shared, history
  <1>2. LocalOK'
    BY DEF TypeOK, LocalOK, LocalAt, shared, history
  <1>3. "global" \in PCs \ {"enqueue"}
    BY DEF PCs
  <1> QED
    BY <1>1, <1>2, <1>3, PrivateStep

LEMMA GlobalStopIInv ==
    ASSUME IInv, NEW t \in Threads, GlobalStop(t)
    PROVE  IInv'
  <1> USE DEF IInv, GlobalStop
  <1>1. TypeOK'
    BY DEF TypeOK, PCs, shared, history
  <1>2. LocalOK'
    BY DEF TypeOK, LocalOK, LocalAt, shared, history
  <1>3. "idle" \in PCs \ {"enqueue"}
    BY DEF PCs
  <1> QED
    BY <1>1, <1>2, <1>3, PrivateStep

\* The claim of a thread on its queue moves from current to handed.
LEMMA TimeUpIInv ==
    ASSUME IInv, NEW t \in Threads, TimeUp(t)
    PROVE  IInv'
  <1> DEFINE q == current[t]
  <1> USE DEF IInv, TimeUp
  <1>0. q \in Queues /\ q # None /\ handed[t] = None /\ taken[t] = 0
    BY NoneAssumption DEF TypeOK, LocalOK, LocalAt
  <1>1. TypeOK'
    BY <1>0 DEF TypeOK, PCs, shared, history
  <1>2. LocalOK'
    BY <1>0 DEF TypeOK, LocalOK, LocalAt, shared, history
  <1>3. OneClaim'
    BY <1>0, NoneAssumption DEF TypeOK, OneClaim
  <1>4. \A u \in Threads, r \in Queues : Claim(u, r)' <=> Claim(u, r)
    BY <1>0, NoneAssumption DEF TypeOK, Claim
  <1>5. OneOwner'
    BY <1>4, OwnedFrame DEF OneOwner, shared
  <1>6. CountExact'
    <2> SUFFICES ASSUME NEW r \in Queues PROVE Counted(r)'
      BY DEF CountExact
    <2>1. Counted(r) /\ Pushers(r)' = Pushers(r)
      BY DEF CountExact, Pushers, TypeOK
    <2>2. jobCount' = jobCount /\ jobs' = jobs /\ taken' = taken
      BY DEF shared
    <2>3. CASE r # q
      <3>1. \A u \in Threads : Executing(u, r)' <=> Executing(u, r)
        BY <2>3, NoneAssumption DEF TypeOK, Executing
      <3> QED
        BY <2>1, <2>2, <3>1, CountedFrame
    <2>4. CASE r = q
      <3>1. \A u \in Threads : Executing(u, r) => u = t
        BY <2>4, <1>0 DEF OneOwner, OwnedOnce, Claim, Executing
      <3>2. \A u \in Threads : ~Executing(u, r)'
        BY <3>1, <1>0, <2>4 DEF TypeOK, Executing
      <3>3. jobCount[r] = Len(jobs[r]) + Cardinality(Pushers(r))
        BY <2>1, <2>4, <1>0, CountedTypes DEF Counted, Executing
      <3> QED
        BY <2>1, <2>2, <3>2, <3>3 DEF Counted
    <2> QED
      BY <2>3, <2>4
  <1> QED
    BY <1>1, <1>2, <1>3, <1>5, <1>6

\* What was queued is now taken: the sum is the same.
LEMMA PopAllIInv ==
    ASSUME IInv, NEW t \in Threads, PopAll(t)
    PROVE  IInv'
  <1> DEFINE q == current[t]
  <1> USE DEF IInv, PopAll
  <1>0. q \in Queues /\ taken[t] = 0 /\ jobs[q] \in Seq(Jobs) /\ Len(jobs[q]) \in Nat
    BY DEF TypeOK, LocalOK, LocalAt
  <1>1. TypeOK'
    BY <1>0 DEF TypeOK, PCs, history
  <1>2. LocalOK'
    BY <1>0 DEF TypeOK, LocalOK, LocalAt, history
  <1>3. OneClaim'
    BY DEF TypeOK, OneClaim
  <1>4. \A u \in Threads, r \in Queues : Claim(u, r)' <=> Claim(u, r)
    BY DEF TypeOK, Claim
  <1>5. OneOwner'
    BY <1>4, OwnedFrame DEF OneOwner
  <1>6. CountExact'
    <2> SUFFICES ASSUME NEW r \in Queues PROVE Counted(r)'
      BY DEF CountExact
    <2>1. Counted(r) /\ Pushers(r)' = Pushers(r)
      BY DEF CountExact, Pushers, TypeOK
    <2>2. \A u \in Threads : Executing(u, r)' <=> Executing(u, r)
      BY DEF Executing
    <2>3. CASE r # q
      <3>1. jobs'[r] = jobs[r] /\ \A u \in Threads : Executing(u, r) => taken'[u] = taken[u]
        BY <2>3, <1>0 DEF TypeOK, Executing
      <3> QED
        BY <2>1, <2>2, <3>1, CountedFrame
    <2>4. CASE r = q
      <3>1. \A u \in Threads : Executing(u, r) <=> u = t
        BY <2>4, <1>0 DEF OneOwner, OwnedOnce, Claim, Executing
      <3>2. jobCount[r] = Len(jobs[r]) + Cardinality(Pushers(r))
        BY <2>1, <2>4, <3>1, <1>0, CountedTypes DEF Counted
      <3>3. Len(jobs'[r]) = 0 /\ taken'[t] = Len(jobs[r]) /\ jobCount' = jobCount
        BY <2>4, <1>0 DEF TypeOK
      <3>4. jobCount'[r] = Len(jobs'[r]) + Cardinality(Pushers(r)') + taken'[t]
        BY <2>1, <3>2, <3>3, <1>0, CountedTypes
      <3> QED
        BY <2>2, <3>1, <3>4 DEF Counted
    <2> QED
      BY <2>3, <2>4
  <1> QED
    BY <1>1, <1>2, <1>3, <1>5, <1>6

\* The claim moves from a thread to GGlobalQueue.
LEMMA GlobalPushIInv ==
    ASSUME IInv, NEW t \in Threads, GlobalPush(t)
    PROVE  IInv'
  <1> DEFINE q == handed[t]
             n == Len(globalQueue) + 1
  <1> USE DEF IInv, GlobalPush
  <1>0. q \in Queues /\ q # None /\ current[t] # q /\ pc[t] # "enqueue"
    BY NoneAssumption DEF TypeOK, LocalOK, LocalAt, OneClaim
  <1>1. TypeOK'
    <2>1. globalQueue' \in Seq(Queues)
      BY <1>0 DEF TypeOK
    <2>2. pc' \in [Threads -> PCs]
      <3>1. caller[t] \in PCs /\ "run" \in PCs
        BY DEF TypeOK, PCs
      <3> QED
        BY <3>1 DEF TypeOK
    <2>3. handed' \in [Threads -> Queues \cup {None}]
      BY DEF TypeOK
    <2> QED
      BY <2>1, <2>2, <2>3 DEF TypeOK, history
  <1>2. LocalOK'
    BY <1>0 DEF TypeOK, LocalOK, LocalAt, history
  <1>3. OneClaim'
    BY <1>0, NoneAssumption DEF TypeOK, OneClaim
  <1>4. \A u \in Threads, r \in Queues : Claim(u, r)' <=> Claim(u, r) /\ ~(u = t /\ r = q)
    BY <1>0, NoneAssumption DEF TypeOK, Claim
  <1>5. /\ DOMAIN globalQueue = 1 .. Len(globalQueue) /\ Len(globalQueue) \in Nat
        /\ DOMAIN globalQueue' = 1 .. n
        /\ \A i \in 1 .. Len(globalQueue) : globalQueue'[i] = globalQueue[i]
        /\ globalQueue'[n] = q
    BY <1>0 DEF TypeOK
  <1>6. ASSUME NEW r \in Queues, NEW i \in DOMAIN globalQueue'
        PROVE  Waits(i, r)' <=> (i # n /\ Waits(i, r)) \/ (i = n /\ r = q)
    BY <1>5 DEF Waits
  <1>7. OneOwner'
    <2> SUFFICES ASSUME NEW r \in Queues PROVE OwnedOnce(r)'
      BY DEF OneOwner
    <2>1. OwnedOnce(r) /\ jobCount' = jobCount
      BY DEF OneOwner
    <2>2. CASE r # q
      <3>1. \A u \in Threads : Claim(u, r)' <=> Claim(u, r)
        BY <1>4, <2>2
      <3>2. \A i \in DOMAIN globalQueue' : Waits(i, r)' <=> i \in DOMAIN globalQueue /\ Waits(i, r)
        BY <1>5, <1>6, <2>2
      <3>3. DOMAIN globalQueue \subseteq DOMAIN globalQueue'
        BY <1>5
      <3> QED
        BY <2>1, <3>1, <3>2, <3>3 DEF OwnedOnce
    <2>3. CASE r = q
      <3>1. Claim(t, r) /\ \A u \in Threads : Claim(u, r) => u = t
        BY <2>1, <2>3 DEF OwnedOnce, Claim
      <3>2. \A u \in Threads : ~Claim(u, r)'
        BY <1>4, <2>3, <3>1
      <3>3. \A i \in DOMAIN globalQueue : ~Waits(i, r)
        BY <2>1, <3>1 DEF OwnedOnce
      <3>4. n \in DOMAIN globalQueue' /\ \A i \in DOMAIN globalQueue' : Waits(i, r)' <=> i = n
        BY <1>5, <1>6, <2>3, <3>3
      <3>5. jobCount'[r] > 0
        BY <2>1, <3>1 DEF OwnedOnce
      <3> QED
        BY <3>2, <3>4, <3>5 DEF OwnedOnce
    <2> QED
      BY <2>2, <2>3
  <1>8. \A r \in Queues : Pushers(r)' = Pushers(r)
    BY <1>0 DEF Pushers, TypeOK
  <1>9. CountExact'
    BY <1>8, CountedFrame DEF CountExact, Executing
  <1> QED
    BY <1>1, <1>2, <1>3, <1>7, <1>9

\* The claim moves from GGlobalQueue to a worker.
LEMMA GlobalPopIInv ==
    ASSUME IInv, NEW t \in Threads, GlobalPop(t)
    PROVE  IInv'
  <1> DEFINE q == Head(globalQueue)
             n == Len(globalQueue)
  <1> USE DEF IInv, GlobalPop
  <1>0. /\ q \in Queues /\ q # None /\ q = globalQueue[1]
        /\ n \in Nat /\ n > 0 /\ DOMAIN globalQueue = 1 .. n
        /\ globalQueue' \in Seq(Queues) /\ DOMAIN globalQueue' = 1 .. (n - 1)
        /\ \A i \in 1 .. (n - 1) : globalQueue'[i] = globalQueue[i + 1]
    BY NoneAssumption DEF TypeOK
  <1>a. current[t] = None /\ taken[t] = 0 /\ handed[t] = None /\ pc[t] # "enqueue"
    BY DEF TypeOK, LocalOK, LocalAt
  <1>1. TypeOK'
    BY <1>0 DEF TypeOK, PCs, history
  <1>2. LocalOK'
    BY <1>0, <1>a DEF TypeOK, LocalOK, LocalAt, history
  <1>3. OneClaim'
    BY <1>0, <1>a, NoneAssumption, SMTT(30) DEF TypeOK, OneClaim
  <1>4. \A u \in Threads, r \in Queues : Claim(u, r)' <=> Claim(u, r) \/ (u = t /\ r = q)
    BY <1>0, <1>a, NoneAssumption DEF TypeOK, Claim
  <1>5. ASSUME NEW r \in Queues, NEW i \in DOMAIN globalQueue'
        PROVE  i + 1 \in DOMAIN globalQueue /\ (Waits(i, r)' <=> Waits(i + 1, r))
    BY <1>0 DEF Waits
  <1>6. \A i \in DOMAIN globalQueue : i = 1 \/ i - 1 \in DOMAIN globalQueue'
    BY <1>0
  <1>7. OneOwner'
    <2> SUFFICES ASSUME NEW r \in Queues PROVE OwnedOnce(r)'
      BY DEF OneOwner
    <2>1. OwnedOnce(r) /\ jobCount' = jobCount
      BY DEF OneOwner
    <2>2. \A i, k \in DOMAIN globalQueue' : Waits(i, r)' /\ Waits(k, r)' => i = k
      <3> SUFFICES ASSUME NEW i \in DOMAIN globalQueue', NEW k \in DOMAIN globalQueue',
                          Waits(i, r)', Waits(k, r)'
                   PROVE  i = k
        OBVIOUS
      <3>1. i + 1 = k + 1
        BY <1>5, <2>1 DEF OwnedOnce
      <3> QED
        BY <3>1, <1>0
    <2>3. CASE r # q
      <3>1. \A u \in Threads : Claim(u, r)' <=> Claim(u, r)
        BY <1>4, <2>3
      <3>2. ~Waits(1, r)
        BY <1>0, <2>3 DEF Waits
      <3>3. (\E i \in DOMAIN globalQueue' : Waits(i, r)') <=> (\E i \in DOMAIN globalQueue : Waits(i, r))
        <4>1. ASSUME NEW i \in DOMAIN globalQueue, Waits(i, r)
              PROVE  \E k \in DOMAIN globalQueue' : Waits(k, r)'
          <5>1. i # 1 /\ i - 1 \in DOMAIN globalQueue' /\ (i - 1) + 1 = i
            BY <1>0, <1>6, <3>2, <4>1
          <5> QED
            BY <5>1, <4>1, <1>5
        <4> QED
          BY <4>1, <1>5
      <3> QED
        BY <2>1, <2>2, <3>1, <3>3 DEF OwnedOnce
    <2>4. CASE r = q
      <3>1. 1 \in DOMAIN globalQueue /\ Waits(1, r)
        BY <1>0, <2>4 DEF Waits
      <3>2. \A u \in Threads : ~Claim(u, r)
        BY <2>1, <3>1 DEF OwnedOnce
      <3>3. \A u \in Threads : Claim(u, r)' <=> u = t
        BY <1>4, <2>4, <3>2
      <3>4. ASSUME NEW i \in DOMAIN globalQueue' PROVE ~Waits(i, r)'
        <4>1. i + 1 # 1 /\ i + 1 \in DOMAIN globalQueue
          BY <1>0
        <4> QED
          BY <4>1, <2>1, <3>1, <1>5 DEF OwnedOnce
      <3>5. jobCount'[r] > 0
        BY <2>1, <3>1 DEF OwnedOnce
      <3> QED
        BY <3>3, <3>4, <3>5 DEF OwnedOnce
    <2> QED
      BY <2>3, <2>4
  <1>8. CountExact'
    <2> SUFFICES ASSUME NEW r \in Queues PROVE Counted(r)'
      BY DEF CountExact
    <2>1. Counted(r) /\ Pushers(r)' = Pushers(r) /\ OwnedOnce(r)
      BY <1>a DEF CountExact, Pushers, TypeOK, OneOwner
    <2>2. CASE r # q
      <3>1. \A u \in Threads : Executing(u, r)' <=> Executing(u, r)
        BY <2>2, <1>0, <1>a, NoneAssumption DEF TypeOK, Executing
      <3> QED
        BY <2>1, <3>1, CountedFrame
    <2>3. CASE r = q
      <3>1. 1 \in DOMAIN globalQueue /\ Waits(1, r)
        BY <1>0, <2>3 DEF Waits
      <3>2. \A u \in Threads : ~Executing(u, r)
        BY <2>1, <3>1 DEF OwnedOnce, Claim, Executing
      <3>3. \A u \in Threads : Executing(u, r)' <=> u = t
        BY <3>2, <1>0, <2>3 DEF TypeOK, Executing
      <3>4. jobCount[r] = Len(jobs[r]) + Cardinality(Pushers(r))
        BY <2>1, <3>2 DEF Counted
      <3>5. taken'[t] = 0 /\ jobCount' = jobCount /\ jobs' = jobs
        BY <1>a
      <3>6. jobCount'[r] = Len(jobs'[r]) + Cardinality(Pushers(r)') + taken'[t]
        BY <2>1, <3>4, <3>5, CountedTypes
      <3> QED
        BY <3>3, <3>6 DEF Counted
    <2> QED
      BY <2>2, <2>3
  <1> QED
    BY <1>1, <1>2, <1>3, <1>7, <1>8

LEMMA FetchSubIInv ==
    ASSUME IInv, NEW t \in Threads, FetchSub(t)
    PROVE  IInv'
  <1> USE DEF IInv, FetchSub
  <1>q. current[t] \in Queues
    BY DEF TypeOK, LocalOK, LocalAt
  <1> PICK q \in Queues : q = current[t]
    BY <1>q
  <1>0. /\ q = current[t] /\ q \in Queues /\ q # None /\ jobCount[q] \in Nat /\ taken[t] \in Nat
        /\ Len(jobs[q]) \in Nat /\ Cardinality(Pushers(q)) \in Nat
        /\ handed[t] = None
    BY CountedTypes, NoneAssumption DEF TypeOK, LocalOK, LocalAt
  <1>a. jobCount[q] = Len(jobs[q]) + Cardinality(Pushers(q)) + taken[t]
    BY <1>0 DEF CountExact, Counted, Executing
  <1>b. jobCount[q] - taken[t] \in Nat
    BY <1>0, <1>a
  <1>c. jobCount[q] > 0 /\ OwnedOnce(q)
    BY <1>0 DEF OneOwner, OwnedOnce, Claim
  <1>d. \A u \in Threads : Claim(u, q) <=> u = t
    BY <1>0, <1>c DEF OwnedOnce, Claim
  <1>e. \A i \in DOMAIN globalQueue : ~Waits(i, q)
    BY <1>c, <1>d DEF OwnedOnce
  <1>1. TypeOK'
    <2>1. jobCount' \in [Queues -> Nat]
      BY <1>0, <1>b DEF TypeOK
    <2>2. pc' \in [Threads -> PCs]
      <3>1. caller[t] \in PCs /\ "time" \in PCs
        BY DEF TypeOK, PCs
      <3> QED
        BY <3>1 DEF TypeOK
    <2>3. taken' \in [Threads -> Nat] /\ current' \in [Threads -> Queues \cup {None}]
      BY DEF TypeOK
    <2> QED
      BY <2>1, <2>2, <2>3 DEF TypeOK, history
  <1>2. LocalOK'
    <2>1. CASE jobCount[q] = taken[t]
      BY <1>0, <2>1, SMTT(30) DEF TypeOK, LocalOK, LocalAt, history
    <2>2. CASE jobCount[q] # taken[t]
      BY <1>0, <2>2, SMTT(30) DEF TypeOK, LocalOK, LocalAt, history
    <2> QED
      BY <2>1, <2>2
  <1>3. OneClaim'
    BY <1>0, NoneAssumption, SMTT(30) DEF TypeOK, OneClaim
  <1>4. \A r \in Queues : Pushers(r)' = Pushers(r)
    BY <1>0 DEF Pushers, TypeOK
  <1>5. \A r \in Queues : r # q => jobCount'[r] = jobCount[r]
    BY <1>0 DEF TypeOK
  <1>6. jobCount'[q] = jobCount[q] - taken[t] /\ taken'[t] = 0
    BY <1>0 DEF TypeOK
  <1>7. \A u \in Threads, r \in Queues :
            r # q => /\ Claim(u, r)' <=> Claim(u, r)
                     /\ Executing(u, r)' <=> Executing(u, r)
                     /\ Executing(u, r) => taken'[u] = taken[u]
    BY <1>0, NoneAssumption DEF TypeOK, Claim, Executing
  <1>8. \A r \in Queues : r # q => OwnedOnce(r)' /\ Counted(r)'
    BY <1>4, <1>5, <1>7, OwnedFrame, CountedFrame DEF OneOwner, CountExact
  <1>9. OwnedOnce(q)' /\ Counted(q)'
    <2>1. CASE jobCount[q] = taken[t]
      <3>1. current'[t] = None /\ jobCount'[q] = 0
        BY <1>0, <1>6, <2>1 DEF TypeOK
      <3>2. \A u \in Threads : ~Claim(u, q)'
        BY <1>0, <1>d, <3>1, <2>1 DEF TypeOK, Claim
      <3>3. OwnedOnce(q)'
        BY <3>1, <3>2, <1>e DEF OwnedOnce, Waits
      <3>4. \A u \in Threads : ~Executing(u, q)'
        BY <3>2 DEF Claim, Executing
      <3>5. jobCount'[q] = Len(jobs'[q]) + Cardinality(Pushers(q)')
        BY <1>0, <1>a, <1>4, <2>1, <3>1
      <3> QED
        BY <3>3, <3>4, <3>5 DEF Counted
    <2>2. CASE jobCount[q] # taken[t]
      <3>1. jobCount'[q] > 0 /\ current' = current
        BY <1>0, <1>6, <1>b, <2>2
      <3>2. \A u \in Threads : Claim(u, q)' <=> Claim(u, q)
        BY <1>0, <3>1, <2>2 DEF TypeOK, Claim
      <3>3. OwnedOnce(q)'
        BY <1>c, <3>1, <3>2, OwnedFrame
      <3>4. \A u \in Threads : Executing(u, q)' <=> u = t
        BY <1>d, <3>1 DEF Claim, Executing
      <3>5. jobCount'[q] = Len(jobs'[q]) + Cardinality(Pushers(q)') + taken'[t]
        BY <1>0, <1>a, <1>4, <1>6
      <3> QED
        BY <3>3, <3>4, <3>5 DEF Counted
    <2> QED
      BY <2>1, <2>2
  <1> QED
    BY <1>1, <1>2, <1>3, <1>8, <1>9 DEF OneOwner, CountExact

\* The poster's claim, when prevCount was 0, becomes its current queue or
\* the queue it is about to hand over; the job moves from counted to queued.
LEMMA PushEnqueueIInv ==
    ASSUME IInv, NEW t \in Threads, PushEnqueue(t)
    PROVE  IInv'
  <1> DEFINE q == Home[arg[t]]
  <1> USE DEF IInv, PushEnqueue
  <1>0. /\ arg[t] \in Jobs /\ arg[t] # None /\ q \in Queues /\ q # None
        /\ prev[t] \in Nat /\ handed[t] = None
        /\ jobs[q] \in Seq(Jobs) /\ Len(jobs[q]) \in Nat /\ Cardinality(Pushers(q)) \in Nat
    <2>1. arg[t] \in Jobs /\ arg[t] # None /\ handed[t] = None
      BY NoneAssumption DEF TypeOK, LocalOK, LocalAt
    <2>2. q \in Queues /\ q # None
      BY <2>1, HomeAssumption, NoneAssumption
    <2> QED
      BY <2>1, <2>2, CountedTypes DEF TypeOK
  <1>a. prev[t] = 0 => current[t] # q
    BY <1>0 DEF OneClaim
  <1>1. TypeOK'
    <2>1. jobs' \in [Queues -> Seq(Jobs)]
      BY <1>0 DEF TypeOK
    <2>2. pc' \in [Threads -> PCs] /\ current' \in [Threads -> Queues \cup {None}]
      BY <1>0 DEF TypeOK, PCs
    <2>3. /\ arg' \in [Threads -> Jobs \cup {None}] /\ prev' \in [Threads -> Nat]
          /\ handed' \in [Threads -> Queues \cup {None}]
          /\ caller' \in [Threads -> {"idle", "global"}]
      BY <1>0 DEF TypeOK
    <2> QED
      BY <2>1, <2>2, <2>3 DEF TypeOK
  <1>2. LocalOK'
    <2> SUFFICES ASSUME NEW u \in Threads PROVE LocalAt(u)'
      BY DEF LocalOK
    <2>1. CASE u # t
      BY <2>1 DEF TypeOK, LocalOK, LocalAt
    <2>2. CASE u = t
      BY <2>2, <1>0, SMTT(30) DEF TypeOK, LocalOK, LocalAt
    <2> QED
      BY <2>1, <2>2
  <1>3. OneClaim'
    <2> SUFFICES ASSUME NEW u \in Threads, NEW r \in Queues, (current[u] = r)'
                 PROVE  /\ (handed[u] # r)'
                        /\ ~(pc[u] = "enqueue" /\ Home[arg[u]] = r /\ prev[u] = 0)'
      BY DEF OneClaim
    <2>1. CASE u # t
      BY <2>1 DEF TypeOK, OneClaim
    <2>2. CASE u = t
      BY <2>2, <1>0, <1>a, NoneAssumption DEF TypeOK, OneClaim
    <2> QED
      BY <2>1, <2>2
  <1>4. \A u \in Threads, r \in Queues : Claim(u, r)' <=> Claim(u, r)
    <2> SUFFICES ASSUME NEW u \in Threads, NEW r \in Queues
                 PROVE  Claim(u, r)' <=> Claim(u, r)
      OBVIOUS
    <2>1. CASE u # t
      BY <2>1 DEF TypeOK, Claim
    <2>2. CASE u = t
      BY <2>2, <1>0, NoneAssumption DEF TypeOK, Claim
    <2> QED
      BY <2>1, <2>2
  <1>5. OneOwner'
    BY <1>4, OwnedFrame DEF OneOwner
  <1>6. CountExact'
    <2> SUFFICES ASSUME NEW r \in Queues PROVE Counted(r)'
      BY DEF CountExact
    <2>0. jobCount' = jobCount /\ taken' = taken /\ Counted(r)
      BY DEF CountExact
    <2>a. \A u \in Threads : Executing(u, r) => taken[u] \in Nat
      BY DEF TypeOK
    <2>b. current[t] = None => taken[t] = 0
      BY DEF LocalOK, LocalAt
    <2>1. CASE r # q
      <3>1. jobs'[r] = jobs[r] /\ Pushers(r)' = Pushers(r)
        BY <2>1, <1>0 DEF TypeOK, Pushers
      <3>2. \A u \in Threads : Executing(u, r)' <=> Executing(u, r)
        BY <2>1, <1>0, NoneAssumption DEF TypeOK, Executing
      <3> QED
        BY <2>0, <3>1, <3>2, CountedFrame
    <2>2. CASE r = q
      <3>1. Pushers(r)' = Pushers(r) \ {t} /\ t \in Pushers(r)
        BY <2>2, <1>0 DEF TypeOK, Pushers
      <3>2. Cardinality(Pushers(r)') = Cardinality(Pushers(r)) - 1
        BY <3>1, PushersFinite, FS_RemoveElement
      <3>3. Len(jobs'[r]) = Len(jobs[r]) + 1
        BY <2>2, <1>0 DEF TypeOK
      <3>4. Len(jobs'[r]) + Cardinality(Pushers(r)') = Len(jobs[r]) + Cardinality(Pushers(r))
        BY <2>2, <1>0, <3>2, <3>3
      <3>5. CASE current'[t] = q /\ current[t] = None
        <4>1. prev[t] = 0
          BY <3>5, <1>0 DEF TypeOK
        <4>2. Claim(t, r)
          BY <4>1, <2>2 DEF Claim
        <4>3. \A u \in Threads : ~Executing(u, r)
          BY <4>2, <3>5, <1>0, <2>2 DEF OneOwner, OwnedOnce, Claim, Executing
        <4>4. \A u \in Threads : Executing(u, r)' <=> u = t
          BY <4>3, <3>5, <2>2, <1>0 DEF TypeOK, Executing
        <4>5. jobCount[r] = Len(jobs[r]) + Cardinality(Pushers(r)) /\ taken[t] = 0
          BY <2>0, <2>b, <3>5, <4>3 DEF Counted
        <4>6. jobCount'[r] = Len(jobs'[r]) + Cardinality(Pushers(r)') + taken'[t]
          BY <2>0, <2>2, <3>4, <4>5, <1>0
        <4> QED
          BY <4>4, <4>6 DEF Counted
      <3>6. CASE current' = current
        <4>1. \A u \in Threads : Executing(u, r)' <=> Executing(u, r)
          BY <3>6 DEF Executing
        <4> QED
          BY <2>0, <3>4, <4>1 DEF Counted
      <3>7. current' = current \/ (current'[t] = q /\ current[t] = None)
        BY <1>0 DEF TypeOK
      <3> QED
        BY <3>5, <3>6, <3>7
    <2> QED
      BY <2>1, <2>2
  <1> QED
    BY <1>1, <1>2, <1>3, <1>5, <1>6

-----------------------------------------------------------------------------
THEOREM NextIInv == IInv /\ [Next]_vars => IInv'
  <1> SUFFICES ASSUME IInv, [Next]_vars PROVE IInv'
    OBVIOUS
  <1>1. ASSUME NEW t \in Threads, NEW j \in Jobs, PushCount(t, j) PROVE IInv'
    BY <1>1, PushCountIInv
  <1>2. ASSUME NEW t \in Threads, Step(t) PROVE IInv'
    BY <1>2, PushEnqueueIInv, GlobalPushIInv, PopAllIInv, StartJobIInv,
       FinishJobIInv, FetchSubIInv, TimeLeftIInv, TimeUpIInv DEF Step
  <1>3. ASSUME NEW w \in Workers, GlobalBegin(w) \/ GlobalPop(w) \/ GlobalStop(w)
        PROVE  IInv'
    <2>1. w \in Threads
      BY DEF Threads
    <2> QED
      BY <1>3, <2>1, GlobalBeginIInv, GlobalPopIInv, GlobalStopIInv
  <1>4. CASE UNCHANGED vars
    <2>1. TypeOK' /\ LocalOK' /\ OneClaim'
      BY <1>4 DEF vars, shared, local, history, IInv, TypeOK, LocalOK, LocalAt, OneClaim
    <2>2. OneOwner'
      BY <1>4 DEF vars, shared, local, history, IInv, OneOwner, OwnedOnce, Claim, Waits
    <2>3. \A r \in Queues : Pushers(r)' = Pushers(r)
      BY <1>4 DEF vars, local, Pushers
    <2>4. CountExact'
      BY <1>4, <2>3 DEF vars, shared, local, IInv, CountExact, Counted, Executing
    <2> QED
      BY <2>1, <2>2, <2>4 DEF IInv
  <1> QED
    BY <1>1, <1>2, <1>3, <1>4 DEF Next

\* Every variable keeps its type; _jobCount in particular is never negative.
THEOREM TypeCorrect == Spec => []TypeOK
  BY InitIInv, NextIInv, PTL DEF Spec, IInv

\* A queue has one owner, and is idle exactly when _jobCount is 0.
THEOREM OwnedByOne == Spec => []OneOwner
  BY InitIInv, NextIInv, PTL DEF Spec, IInv

\* _jobCount counts the queued, the announced and the taken jobs.
THEOREM CounterExact == Spec => []CountExact
  BY InitIInv, NextIInv, PTL DEF Spec, IInv

\* Two threads never execute one queue together (JobQueue::Execute).
THEOREM ExclusiveExecution == Spec => []MutualExclusion
  <1>1. IInv => MutualExclusion
    BY DEF IInv, OneOwner, OwnedOnce, Claim, MutualExclusion, Executing
  <1> QED
    BY <1>1, InitIInv, NextIInv, PTL DEF Spec

-----------------------------------------------------------------------------
(* JobQueue implements SerialExecutor *)

\* What the executing thread t contributes to its queue.
Runs(t) == IF InJob(t) THEN Head(batch[t]) ELSE None
Rest(t) == IF InJob(t) THEN Tail(batch[t]) ELSE batch[t]

\* The refinement mapping without its CHOOSE: a queue has one executor at most.
Abs == \A q \in Queues :
    /\ (\A t \in Threads : ~Executing(t, q)) =>
           RunningJob(q) = None /\ WaitingJobs(q) = jobs[q]
    /\ \A t \in Threads : Executing(t, q) =>
           RunningJob(q) = Runs(t) /\ WaitingJobs(q) = Rest(t) \o jobs[q]

\* The job is in some queue, some thread's batch, or done.
Inside(j) == \/ \E q \in Queues : j \in Serial!Contents(jobs[q]) \cup Serial!Contents(done[q])
             \/ \E t \in Threads : j \in Serial!Contents(batch[t])

\* Nothing comes from nowhere, and what a poster is about to queue is new.
OncePosted == /\ \A j : Inside(j) => j \in posted
              /\ \A t \in Threads : arg[t] # None => arg[t] \in posted /\ ~Inside(arg[t])
              /\ \A t, u \in Threads : arg[t] = arg[u] /\ arg[t] # None => t = u

\* Who has no queue, or is between two batches, has nothing left to run.
BatchEmpty == \A t \in Threads :
    current[t] = None \/ pc[t] \in {"popAll", "sub", "time"} => batch[t] = << >>

RInv == IInv /\ OncePosted /\ BatchEmpty

LEMMA MappingHolds == IInv => Abs
  <1> SUFFICES ASSUME IInv, NEW q \in Queues
               PROVE  /\ (\A t \in Threads : ~Executing(t, q)) =>
                            RunningJob(q) = None /\ WaitingJobs(q) = jobs[q]
                      /\ \A t \in Threads : Executing(t, q) =>
                            RunningJob(q) = Runs(t) /\ WaitingJobs(q) = Rest(t) \o jobs[q]
    BY DEF Abs
  <1>0. jobs[q] \in Seq(Jobs)
    BY DEF IInv, TypeOK
  <1>1. ASSUME \A t \in Threads : ~Executing(t, q)
        PROVE  RunningJob(q) = None /\ WaitingJobs(q) = jobs[q]
    <2>1. ExecutorOf(q) = {}
      BY <1>1 DEF ExecutorOf
    <2>2. RunningJob(q) = None /\ BatchOf(q) = << >>
      BY <2>1 DEF RunningJob, BatchOf
    <2>3. << >> \o jobs[q] = jobs[q]
      BY <1>0, ConcatEmptySeq
    <2> QED
      BY <2>2, <2>3 DEF WaitingJobs
  <1>2. ASSUME NEW t \in Threads, Executing(t, q)
        PROVE  RunningJob(q) = Runs(t) /\ WaitingJobs(q) = Rest(t) \o jobs[q]
    <2>1. \A u \in Threads : Executing(u, q) <=> u = t
      BY <1>2 DEF IInv, OneOwner, OwnedOnce, Claim, Executing
    <2>2. ExecutorOf(q) = {t}
      BY <2>1 DEF ExecutorOf
    <2>3. (CHOOSE u \in Threads : Executing(u, q)) = t
      BY <2>1
    <2>4. BatchOf(q) = batch[t]
      BY <2>2, <2>3 DEF BatchOf
    <2>5. RunningJob(q) = Runs(t)
      BY <2>2, <2>4 DEF RunningJob, Runs
    <2>6. InJob(t) => Runs(t) # None
      <3> SUFFICES ASSUME InJob(t) PROVE Head(batch[t]) # None
        BY DEF Runs
      <3>1. batch[t] \in Seq(Jobs) /\ batch[t] # << >>
        BY DEF IInv, TypeOK, LocalOK, LocalAt, InJob
      <3>2. Head(batch[t]) \in Jobs
        BY <3>1
      <3> QED
        BY <3>2, NoneAssumption
    <2>7. WaitingJobs(q) = Rest(t) \o jobs[q]
      BY <2>4, <2>5, <2>6 DEF WaitingJobs, Rest, Runs
    <2> QED
      BY <2>5, <2>7
  <1> QED
    BY <1>1, <1>2

LEMMA ContentsAppend ==
    ASSUME NEW s \in Seq(Jobs), NEW j \in Jobs
    PROVE  Serial!Contents(Append(s, j)) = Serial!Contents(s) \cup {j}
  <1>1. /\ DOMAIN s = 1 .. Len(s) /\ DOMAIN Append(s, j) = 1 .. Len(s) + 1 /\ Len(s) \in Nat
        /\ \A i \in 1 .. Len(s) : Append(s, j)[i] = s[i]
        /\ Append(s, j)[Len(s) + 1] = j
    OBVIOUS
  <1>2. ASSUME NEW x \in Serial!Contents(s) PROVE x \in Serial!Contents(Append(s, j))
    <2>1. PICK i \in 1 .. Len(s) : x = s[i]
      BY <1>1 DEF Serial!Contents
    <2>2. i \in DOMAIN Append(s, j) /\ Append(s, j)[i] = x
      BY <1>1, <2>1
    <2> QED
      BY <2>2 DEF Serial!Contents
  <1>3. j \in Serial!Contents(Append(s, j))
    BY <1>1 DEF Serial!Contents
  <1>4. ASSUME NEW x \in Serial!Contents(Append(s, j)) PROVE x \in Serial!Contents(s) \cup {j}
    <2>1. PICK i \in 1 .. Len(s) + 1 : x = Append(s, j)[i]
      BY <1>1, <1>4 DEF Serial!Contents
    <2>2. CASE i = Len(s) + 1
      BY <1>1, <2>1, <2>2
    <2>3. CASE i \in 1 .. Len(s)
      BY <1>1, <2>1, <2>3 DEF Serial!Contents
    <2> QED
      BY <1>1, <2>2, <2>3
  <1> QED
    BY <1>2, <1>3, <1>4

LEMMA ContentsTail ==
    ASSUME NEW s \in Seq(Jobs), s # << >>
    PROVE  /\ Head(s) \in Serial!Contents(s)
           /\ \A x : x \in Serial!Contents(Tail(s)) => x \in Serial!Contents(s)
  <1>1. /\ DOMAIN s = 1 .. Len(s) /\ DOMAIN Tail(s) = 1 .. Len(s) - 1
        /\ Len(s) \in Nat /\ Len(s) # 0 /\ Head(s) = s[1]
        /\ \A i \in 1 .. Len(s) - 1 : Tail(s)[i] = s[i + 1]
    OBVIOUS
  <1>2. Head(s) \in Serial!Contents(s)
    BY <1>1 DEF Serial!Contents
  <1>3. ASSUME NEW x, x \in Serial!Contents(Tail(s)) PROVE x \in Serial!Contents(s)
    <2>1. PICK i \in 1 .. Len(s) - 1 : x = s[i + 1]
      BY <1>1, <1>3 DEF Serial!Contents
    <2>2. i + 1 \in 1 .. Len(s)
      BY <1>1
    <2> QED
      BY <1>1, <2>1, <2>2 DEF Serial!Contents
  <1> QED
    BY <1>2, <1>3

LEMMA ContentsConcat ==
    ASSUME NEW s \in Seq(Jobs), NEW r \in Seq(Jobs),
           NEW x, x \in Serial!Contents(s \o r)
    PROVE  x \in Serial!Contents(s) \cup Serial!Contents(r)
  <1>1. PICK i \in DOMAIN (s \o r) : x = (s \o r)[i]
    BY DEF Serial!Contents
  <1>2. /\ i \in 1 .. Len(s) + Len(r) /\ Len(s) \in Nat /\ Len(r) \in Nat
        /\ DOMAIN s = 1 .. Len(s) /\ DOMAIN r = 1 .. Len(r)
        /\ (s \o r)[i] = IF i <= Len(s) THEN s[i] ELSE r[i - Len(s)]
    BY ConcatProperties
  <1>3. CASE i <= Len(s)
    BY <1>1, <1>2, <1>3 DEF Serial!Contents
  <1>4. CASE i > Len(s)
    <2>1. i - Len(s) \in DOMAIN r
      BY <1>2, <1>4
    <2> QED
      BY <1>1, <1>2, <1>4, <2>1 DEF Serial!Contents
  <1> QED
    BY <1>2, <1>3, <1>4

LEMMA HeadTailConcat ==
    ASSUME NEW s \in Seq(Jobs), s # << >>, NEW r \in Seq(Jobs)
    PROVE  /\ s \o r # << >>
           /\ Head(s \o r) = Head(s)
           /\ Tail(s \o r) = Tail(s) \o r
  <1>1. /\ s \o r \in Seq(Jobs) /\ Len(s \o r) = Len(s) + Len(r)
        /\ Len(s) \in Nat /\ Len(s) # 0 /\ Len(r) \in Nat
        /\ \A i \in 1 .. Len(s) + Len(r) :
              (s \o r)[i] = IF i <= Len(s) THEN s[i] ELSE r[i - Len(s)]
    BY ConcatProperties
  <1>2. s \o r # << >> /\ Head(s \o r) = Head(s)
    BY <1>1
  <1>3. /\ Tail(s) \in Seq(Jobs) /\ Len(Tail(s)) = Len(s) - 1
        /\ \A i \in 1 .. Len(s) - 1 : Tail(s)[i] = s[i + 1]
        /\ Tail(s \o r) \in Seq(Jobs) /\ Len(Tail(s \o r)) = Len(s) + Len(r) - 1
        /\ \A i \in 1 .. Len(s) + Len(r) - 1 : Tail(s \o r)[i] = (s \o r)[i + 1]
    BY <1>1, <1>2, HeadTailProperties
  <1>4. /\ Tail(s) \o r \in Seq(Jobs) /\ Len(Tail(s) \o r) = Len(s) - 1 + Len(r)
        /\ \A i \in 1 .. Len(s) - 1 + Len(r) :
              (Tail(s) \o r)[i] = IF i <= Len(s) - 1 THEN Tail(s)[i] ELSE r[i - (Len(s) - 1)]
    BY <1>3, ConcatProperties
  <1>5. ASSUME NEW i \in 1 .. Len(s) + Len(r) - 1
        PROVE  Tail(s \o r)[i] = (Tail(s) \o r)[i]
    <2>1. /\ i + 1 \in 1 .. Len(s) + Len(r) /\ i \in 1 .. Len(s) - 1 + Len(r)
          /\ (i + 1) - Len(s) = i - (Len(s) - 1)
      BY <1>1
    <2>2. CASE i <= Len(s) - 1
      BY <1>1, <1>3, <1>4, <2>1, <2>2
    <2>3. CASE i > Len(s) - 1
      BY <1>1, <1>3, <1>4, <2>1, <2>3
    <2> QED
      BY <1>1, <2>2, <2>3
  <1>6. Tail(s \o r) = Tail(s) \o r
    BY <1>1, <1>3, <1>4, <1>5, SeqEqual
  <1> QED
    BY <1>2, <1>6

LEMMA AppendConcat ==
    ASSUME NEW s \in Seq(Jobs), NEW r \in Seq(Jobs), NEW j \in Jobs
    PROVE  s \o Append(r, j) = Append(s \o r, j)
  <1>1. s \o r \in Seq(Jobs) /\ <<j>> \in Seq(Jobs)
    BY ConcatProperties
  <1>2. (s \o r) \o <<j>> = s \o (r \o <<j>>)
    BY <1>1, ConcatAssociative
  <1>3. Append(r, j) = r \o <<j>>
    BY AppendIsConcat
  <1>4. Append(s \o r, j) = (s \o r) \o <<j>>
    BY <1>1, AppendIsConcat
  <1> QED
    BY <1>2, <1>3, <1>4

\* The queue's part of the mapping does not change.
SameQueue(r) == WaitingJobs(r)' = WaitingJobs(r) /\ RunningJob(r)' = RunningJob(r)

LEMMA MappingFrame ==
    ASSUME Abs, Abs', NEW r \in Queues, jobs'[r] = jobs[r],
           \A u \in Threads : Executing(u, r)' <=> Executing(u, r),
           \A u \in Threads : Executing(u, r) => Runs(u)' = Runs(u) /\ Rest(u)' = Rest(u)
    PROVE  SameQueue(r)
  <1>1. CASE \E u \in Threads : Executing(u, r)
    <2>1. PICK u \in Threads : Executing(u, r)
      BY <1>1
    <2>2. RunningJob(r) = Runs(u) /\ WaitingJobs(r) = Rest(u) \o jobs[r]
      BY <2>1 DEF Abs
    <2>3. RunningJob(r)' = Runs(u)' /\ WaitingJobs(r)' = Rest(u)' \o jobs'[r]
      BY <2>1 DEF Abs
    <2> QED
      BY <2>1, <2>2, <2>3 DEF SameQueue
  <1>2. CASE \A u \in Threads : ~Executing(u, r)
    <2>1. RunningJob(r) = None /\ WaitingJobs(r) = jobs[r]
      BY <1>2 DEF Abs
    <2>2. RunningJob(r)' = None /\ WaitingJobs(r)' = jobs'[r]
      BY <1>2 DEF Abs
    <2> QED
      BY <2>1, <2>2 DEF SameQueue
  <1> QED
    BY <1>1, <1>2

LEMMA AllSame ==
    ASSUME \A r \in Queues : SameQueue(r), done' = done
    PROVE  UNCHANGED Serial!vars
  BY DEF SameQueue, Serial!vars

\* A step that leaves the queues, the executors and their batches alone.
LEMMA QuietStep ==
    ASSUME Abs, Abs', UNCHANGED <<jobs, current, batch, done>>,
           \A u \in Threads : current[u] # None => (InJob(u)' <=> InJob(u))
    PROVE  UNCHANGED Serial!vars
  <1>1. ASSUME NEW r \in Queues PROVE SameQueue(r)
    <2>1. \A u \in Threads : Executing(u, r)' <=> Executing(u, r)
      BY DEF Executing
    <2>2. \A u \in Threads : Executing(u, r) => Runs(u)' = Runs(u) /\ Rest(u)' = Rest(u)
      BY NoneAssumption DEF Executing, Runs, Rest
    <2> QED
      BY <2>1, <2>2, MappingFrame
  <1> QED
    BY <1>1, AllSame

-----------------------------------------------------------------------------
(* Every job is posted once *)

\* No job comes in, nobody gets a job to post.
LEMMA OnceFrame ==
    ASSUME OncePosted, \A j : Inside(j)' => Inside(j), UNCHANGED <<arg, posted>>
    PROVE  OncePosted'
  BY DEF OncePosted

LEMMA PushCountOnce ==
    ASSUME RInv, NEW t \in Threads, NEW j \in Jobs, PushCount(t, j)
    PROVE  OncePosted' /\ BatchEmpty'
  <1>1. /\ j \notin posted /\ posted' = posted \cup {j} /\ arg' = [arg EXCEPT ![t] = j]
        /\ arg \in [Threads -> Jobs \cup {None}]
        /\ UNCHANGED <<jobs, batch, done, current>> /\ pc' = [pc EXCEPT ![t] = "enqueue"]
    BY DEF RInv, IInv, TypeOK, PushCount
  <1>2. \A x : Inside(x)' <=> Inside(x)
    BY <1>1 DEF Inside
  <1>3. OncePosted'
    BY <1>1, <1>2 DEF RInv, OncePosted
  <1>4. BatchEmpty'
    BY <1>1 DEF RInv, IInv, TypeOK, BatchEmpty
  <1> QED
    BY <1>3, <1>4

LEMMA PushEnqueueOnce ==
    ASSUME RInv, NEW t \in Threads, PushEnqueue(t)
    PROVE  OncePosted' /\ BatchEmpty'
  <1> DEFINE q == Home[arg[t]]
  <1>1. /\ arg[t] \in Jobs /\ arg[t] # None /\ q \in Queues
        /\ jobs \in [Queues -> Seq(Jobs)] /\ jobs' = [jobs EXCEPT ![q] = Append(@, arg[t])]
        /\ arg' = [arg EXCEPT ![t] = None] /\ arg \in [Threads -> Jobs \cup {None}]
        /\ UNCHANGED <<batch, done, posted>>
    <2>1. arg[t] \in Jobs /\ arg[t] # None
      BY DEF RInv, IInv, TypeOK, LocalOK, LocalAt, PushEnqueue
    <2> QED
      BY <2>1, HomeAssumption DEF RInv, IInv, TypeOK, PushEnqueue
  <1>2. ASSUME NEW x, Inside(x)' PROVE Inside(x) \/ x = arg[t]
    <2>1. CASE \E r \in Queues : x \in Serial!Contents(jobs'[r])
      <3>1. PICK r \in Queues : x \in Serial!Contents(jobs'[r])
        BY <2>1
      <3>2. CASE r = q
        <4>1. x \in Serial!Contents(jobs[q]) \cup {arg[t]}
          BY <1>1, <3>1, <3>2, ContentsAppend
        <4> QED
          BY <1>1, <4>1 DEF Inside
      <3>3. CASE r # q
        BY <1>1, <3>1, <3>3 DEF Inside
      <3> QED
        BY <3>2, <3>3
    <2>2. CASE ~\E r \in Queues : x \in Serial!Contents(jobs'[r])
      BY <1>1, <1>2, <2>2 DEF Inside
    <2> QED
      BY <2>1, <2>2
  <1>3. OncePosted'
    <2>1. \A x : Inside(x)' => x \in posted'
      BY <1>1, <1>2 DEF RInv, OncePosted
    <2>2. ASSUME NEW u \in Threads, arg'[u] # None
          PROVE  arg'[u] = arg[u] /\ u # t /\ arg'[u] \in posted' /\ ~Inside(arg[u])'
      <3>1. u # t /\ arg'[u] = arg[u]
        BY <1>1, <2>2
      <3>2. arg[u] # arg[t] /\ arg[u] \in posted /\ ~Inside(arg[u])
        BY <1>1, <2>2, <3>1 DEF RInv, OncePosted
      <3> QED
        BY <1>1, <1>2, <3>1, <3>2
    <2>3. \A u, v \in Threads : arg'[u] = arg'[v] /\ arg'[u] # None => u = v
      BY <2>2 DEF RInv, OncePosted
    <2>4. \A u \in Threads : (arg[u] # None => arg[u] \in posted /\ ~Inside(arg[u]))'
      BY <2>2
    <2> QED
      BY <2>1, <2>3, <2>4 DEF OncePosted
  <1>4. BatchEmpty'
    BY <1>1, ZenonT(60) DEF RInv, IInv, TypeOK, BatchEmpty, PushEnqueue
  <1> QED
    BY <1>3, <1>4

LEMMA PopAllOnce ==
    ASSUME RInv, NEW t \in Threads, PopAll(t)
    PROVE  OncePosted' /\ BatchEmpty'
  <1> DEFINE q == current[t]
  <1>1. /\ q \in Queues /\ q # None /\ jobs \in [Queues -> Seq(Jobs)]
        /\ batch \in [Threads -> Seq(Jobs)] /\ pc \in [Threads -> PCs]
        /\ batch' = [batch EXCEPT ![t] = jobs[q]] /\ jobs' = [jobs EXCEPT ![q] = << >>]
        /\ pc' = [pc EXCEPT ![t] = "next"] /\ UNCHANGED <<current, arg, posted, done>>
    BY NoneAssumption DEF RInv, IInv, TypeOK, LocalOK, LocalAt, PopAll, history
  <1>2. ASSUME NEW x, Inside(x)' PROVE Inside(x)
    <2>1. Serial!Contents(<< >>) = {}
      BY DEF Serial!Contents
    <2>2. ASSUME NEW r \in Queues, x \in Serial!Contents(jobs'[r])
          PROVE  x \in Serial!Contents(jobs[r])
      BY <1>1, <2>1, <2>2
    <2>3. ASSUME NEW u \in Threads, x \in Serial!Contents(batch'[u])
          PROVE  x \in Serial!Contents(batch[u]) \/ x \in Serial!Contents(jobs[q])
      BY <1>1, <2>3
    <2> QED
      BY <1>1, <1>2, <2>2, <2>3 DEF Inside
  <1>3. BatchEmpty'
    BY <1>1 DEF RInv, BatchEmpty
  <1> QED
    BY <1>1, <1>2, <1>3, OnceFrame DEF RInv

LEMMA FinishJobOnce ==
    ASSUME RInv, NEW t \in Threads, FinishJob(t)
    PROVE  OncePosted' /\ BatchEmpty'
  <1> DEFINE q == current[t]
  <1>1. /\ q \in Queues /\ q # None /\ done \in [Queues -> Seq(Jobs)]
        /\ batch \in [Threads -> Seq(Jobs)] /\ pc \in [Threads -> PCs]
        /\ batch[t] # << >> /\ Head(batch[t]) \in Jobs
        /\ batch' = [batch EXCEPT ![t] = Tail(@)]
        /\ done' = [done EXCEPT ![q] = Append(@, Head(batch[t]))]
        /\ pc' = [pc EXCEPT ![t] = "next"] /\ UNCHANGED <<current, arg, posted, jobs>>
    BY NoneAssumption DEF RInv, IInv, TypeOK, LocalOK, LocalAt, FinishJob, shared
  <1>2. ASSUME NEW x, Inside(x)' PROVE Inside(x)
    <2>1. ASSUME NEW r \in Queues, x \in Serial!Contents(done'[r])
          PROVE  x \in Serial!Contents(done[r]) \/ x \in Serial!Contents(batch[t])
      <3>1. CASE r = q
        <4>1. x \in Serial!Contents(done[q]) \cup {Head(batch[t])}
          BY <1>1, <2>1, <3>1, ContentsAppend
        <4> QED
          BY <1>1, <3>1, <4>1, ContentsTail
      <3>2. CASE r # q
        BY <1>1, <2>1, <3>2
      <3> QED
        BY <3>1, <3>2
    <2>2. ASSUME NEW u \in Threads, x \in Serial!Contents(batch'[u])
          PROVE  x \in Serial!Contents(batch[u])
      BY <1>1, <2>2, ContentsTail
    <2> QED
      BY <1>1, <1>2, <2>1, <2>2 DEF Inside
  <1>3. BatchEmpty'
    BY <1>1 DEF RInv, BatchEmpty
  <1> QED
    BY <1>1, <1>2, <1>3, OnceFrame DEF RInv

\* The other steps move no job.
LEMMA QuietOnce ==
    ASSUME RInv, UNCHANGED <<jobs, batch, done, arg, posted>>
    PROVE  OncePosted'
  <1>1. \A x : Inside(x)' <=> Inside(x)
    BY DEF Inside
  <1> QED
    BY <1>1, OnceFrame DEF RInv

LEMMA OtherOnce ==
    ASSUME RInv, NEW t \in Threads,
           \/ GlobalPush(t) \/ StartJob(t) \/ FetchSub(t) \/ TimeLeft(t) \/ TimeUp(t)
           \/ GlobalBegin(t) \/ GlobalPop(t) \/ GlobalStop(t)
    PROVE  OncePosted' /\ BatchEmpty'
  <1>1. UNCHANGED <<jobs, batch, done, arg, posted>>
    BY DEF GlobalPush, StartJob, FetchSub, TimeLeft, TimeUp, GlobalBegin, GlobalPop,
           GlobalStop, shared, history
  <1>2. /\ pc \in [Threads -> PCs] /\ current \in [Threads -> Queues \cup {None}]
        /\ LocalAt(t) /\ \A u \in Threads : u # t => pc'[u] = pc[u] /\ current'[u] = current[u]
    BY DEF RInv, IInv, TypeOK, LocalOK, GlobalPush, StartJob, FetchSub, TimeLeft, TimeUp,
           GlobalBegin, GlobalPop, GlobalStop
  <1>3. current'[t] = None \/ pc'[t] \in {"popAll", "sub", "time"} => batch[t] = << >>
    <2>1. CASE GlobalPush(t)
      BY <1>2, <2>1 DEF RInv, IInv, TypeOK, BatchEmpty, LocalAt, GlobalPush
    <2>2. CASE StartJob(t)
      BY <1>2, <2>2 DEF RInv, BatchEmpty, LocalAt, StartJob
    <2>3. CASE FetchSub(t)
      BY <1>2, <2>3 DEF RInv, BatchEmpty, LocalAt, FetchSub
    <2>4. CASE TimeLeft(t) \/ TimeUp(t)
      BY <1>2, <2>4 DEF RInv, BatchEmpty, LocalAt, TimeLeft, TimeUp
    <2>5. CASE GlobalBegin(t) \/ GlobalPop(t) \/ GlobalStop(t)
      BY <1>2, <2>5 DEF RInv, BatchEmpty, LocalAt, GlobalBegin, GlobalPop, GlobalStop
    <2> QED
      BY <2>1, <2>2, <2>3, <2>4, <2>5
  <1>4. BatchEmpty'
    BY <1>1, <1>2, <1>3 DEF RInv, BatchEmpty
  <1> QED
    BY <1>1, <1>4, QuietOnce

LEMMA NextRInv == RInv /\ [Next]_vars => RInv'
  <1> SUFFICES ASSUME RInv, [Next]_vars PROVE RInv'
    OBVIOUS
  <1>1. IInv'
    BY NextIInv DEF RInv
  <1>2. OncePosted' /\ BatchEmpty'
    <2>1. ASSUME NEW t \in Threads, NEW j \in Jobs, PushCount(t, j)
          PROVE  OncePosted' /\ BatchEmpty'
      BY <2>1, PushCountOnce
    <2>2. ASSUME NEW t \in Threads, Step(t) PROVE OncePosted' /\ BatchEmpty'
      BY <2>2, PushEnqueueOnce, PopAllOnce, FinishJobOnce, OtherOnce DEF Step
    <2>3. ASSUME NEW w \in Workers, GlobalBegin(w) \/ GlobalPop(w) \/ GlobalStop(w)
          PROVE  OncePosted' /\ BatchEmpty'
      BY <2>3, OtherOnce DEF Threads
    <2>4. CASE UNCHANGED vars
      BY <2>4, QuietOnce DEF vars, shared, local, history, RInv, BatchEmpty
    <2> QED
      BY <2>1, <2>2, <2>3, <2>4 DEF Next
  <1> QED
    BY <1>1, <1>2 DEF RInv

LEMMA InitRInv == Init => RInv
  <1> SUFFICES ASSUME Init PROVE RInv
    OBVIOUS
  <1>1. Serial!Contents(<< >>) = {}
    BY DEF Serial!Contents
  <1>2. \A j : ~Inside(j)
    BY <1>1 DEF Init, Inside
  <1>3. OncePosted /\ BatchEmpty
    BY <1>2 DEF Init, OncePosted, BatchEmpty
  <1> QED
    BY <1>3, InitIInv DEF RInv

-----------------------------------------------------------------------------
(* Steps of SerialExecutor *)

\* What the abstract step sees: what is pending or done is inside.
LEMMA NewToQueue ==
    ASSUME IInv, Abs, NEW q \in Queues, NEW j, j # None, ~Inside(j)
    PROVE  /\ j \notin Serial!Contents(WaitingJobs(q))
           /\ j \notin Serial!Contents(done[q])
           /\ j # RunningJob(q)
  <1>1. j \notin Serial!Contents(done[q]) /\ j \notin Serial!Contents(jobs[q])
    BY DEF Inside
  <1>2. CASE \E t \in Threads : Executing(t, q)
    <2>1. PICK t \in Threads : Executing(t, q)
      BY <1>2
    <2>2. RunningJob(q) = Runs(t) /\ WaitingJobs(q) = Rest(t) \o jobs[q]
      BY <2>1 DEF Abs
    <2>3. /\ batch[t] \in Seq(Jobs) /\ (InJob(t) => batch[t] # << >>)
          /\ j \notin Serial!Contents(batch[t]) /\ jobs[q] \in Seq(Jobs)
      BY DEF Inside, IInv, TypeOK, LocalOK, LocalAt, InJob
    <2>4. j # Runs(t) /\ Rest(t) \in Seq(Jobs) /\ j \notin Serial!Contents(Rest(t))
      <3>1. CASE InJob(t)
        BY <2>3, <3>1, ContentsTail, HeadTailProperties DEF Runs, Rest
      <3>2. CASE ~InJob(t)
        BY <2>3, <3>2 DEF Runs, Rest
      <3> QED
        BY <3>1, <3>2
    <2>5. j \notin Serial!Contents(Rest(t) \o jobs[q])
      BY <1>1, <2>3, <2>4, ContentsConcat
    <2> QED
      BY <1>1, <2>2, <2>4, <2>5
  <1>3. CASE \A t \in Threads : ~Executing(t, q)
    BY <1>1, <1>3 DEF Abs
  <1> QED
    BY <1>2, <1>3

LEMMA PushCountSim ==
    ASSUME RInv, Abs, Abs', NEW t \in Threads, NEW j \in Jobs, PushCount(t, j)
    PROVE  UNCHANGED Serial!vars
  <1>1. UNCHANGED <<jobs, current, batch, done>>
    BY DEF PushCount
  <1>2. \A u \in Threads : current[u] # None => (InJob(u)' <=> InJob(u))
    BY DEF PushCount, RInv, IInv, TypeOK, LocalOK, LocalAt, InJob
  <1> QED
    BY <1>1, <1>2, QuietStep

LEMMA OtherSim ==
    ASSUME RInv, Abs, Abs', NEW t \in Threads,
           GlobalPush(t) \/ TimeLeft(t) \/ GlobalBegin(t) \/ GlobalStop(t)
    PROVE  UNCHANGED Serial!vars
  <1>1. UNCHANGED <<jobs, current, batch, done>>
    BY DEF GlobalPush, TimeLeft, GlobalBegin, GlobalStop, shared, history
  <1>2. \A u \in Threads : current[u] # None => (InJob(u)' <=> InJob(u))
    BY DEF GlobalPush, TimeLeft, GlobalBegin, GlobalStop, RInv, IInv, TypeOK, LocalOK,
           LocalAt, InJob
  <1> QED
    BY <1>1, <1>2, QuietStep

\* The job is submitted when it is queued.
LEMMA PushEnqueueSim ==
    ASSUME RInv, Abs, Abs', NEW t \in Threads, PushEnqueue(t)
    PROVE  \E j \in Jobs : Serial!Submit(j)
  <1>0. arg[t] \in Jobs /\ arg[t] # None
    BY DEF RInv, IInv, TypeOK, LocalOK, LocalAt, PushEnqueue
  <1> PICK j \in Jobs : j = arg[t]
    BY <1>0
  <1> PICK q \in Queues : q = Home[j]
    BY HomeAssumption
  <1>1. /\ j = arg[t] /\ q = Home[j] /\ j # None /\ q # None
        /\ jobs \in [Queues -> Seq(Jobs)] /\ jobs' = [jobs EXCEPT ![q] = Append(@, j)]
        /\ UNCHANGED <<batch, done>> /\ batch \in [Threads -> Seq(Jobs)]
        /\ pc \in [Threads -> PCs] /\ current \in [Threads -> Queues \cup {None}]
        /\ pc[t] = "enqueue"
    BY <1>0, NoneAssumption DEF RInv, IInv, TypeOK, PushEnqueue
  <1>2. \/ current' = current /\ (InJob(t)' <=> InJob(t))
        \/ /\ prev[t] = 0 /\ current[t] = None /\ current' = [current EXCEPT ![t] = q]
           /\ ~InJob(t)' /\ batch[t] = << >>
    BY <1>1 DEF PushEnqueue, InJob, RInv, BatchEmpty
  <1>3. \A u \in Threads : u # t => pc'[u] = pc[u]
    BY <1>1 DEF PushEnqueue
  <1>4. ASSUME NEW u \in Threads, NEW r \in Queues, Executing(u, r)
        PROVE  Executing(u, r)' /\ Runs(u)' = Runs(u) /\ Rest(u)' = Rest(u)
    <2>1. current'[u] = current[u] /\ (InJob(u)' <=> InJob(u))
      BY <1>1, <1>2, <1>3, <1>4, NoneAssumption DEF Executing, InJob
    <2> QED
      BY <1>1, <1>4, <2>1 DEF Executing, Runs, Rest
  <1>5. ASSUME NEW r \in Queues, r # q PROVE SameQueue(r)
    <2>1. jobs'[r] = jobs[r]
      BY <1>1, <1>5
    <2>2. \A u \in Threads : Executing(u, r)' => Executing(u, r)
      BY <1>1, <1>2, <1>5 DEF Executing
    <2> QED
      BY <1>4, <2>1, <2>2, MappingFrame
  <1>6. WaitingJobs(q)' = Append(WaitingJobs(q), j) /\ RunningJob(q)' = RunningJob(q)
    <2>0. jobs[q] \in Seq(Jobs) /\ jobs'[q] = Append(jobs[q], j)
      BY <1>1
    <2>1. CASE \E u \in Threads : Executing(u, q)
      <3>1. PICK u \in Threads : Executing(u, q)
        BY <2>1
      <3>2. /\ RunningJob(q) = Runs(u) /\ WaitingJobs(q) = Rest(u) \o jobs[q]
            /\ RunningJob(q)' = Runs(u) /\ WaitingJobs(q)' = Rest(u) \o jobs'[q]
        <4>1. Executing(u, q)' /\ Runs(u)' = Runs(u) /\ Rest(u)' = Rest(u)
          BY <1>1, <1>4, <3>1
        <4> QED
          BY <1>1, <3>1, <4>1 DEF Abs
      <3>3. Rest(u) \in Seq(Jobs)
        BY <1>1, HeadTailProperties DEF Rest, RInv, IInv, LocalOK, LocalAt, InJob
      <3>4. Rest(u) \o Append(jobs[q], j) = Append(Rest(u) \o jobs[q], j)
        BY <2>0, <3>3, AppendConcat
      <3> QED
        BY <2>0, <3>2, <3>4
    <2>2. CASE \A u \in Threads : ~Executing(u, q)
      <3>1. RunningJob(q) = None /\ WaitingJobs(q) = jobs[q]
        BY <1>1, <2>2 DEF Abs
      <3>2. CASE current' = current
        BY <1>1, <2>0, <2>2, <3>1, <3>2 DEF Abs, Executing
      <3>3. CASE current' = [current EXCEPT ![t] = q] /\ ~InJob(t)' /\ batch[t] = << >>
        <4>1. Executing(t, q)' /\ Runs(t)' = None /\ Rest(t)' = << >>
          BY <1>1, <3>3 DEF Executing, Runs, Rest
        <4>2. RunningJob(q)' = None /\ WaitingJobs(q)' = << >> \o jobs'[q]
          BY <1>1, <4>1 DEF Abs
        <4>3. << >> \o jobs'[q] = jobs'[q]
          BY <1>1, <2>0, ConcatEmptySeq
        <4> QED
          BY <2>0, <3>1, <4>2, <4>3
      <3> QED
        BY <1>2, <3>2, <3>3
    <2> QED
      BY <2>1, <2>2
  <1>7. Serial!Unsubmitted(j)
    <2>1. ~Inside(j)
      BY <1>1 DEF RInv, OncePosted
    <2>2. /\ j \notin Serial!Contents(WaitingJobs(q))
          /\ j \notin Serial!Contents(done[q]) /\ j # RunningJob(q)
      BY <1>1, <2>1, NewToQueue DEF RInv
    <2> QED
      BY <1>1, <2>2 DEF Serial!Unsubmitted
  <1>8. [r \in Queues |-> WaitingJobs(r)'] =
            [[r \in Queues |-> WaitingJobs(r)] EXCEPT ![q] = Append(@, j)]
    BY <1>1, <1>5, <1>6 DEF SameQueue
  <1>9. [r \in Queues |-> RunningJob(r)'] = [r \in Queues |-> RunningJob(r)]
    BY <1>5, <1>6 DEF SameQueue
  <1>10. Serial!Submit(j)
    BY <1>1, <1>7, <1>8, <1>9 DEF Serial!Submit
  <1> QED
    BY <1>1, <1>10

LEMMA PopAllSim ==
    ASSUME RInv, Abs, Abs', NEW t \in Threads, PopAll(t)
    PROVE  UNCHANGED Serial!vars
  <1> DEFINE q == current[t]
  <1>1. /\ q \in Queues /\ jobs \in [Queues -> Seq(Jobs)] /\ pc[t] = "popAll"
        /\ batch \in [Threads -> Seq(Jobs)] /\ pc \in [Threads -> PCs]
        /\ batch' = [batch EXCEPT ![t] = jobs[q]] /\ jobs' = [jobs EXCEPT ![q] = << >>]
        /\ pc' = [pc EXCEPT ![t] = "next"] /\ UNCHANGED <<current, done>>
        /\ batch[t] = << >>
    BY DEF RInv, IInv, TypeOK, LocalOK, LocalAt, PopAll, history, BatchEmpty
  <1>2. ASSUME NEW r \in Queues, r # q PROVE SameQueue(r)
    <2>1. \A u \in Threads : Executing(u, r)' <=> Executing(u, r)
      BY <1>1 DEF Executing
    <2>2. \A u \in Threads : Executing(u, r) => Runs(u)' = Runs(u) /\ Rest(u)' = Rest(u)
      BY <1>1, <1>2 DEF Executing, Runs, Rest, InJob
    <2>3. jobs'[r] = jobs[r]
      BY <1>1, <1>2
    <2> QED
      BY <2>1, <2>2, <2>3, MappingFrame
  <1>3. SameQueue(q)
    <2>1. /\ Executing(t, q) /\ Executing(t, q)' /\ Runs(t) = None /\ Runs(t)' = None
          /\ Rest(t) = << >> /\ Rest(t)' = jobs[q] /\ jobs'[q] = << >>
      BY <1>1 DEF Executing, Runs, Rest, InJob
    <2>2. /\ RunningJob(q) = None /\ WaitingJobs(q) = << >> \o jobs[q]
          /\ RunningJob(q)' = None /\ WaitingJobs(q)' = jobs[q] \o << >>
      <3>1. RunningJob(q) = Runs(t) /\ WaitingJobs(q) = Rest(t) \o jobs[q]
        BY <1>1, <2>1 DEF Abs
      <3>2. RunningJob(q)' = Runs(t)' /\ WaitingJobs(q)' = Rest(t)' \o jobs'[q]
        BY <1>1, <2>1 DEF Abs
      <3> QED
        BY <2>1, <3>1, <3>2
    <2>3. << >> \o jobs[q] = jobs[q] \o << >>
      BY <1>1, ConcatEmptySeq
    <2> QED
      BY <1>1, <2>2, <2>3 DEF SameQueue
  <1> QED
    BY <1>1, <1>2, <1>3, AllSame

LEMMA StartJobSim ==
    ASSUME RInv, Abs, Abs', NEW t \in Threads, StartJob(t)
    PROVE  (\E q \in Queues : Serial!Start(q)) \/ UNCHANGED Serial!vars
  <1>0. current[t] \in Queues
    BY DEF RInv, IInv, TypeOK, LocalOK, LocalAt, StartJob
  <1> PICK q \in Queues : q = current[t]
    BY <1>0
  <1>1. /\ q = current[t] /\ q # None /\ pc[t] = "next" /\ pc \in [Threads -> PCs]
        /\ batch[t] \in Seq(Jobs) /\ jobs[q] \in Seq(Jobs)
        /\ UNCHANGED <<current, jobs, batch, done>>
        /\ pc' = [pc EXCEPT ![t] = IF batch[t] = << >> THEN "sub" ELSE "run"]
    BY NoneAssumption DEF RInv, IInv, TypeOK, LocalOK, LocalAt, StartJob, history, shared
  <1>2. CASE batch[t] = << >>
    <2>1. \A u \in Threads : current[u] # None => (InJob(u)' <=> InJob(u))
      BY <1>1, <1>2 DEF InJob
    <2> QED
      BY <1>1, <2>1, QuietStep
  <1>3. CASE batch[t] # << >>
    <2>1. ASSUME NEW r \in Queues, r # q PROVE SameQueue(r)
      <3>1. \A u \in Threads : Executing(u, r)' <=> Executing(u, r)
        BY <1>1 DEF Executing
      <3>2. \A u \in Threads : Executing(u, r) => Runs(u)' = Runs(u) /\ Rest(u)' = Rest(u)
        BY <1>1, <2>1 DEF Executing, Runs, Rest, InJob
      <3> QED
        BY <1>1, <3>1, <3>2, MappingFrame
    <2>2. /\ RunningJob(q) = None /\ WaitingJobs(q) = batch[t] \o jobs[q]
          /\ RunningJob(q)' = Head(batch[t]) /\ WaitingJobs(q)' = Tail(batch[t]) \o jobs[q]
      <3>1. /\ Executing(t, q) /\ Executing(t, q)' /\ Runs(t) = None /\ Rest(t) = batch[t]
            /\ Runs(t)' = Head(batch[t]) /\ Rest(t)' = Tail(batch[t])
        BY <1>1, <1>3 DEF Executing, Runs, Rest, InJob
      <3> QED
        BY <1>1, <3>1 DEF Abs
    <2>3. /\ batch[t] \o jobs[q] # << >> /\ Head(batch[t] \o jobs[q]) = Head(batch[t])
          /\ Tail(batch[t] \o jobs[q]) = Tail(batch[t]) \o jobs[q]
      BY <1>1, <1>3, HeadTailConcat
    <2>4. [r \in Queues |-> WaitingJobs(r)'] =
              [[r \in Queues |-> WaitingJobs(r)] EXCEPT ![q] = Tail(@)]
      BY <1>1, <2>1, <2>2, <2>3 DEF SameQueue
    <2>5. [r \in Queues |-> RunningJob(r)'] =
              [[r \in Queues |-> RunningJob(r)] EXCEPT ![q] = Head(WaitingJobs(q))]
      BY <1>1, <2>1, <2>2, <2>3 DEF SameQueue
    <2>6. Serial!Start(q)
      BY <1>1, <2>2, <2>3, <2>4, <2>5 DEF Serial!Start
    <2> QED
      BY <1>1, <2>6
  <1> QED
    BY <1>2, <1>3

LEMMA FinishJobSim ==
    ASSUME RInv, Abs, Abs', NEW t \in Threads, FinishJob(t)
    PROVE  \E q \in Queues : Serial!Finish(q)
  <1>0. current[t] \in Queues
    BY DEF RInv, IInv, TypeOK, LocalOK, LocalAt, FinishJob
  <1> PICK q \in Queues : q = current[t]
    BY <1>0
  <1>1. /\ q = current[t] /\ q # None /\ pc[t] = "run" /\ pc \in [Threads -> PCs]
        /\ batch \in [Threads -> Seq(Jobs)] /\ batch[t] # << >> /\ Head(batch[t]) \in Jobs
        /\ UNCHANGED <<current, jobs>> /\ done \in [Queues -> Seq(Jobs)]
        /\ batch' = [batch EXCEPT ![t] = Tail(@)]
        /\ done' = [done EXCEPT ![q] = Append(@, Head(batch[t]))]
        /\ pc' = [pc EXCEPT ![t] = "next"]
    BY NoneAssumption DEF RInv, IInv, TypeOK, LocalOK, LocalAt, FinishJob, shared
  <1>2. ASSUME NEW r \in Queues, r # q PROVE SameQueue(r)
    <2>1. \A u \in Threads : Executing(u, r)' <=> Executing(u, r)
      BY <1>1 DEF Executing
    <2>2. \A u \in Threads : Executing(u, r) => Runs(u)' = Runs(u) /\ Rest(u)' = Rest(u)
      BY <1>1, <1>2 DEF Executing, Runs, Rest, InJob
    <2> QED
      BY <1>1, <2>1, <2>2, MappingFrame
  <1>3. /\ RunningJob(q) = Head(batch[t]) /\ RunningJob(q)' = None
        /\ WaitingJobs(q)' = WaitingJobs(q)
    <2>1. /\ Executing(t, q) /\ Executing(t, q)' /\ Runs(t) = Head(batch[t]) /\ Runs(t)' = None
          /\ Rest(t) = Tail(batch[t]) /\ Rest(t)' = Tail(batch[t])
      BY <1>1 DEF Executing, Runs, Rest, InJob
    <2>2. RunningJob(q) = Head(batch[t]) /\ WaitingJobs(q) = Tail(batch[t]) \o jobs[q]
      BY <2>1 DEF Abs
    <2>3. RunningJob(q)' = None /\ WaitingJobs(q)' = Tail(batch[t]) \o jobs'[q]
      BY <2>1 DEF Abs
    <2> QED
      BY <1>1, <2>2, <2>3
  <1>4. Head(batch[t]) # None
    BY <1>1, NoneAssumption
  <1>5. [r \in Queues |-> WaitingJobs(r)'] = [r \in Queues |-> WaitingJobs(r)]
    BY <1>2, <1>3 DEF SameQueue
  <1>6. [r \in Queues |-> RunningJob(r)'] =
            [[r \in Queues |-> RunningJob(r)] EXCEPT ![q] = None]
    BY <1>1, <1>2, <1>3 DEF SameQueue
  <1>7. Serial!Finish(q)
    BY <1>1, <1>3, <1>4, <1>5, <1>6 DEF Serial!Finish
  <1> QED
    BY <1>1, <1>7

\* Taking a queue over and giving it up, with nothing left to run.
LEMMA OwnershipSim ==
    ASSUME RInv, Abs, Abs', NEW t \in Threads, FetchSub(t) \/ TimeUp(t) \/ GlobalPop(t)
    PROVE  UNCHANGED Serial!vars
  <1>1. /\ jobs \in [Queues -> Seq(Jobs)] /\ pc \in [Threads -> PCs]
        /\ current \in [Threads -> Queues \cup {None}]
        /\ UNCHANGED <<jobs, batch, done>> /\ batch[t] = << >>
        /\ ~InJob(t) /\ ~InJob(t)'
        /\ \A u \in Threads : u # t => current'[u] = current[u] /\ pc'[u] = pc[u]
    BY DEF RInv, IInv, TypeOK, LocalOK, LocalAt, BatchEmpty, FetchSub, TimeUp, GlobalPop,
           shared, history, InJob
  <1>2. ASSUME NEW r \in Queues PROVE SameQueue(r)
    <2>0. Runs(t) = None /\ Runs(t)' = None /\ Rest(t) = << >> /\ Rest(t)' = << >>
      BY <1>1 DEF Runs, Rest
    <2>1. CASE \E u \in Threads : u # t /\ Executing(u, r)
      <3>1. PICK u \in Threads : u # t /\ Executing(u, r)
        BY <2>1
      <3>2. Executing(u, r)' /\ Runs(u)' = Runs(u) /\ Rest(u)' = Rest(u)
        BY <1>1, <3>1 DEF Executing, Runs, Rest, InJob
      <3>3. RunningJob(r) = Runs(u) /\ WaitingJobs(r) = Rest(u) \o jobs[r]
        BY <3>1 DEF Abs
      <3>4. RunningJob(r)' = Runs(u)' /\ WaitingJobs(r)' = Rest(u)' \o jobs'[r]
        BY <3>2 DEF Abs
      <3> QED
        BY <1>1, <3>2, <3>3, <3>4 DEF SameQueue
    <2>2. CASE \A u \in Threads : u # t => ~Executing(u, r)
      <3>1. << >> \o jobs[r] = jobs[r]
        BY <1>1, ConcatEmptySeq
      <3>2. RunningJob(r) = None /\ WaitingJobs(r) = jobs[r]
        BY <2>0, <2>2, <3>1 DEF Abs
      <3>3. \A u \in Threads : u # t => ~Executing(u, r)'
        BY <1>1, <2>2 DEF Executing
      <3>4. RunningJob(r)' = None /\ WaitingJobs(r)' = jobs'[r]
        BY <1>1, <2>0, <3>1, <3>3 DEF Abs
      <3> QED
        BY <1>1, <3>2, <3>4 DEF SameQueue
    <2> QED
      BY <2>1, <2>2
  <1> QED
    BY <1>1, <1>2, AllSame

LEMMA StepSim ==
    ASSUME RInv, Abs, Abs', [Next]_vars
    PROVE  [Serial!Next]_(Serial!vars)
  <1>1. ASSUME NEW t \in Threads, NEW j \in Jobs, PushCount(t, j)
        PROVE  [Serial!Next]_(Serial!vars)
    BY <1>1, PushCountSim
  <1>2. ASSUME NEW t \in Threads, PushEnqueue(t) PROVE [Serial!Next]_(Serial!vars)
    BY <1>2, PushEnqueueSim DEF Serial!Next
  <1>3. ASSUME NEW t \in Threads, StartJob(t) PROVE [Serial!Next]_(Serial!vars)
    BY <1>3, StartJobSim DEF Serial!Next
  <1>4. ASSUME NEW t \in Threads, FinishJob(t) PROVE [Serial!Next]_(Serial!vars)
    BY <1>4, FinishJobSim DEF Serial!Next
  <1>5. ASSUME NEW t \in Threads, PopAll(t) PROVE [Serial!Next]_(Serial!vars)
    BY <1>5, PopAllSim
  <1>6. ASSUME NEW t \in Threads,
               GlobalPush(t) \/ TimeLeft(t) \/ GlobalBegin(t) \/ GlobalStop(t)
        PROVE  [Serial!Next]_(Serial!vars)
    BY <1>6, OtherSim
  <1>7. ASSUME NEW t \in Threads, FetchSub(t) \/ TimeUp(t) \/ GlobalPop(t)
        PROVE  [Serial!Next]_(Serial!vars)
    BY <1>7, OwnershipSim
  <1>8. CASE UNCHANGED vars
    <2>1. UNCHANGED <<jobs, current, batch, done, pc>>
      BY <1>8 DEF vars, shared, local, history
    <2> QED
      BY <2>1, QuietStep DEF InJob
  <1> QED
    BY <1>1, <1>2, <1>3, <1>4, <1>5, <1>6, <1>7, <1>8 DEF Next, Step, Threads

LEMMA InitSim == Init /\ Abs => Serial!Init
  <1> SUFFICES ASSUME Init, Abs PROVE Serial!Init
    OBVIOUS
  <1>1. ASSUME NEW q \in Queues PROVE RunningJob(q) = None /\ WaitingJobs(q) = << >>
    <2>1. \A t \in Threads : ~Executing(t, q)
      BY NoneAssumption DEF Init, Executing
    <2> QED
      BY <2>1 DEF Abs, Init
  <1> QED
    BY <1>1 DEF Init, Serial!Init

\* To those who post on it a queue is a serial executor: one job at a time,
\* each once, in the order of _jobs.Push, whatever threads it runs on
\* (JobQueue::Push, Execute, DoGlobalQueueWork).
THEOREM QueuesAreSerial == Spec => ImplementsSerial
  <1>1. RInv => Abs
    BY MappingHolds DEF RInv
  <1>2. RInv /\ Abs /\ Abs' /\ [Next]_vars => [Serial!Next]_(Serial!vars)
    BY StepSim
  <1> QED
    BY <1>1, <1>2, InitRInv, NextRInv, InitSim, PTL DEF Spec, ImplementsSerial, Serial!Spec
=============================================================================
