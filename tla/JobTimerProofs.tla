--------------------------- MODULE JobTimerProofs ---------------------------
(***************************************************************************)
(* Theorems about JobTimer, for any threads, chains and clock: TypeOK,     *)
(* OneDistributor and ChainsConserved.                                     *)
(*                                                                         *)
(* A tick has one place: an item of the timer, an index of the room's      *)
(* queue, the booking of a thread, an index of what a distributor has      *)
(* still to push.  Every step takes it from one place to another or shifts *)
(* the index; a reserved item is new in the timer because its tick would   *)
(* else have had two places.                                               *)
(***************************************************************************)
EXTENDS JobTimer, FiniteSetTheorems, SequenceTheorems, TLAPS

Types == TypeOK /\ IsFiniteSet(items)

LEMMA InitTypes == Init => Types
  <1> SUFFICES ASSUME Init PROVE Types
    OBVIOUS
  <1>1. IsFiniteSet(items)
    BY FS_EmptySet DEF Init
  <1>2. distributing \in BOOLEAN
    BY DEF Init
  <1>3. /\ now \in 0 .. MaxNow /\ items \subseteq Item /\ queue \in Seq(Chains)
        /\ pc \in [Threads -> PCs] /\ asked \in [Threads -> 0 .. MaxNow]
        /\ due \in [Threads -> Seq(Item)] /\ booking \in [Threads -> Item \cup {None}]
        /\ posted \subseteq Chains
    BY DelayAssumption DEF Init, PCs
  <1>4. \A t \in Threads : /\ booking[t] # None <=> pc[t] = "reserve"
                           /\ due[t] # << >> => pc[t] = "push"
    BY DEF Init
  <1> QED
    BY <1>1, <1>2, <1>3, <1>4 DEF Types, TypeOK

\* What a distributor takes is a sequence of the due items, each once.
LEMMA InAnyOrder ==
    ASSUME NEW S, IsFiniteSet(S), NEW s \in SetToSeqs(S)
    PROVE  /\ s \in Seq(S) /\ Len(s) = Cardinality(S)
           /\ \A i, j \in 1 .. Len(s) : s[i] = s[j] => i = j
           /\ \A x \in S : \E i \in 1 .. Len(s) : s[i] = x
  <1> DEFINE n == Cardinality(S)
  <1>1. n \in Nat
    BY FS_CardinalityType
  <1>2. s \in [1 .. n -> S] /\ \A i, j \in 1 .. n : i # j => s[i] # s[j]
    BY DEF SetToSeqs
  <1>3. s \in Seq(S) /\ Len(s) = n
    BY <1>1, <1>2
  <1>4. IsFiniteSet(1 .. n) /\ Cardinality(1 .. n) = n
    BY <1>1, FS_Interval
  <1>5. s \in Injection(1 .. n, S)
    BY <1>2 DEF Injection, IsInjective
  <1>6. s \in Surjection(1 .. n, S)
    BY <1>4, <1>5, FS_Injection
  <1> QED
    BY <1>2, <1>3, <1>6 DEF Surjection

LEMMA NextTypes ==
    ASSUME Types, [Next]_vars
    PROVE  Types'
  <1> USE DelayAssumption, NoneAssumption
  <1>1. CASE Tick
    BY <1>1 DEF Tick, Types, TypeOK
  <1>2. ASSUME NEW c \in Chains, Post(c)
        PROVE  Types'
    BY <1>2 DEF Post, Types, TypeOK
  <1>3. ASSUME NEW t \in Threads, UpdateTick(t)
        PROVE  Types'
    <2>1. Head(queue) \in Chains /\ Tail(queue) \in Seq(Chains)
      BY <1>3 DEF UpdateTick, Types, TypeOK
    <2>2. [executeTick |-> now + Delay, job |-> Head(queue)] \in Item
      BY <1>3, <2>1 DEF UpdateTick, Types, TypeOK, Item
    <2> QED
      BY <1>3, <2>1, <2>2 DEF UpdateTick, Goto, PCs, Types, TypeOK
  <1>4. ASSUME NEW t \in Threads, Reserve(t)
        PROVE  Types'
    <2>1. booking[t] \in Item
      BY <1>4 DEF Reserve, Types, TypeOK
    <2>2. IsFiniteSet(items')
      BY <1>4, FS_AddElement DEF Reserve, Types
    <2> QED
      BY <1>4, <2>1, <2>2 DEF Reserve, Goto, PCs, Types, TypeOK
  <1>5. ASSUME NEW w \in Workers, Distribute(w)
        PROVE  Types'
    <2>1. w \in Threads
      BY DEF Threads
    <2>2. CASE ReadClock(w)
      BY <2>1, <2>2 DEF ReadClock, Goto, PCs, Types, TypeOK
    <2>3. CASE Exchange(w)
      <3>1. distributing' \in BOOLEAN
        BY <2>3 DEF Exchange
      <3>2. pc' \in [Threads -> PCs] /\ pc'[w] \in {"idle", "collect"} /\ pc[w] = "exchange"
        BY <2>1, <2>3 DEF Exchange, Goto, PCs, Types, TypeOK
      <3>3. \A t \in Threads \ {w} : pc'[t] = pc[t]
        BY <2>1, <2>3 DEF Exchange, Goto, Types, TypeOK
      <3>4. UNCHANGED <<now, items, queue, asked, due, booking, posted>>
        BY <2>3 DEF Exchange
      <3>5. \A t \in Threads : /\ booking'[t] # None <=> pc'[t] = "reserve"
                               /\ due'[t] # << >> => pc'[t] = "push"
        BY <3>2, <3>3, <3>4 DEF Types, TypeOK
      <3> QED
        BY <3>1, <3>2, <3>4, <3>5 DEF Types, TypeOK
    <2>4. CASE Collect(w)
      <3> DEFINE ready == {i \in items : i.executeTick <= asked[w]}
      <3>1. PICK s \in SetToSeqs(ready) : due' = [due EXCEPT ![w] = s]
        BY <2>4 DEF Collect
      <3>2. items' = items \ ready /\ ready \subseteq items /\ items \subseteq Item
        BY <2>4 DEF Collect, Types, TypeOK
      <3>3. IsFiniteSet(ready) /\ IsFiniteSet(items')
        BY <3>2, FS_Subset DEF Types
      <3>4. s \in Seq(ready)
        BY <3>3, InAnyOrder
      <3> HIDE DEF ready
      <3>5. s \in Seq(Item)
        BY <3>2, <3>4
      <3> QED
        BY <2>1, <2>4, <3>1, <3>2, <3>3, <3>5 DEF Collect, Goto, PCs, Types, TypeOK
    <2>5. CASE PushDue(w)
      <3>1. Head(due[w]) \in Item /\ Tail(due[w]) \in Seq(Item)
        BY <2>1, <2>5 DEF PushDue, Types, TypeOK
      <3>2. Append(queue, Head(due[w]).job) \in Seq(Chains)
        BY <3>1 DEF Item, Types, TypeOK
      <3> QED
        BY <2>1, <2>5, <3>1, <3>2 DEF PushDue, Types, TypeOK
    <2>6. CASE Release(w)
      BY <2>1, <2>6 DEF Release, Goto, PCs, Types, TypeOK
    <2> QED
      BY <1>5, <2>2, <2>3, <2>4, <2>5, <2>6 DEF Distribute
  <1>6. CASE UNCHANGED vars
    BY <1>6 DEF vars, Types, TypeOK
  <1> QED
    BY <1>1, <1>2, <1>3, <1>4, <1>5, <1>6 DEF Next

\* Types, and what a thread's place says of its local variables.
THEOREM TypeCorrect == Spec => []TypeOK
  BY InitTypes, NextTypes, PTL DEF Spec, Types

THEOREM TypesHold == Spec => []Types
  BY InitTypes, NextTypes, PTL DEF Spec

-----------------------------------------------------------------------------
(* The flag *)

LEMMA NextFlag ==
    ASSUME Types, OneDistributor, [Next]_vars
    PROVE  OneDistributor'
  <1>1. CASE UNCHANGED <<distributing, pc>>
    BY <1>1 DEF OneDistributor, Distributing
  <1>2. ASSUME NEW t \in Threads, UpdateTick(t) \/ Reserve(t) \/ (t \in Workers /\ ReadClock(t))
        PROVE  OneDistributor'
    <2>1. /\ distributing' = distributing
          /\ \A u \in Threads : Distributing(u)' <=> Distributing(u)
      BY <1>2 DEF UpdateTick, Reserve, ReadClock, Goto, Types, TypeOK, Distributing
    <2> QED
      BY <2>1 DEF OneDistributor
  <1>3. ASSUME NEW w \in Threads, Exchange(w)
        PROVE  OneDistributor'
    <2>1. CASE distributing
      <3>1. distributing' /\ \A u \in Threads : Distributing(u)' <=> Distributing(u)
        BY <1>3, <2>1 DEF Exchange, Goto, Types, TypeOK, Distributing
      <3> QED
        BY <2>1, <3>1 DEF OneDistributor
    <2>2. CASE ~distributing
      <3>1. distributing' /\ \A u \in Threads : Distributing(u)' <=> Distributing(u) \/ u = w
        BY <1>3, <2>2 DEF Exchange, Goto, Types, TypeOK, Distributing
      <3> QED
        BY <2>2, <3>1 DEF OneDistributor
    <2> QED
      BY <2>1, <2>2
  <1>4. ASSUME NEW w \in Threads, Collect(w)
        PROVE  OneDistributor'
    <2>1. /\ distributing' = distributing
          /\ \A u \in Threads : Distributing(u)' <=> Distributing(u)
      BY <1>4 DEF Collect, Goto, Types, TypeOK, Distributing
    <2> QED
      BY <2>1 DEF OneDistributor
  <1>5. ASSUME NEW w \in Threads, Release(w)
        PROVE  OneDistributor'
    <2>1. /\ ~distributing' /\ Distributing(w)
          /\ \A u \in Threads : Distributing(u)' <=> Distributing(u) /\ u # w
      BY <1>5 DEF Release, Goto, Types, TypeOK, Distributing
    <2> QED
      BY <2>1 DEF OneDistributor
  <1>6. Tick \/ (\E c \in Chains : Post(c)) \/ (\E w \in Workers : PushDue(w)) \/ UNCHANGED vars
           => UNCHANGED <<distributing, pc>>
    BY DEF Tick, Post, PushDue, vars
  <1>7. ASSUME NEW w \in Workers, Distribute(w)
        PROVE  OneDistributor'
    <2>1. w \in Threads
      BY DEF Threads
    <2> QED
      BY <1>1, <1>2, <1>3, <1>4, <1>5, <1>6, <1>7, <2>1 DEF Distribute
  <1> QED
    BY <1>1, <1>2, <1>6, <1>7 DEF Next

\* "Only one thread at a time passes": the flag _distributing is set exactly
\* while one worker distributes (JobTimer::Distribute).
THEOREM OneAtATime == Spec => []OneDistributor
  <1>1. Init => OneDistributor
    <2> SUFFICES ASSUME Init PROVE OneDistributor
      OBVIOUS
    <2>1. ~distributing /\ \A w \in Threads : ~Distributing(w)
      BY DEF Init, Distributing
    <2> QED
      BY <2>1 DEF OneDistributor
  <1>2. Types /\ OneDistributor /\ [Next]_vars => OneDistributor'
    BY NextFlag
  <1> QED
    BY <1>1, <1>2, TypesHold, PTL DEF Spec

-----------------------------------------------------------------------------
(* The chains *)

\* Chain c's tick is there: in the timer as item x, at index k of the queue,
\* in the booking of thread x, at index k of what thread x has to push.
There(c, kind, x, k) ==
    \/ kind = "timer" /\ k = 0 /\ x \in items /\ x.job = c
    \/ kind = "queue" /\ x = None /\ k \in 1 .. Len(queue) /\ queue[k] = c
    \/ kind = "booking" /\ k = 0 /\ x \in Threads /\ booking[x] # None /\ booking[x].job = c
    \/ kind = "due" /\ x \in Threads /\ k \in 1 .. Len(due[x]) /\ due[x][k].job = c

\* It is there and nowhere else.
Only(c, kind, x, k) ==
    \A kind2, x2, k2 : There(c, kind2, x2, k2) <=> kind2 = kind /\ x2 = x /\ k2 = k

OnePlace == \A c \in Chains :
    /\ c \in posted => \E kind, x, k : Only(c, kind, x, k)
    /\ c \notin posted => \A kind, x, k : ~There(c, kind, x, k)

LEMMA PostMoves ==
    ASSUME Types, OnePlace, NEW d \in Chains, Post(d)
    PROVE  OnePlace'
  <1>1. /\ queue \in Seq(Chains) /\ queue' = Append(queue, d) /\ Len(queue) \in Nat
        /\ Len(queue') = Len(queue) + 1
        /\ \A k \in 1 .. Len(queue') :
              queue'[k] = IF k = Len(queue') THEN d ELSE queue[k]
    BY DEF Post, Types, TypeOK
  <1>2. d \notin posted /\ posted' = posted \cup {d} /\ UNCHANGED <<items, booking, due>>
    BY DEF Post
  <1>3. \A c \in Chains : \A kind, x, k :
           There(c, kind, x, k)' <=>
              \/ There(c, kind, x, k)
              \/ c = d /\ kind = "queue" /\ x = None /\ k = Len(queue) + 1
    BY <1>1, <1>2 DEF There
  <1>4. \A kind, x, k : ~There(d, kind, x, k)
    BY <1>2 DEF OnePlace
  <1>5. PICK n : n = Len(queue) + 1
    OBVIOUS
  <1>6. \A kind, x, k : There(d, kind, x, k)' <=> kind = "queue" /\ x = None /\ k = n
    BY <1>3, <1>4, <1>5
  <1>7. Only(d, "queue", None, n)'
    BY <1>6 DEF Only
  <1>8. ASSUME NEW c \in Chains \ {d}
        PROVE  \A kind, x, k : There(c, kind, x, k)' <=> There(c, kind, x, k)
    BY <1>3
  <1>9. ASSUME NEW c \in Chains
        PROVE  /\ c \in posted' => \E kind, x, k : Only(c, kind, x, k)'
               /\ c \notin posted' => \A kind, x, k : ~There(c, kind, x, k)'
    <2>1. CASE c = d
      BY <1>2, <1>7, <2>1
    <2>2. CASE c # d
      <3>1. /\ c \in posted => \E kind, x, k : Only(c, kind, x, k)
            /\ c \notin posted => \A kind, x, k : ~There(c, kind, x, k)
        BY DEF OnePlace
      <3>2. ASSUME NEW kind, NEW x, NEW k, Only(c, kind, x, k)
            PROVE  Only(c, kind, x, k)'
        BY <1>8, <2>2, <3>2 DEF Only
      <3> QED
        BY <1>2, <1>8, <2>2, <3>1, <3>2
    <2> QED
      BY <2>1, <2>2
  <1> QED
    BY <1>9 DEF OnePlace

LEMMA UpdateMoves ==
    ASSUME Types, OnePlace, NEW t \in Threads, UpdateTick(t)
    PROVE  OnePlace'
  <1> PICK d : d = Head(queue)
    OBVIOUS
  <1>1. /\ queue \in Seq(Chains) /\ queue' = Tail(queue) /\ Len(queue) \in Nat /\ Len(queue) # 0
        /\ d = queue[1] /\ d \in Chains /\ Len(queue') = Len(queue) - 1
        /\ \A k \in 1 .. Len(queue') : queue'[k] = queue[k + 1]
    BY DEF UpdateTick, Types, TypeOK
  <1>2. /\ booking[t] = None /\ booking'[t] # None /\ booking'[t].job = d
        /\ \A u \in Threads \ {t} : booking'[u] = booking[u]
    <2>1. [executeTick |-> now + Delay, job |-> d] \in Item
      BY <1>1, DelayAssumption DEF UpdateTick, Types, TypeOK, Item
    <2>2. booking'[t] = [executeTick |-> now + Delay, job |-> d]
      BY DEF UpdateTick, Types, TypeOK
    <2> QED
      BY <2>1, <2>2, NoneAssumption DEF UpdateTick, Types, TypeOK
  <1>3. UNCHANGED <<items, due, posted>>
    BY DEF UpdateTick
  <1>4. There(d, "queue", None, 1)
    BY <1>1 DEF There
  <1>5. \A c \in Chains : \A kind, x, k :
           There(c, kind, x, k)' <=>
              \/ kind # "queue" /\ There(c, kind, x, k)
              \/ kind = "queue" /\ k \in Nat \ {0} /\ There(c, kind, x, k + 1)
              \/ c = d /\ kind = "booking" /\ x = t /\ k = 0
    BY <1>1, <1>2, <1>3 DEF There
  <1>6. Only(d, "queue", None, 1)
    BY <1>1, <1>4 DEF OnePlace, Only
  <1>7. Only(d, "booking", t, 0)'
    <2>1. ASSUME NEW kind, NEW x, NEW k
          PROVE  There(d, kind, x, k)' <=> kind = "booking" /\ x = t /\ k = 0
      <3>1. kind # "queue" => ~There(d, kind, x, k)
        BY <1>6 DEF Only
      <3>2. k \in Nat \ {0} => ~There(d, kind, x, k + 1)
        BY <1>6 DEF Only
      <3> QED
        BY <1>1, <1>5, <3>1, <3>2
    <2> QED
      BY <2>1 DEF Only
  <1>8. ASSUME NEW c \in Chains \ {d}, NEW kind, NEW x, NEW k, Only(c, kind, x, k)
        PROVE  \E j : Only(c, kind, x, j)'
    <2>1. CASE kind # "queue"
      <3>1. Only(c, kind, x, k)'
        BY <1>5, <1>8, <2>1 DEF Only
      <3> QED
        BY <3>1
    <2>2. CASE kind = "queue"
      <3>1. There(c, kind, x, k)
        BY <1>8 DEF Only
      <3>2. k \in 1 .. Len(queue) /\ k # 1
        BY <1>1, <2>2, <3>1 DEF There
      <3>3. PICK j \in Nat \ {0} : k = j + 1
        <4>1. k - 1 \in Nat \ {0} /\ k = (k - 1) + 1
          BY <1>1, <3>2
        <4> QED
          BY <4>1
      <3>4. Only(c, kind, x, j)'
        BY <1>5, <1>8, <2>2, <3>3 DEF Only
      <3> QED
        BY <3>4
    <2> QED
      BY <2>1, <2>2
  <1>9. \A c \in Chains : c \notin posted => \A kind, x, k : ~There(c, kind, x, k)'
    BY <1>4, <1>5 DEF OnePlace
  <1>10. ASSUME NEW c \in Chains
         PROVE  /\ c \in posted' => \E kind, x, k : Only(c, kind, x, k)'
                /\ c \notin posted' => \A kind, x, k : ~There(c, kind, x, k)'
    <2>1. CASE c = d
      BY <1>3, <1>7, <1>9, <2>1
    <2>2. CASE c # d
      <3>1. c \in posted => \E kind, x, k : Only(c, kind, x, k)
        BY DEF OnePlace
      <3> QED
        BY <1>3, <1>8, <1>9, <2>2, <3>1
    <2> QED
      BY <2>1, <2>2
  <1> QED
    BY <1>10 DEF OnePlace

LEMMA ReserveMoves ==
    ASSUME Types, OnePlace, NEW t \in Threads, Reserve(t)
    PROVE  OnePlace'
  <1> PICK b : b = booking[t]
    OBVIOUS
  <1> PICK d : d = b.job
    OBVIOUS
  <1>1. b \in Item /\ b # None /\ d \in Chains
    BY NoneAssumption DEF Reserve, Types, TypeOK, Item
  <1>2. /\ items' = items \cup {b} /\ booking'[t] = None
        /\ \A u \in Threads \ {t} : booking'[u] = booking[u]
        /\ UNCHANGED <<queue, due, posted>>
    BY DEF Reserve, Types, TypeOK
  <1>3. There(d, "booking", t, 0)
    BY <1>1 DEF There
  <1>4. Only(d, "booking", t, 0)
    BY <1>1, <1>3 DEF OnePlace, Only
  <1>5. \A c \in Chains : \A kind, x, k :
           There(c, kind, x, k)' <=>
              \/ There(c, kind, x, k) /\ ~(kind = "booking" /\ x = t)
              \/ c = d /\ kind = "timer" /\ x = b /\ k = 0
    BY <1>1, <1>2 DEF There
  <1>6. ASSUME NEW kind, NEW x, NEW k
        PROVE  There(d, kind, x, k)' <=> kind = "timer" /\ x = b /\ k = 0
    <2>1. There(d, kind, x, k) <=> kind = "booking" /\ x = t /\ k = 0
      BY <1>4 DEF Only
    <2> QED
      BY <1>1, <1>5, <2>1
  <1>8. Only(d, "timer", b, 0)'
    BY <1>6 DEF Only
  <1>9. ASSUME NEW c \in Chains \ {d}, NEW kind, NEW x, NEW k, Only(c, kind, x, k)
        PROVE  Only(c, kind, x, k)'
    <2>1. ~There(c, "booking", t, 0)
      BY <1>9 DEF There
    <2>2. ~(kind = "booking" /\ x = t)
      <3>1. There(c, kind, x, k)
        BY <1>9 DEF Only
      <3> QED
        BY <2>1, <3>1 DEF There
    <2> QED
      BY <1>5, <1>9, <2>2 DEF Only
  <1>10. \A c \in Chains : c \notin posted => \A kind, x, k : ~There(c, kind, x, k)'
    BY <1>3, <1>5 DEF OnePlace
  <1>11. ASSUME NEW c \in Chains
         PROVE  /\ c \in posted' => \E kind, x, k : Only(c, kind, x, k)'
                /\ c \notin posted' => \A kind, x, k : ~There(c, kind, x, k)'
    <2>1. CASE c = d
      BY <1>2, <1>8, <1>10, <2>1
    <2>2. CASE c # d
      <3>1. c \in posted => \E kind, x, k : Only(c, kind, x, k)
        BY DEF OnePlace
      <3> QED
        BY <1>2, <1>9, <1>10, <2>2, <3>1
    <2> QED
      BY <2>1, <2>2
  <1> QED
    BY <1>11 DEF OnePlace

LEMMA CollectMoves ==
    ASSUME Types, OnePlace, NEW w \in Threads, Collect(w)
    PROVE  OnePlace'
  <1> PICK ready : ready = {i \in items : i.executeTick <= asked[w]}
    OBVIOUS
  <1>1. PICK s \in SetToSeqs(ready) : due' = [due EXCEPT ![w] = s]
    BY DEF Collect
  <1>2. /\ ready \subseteq items /\ items' = items \ ready
        /\ UNCHANGED <<queue, booking, posted>>
    BY DEF Collect
  <1>3. /\ s \in Seq(ready) /\ Len(s) \in Nat
        /\ \A i, j \in 1 .. Len(s) : s[i] = s[j] => i = j
        /\ \A x \in ready : \E i \in 1 .. Len(s) : s[i] = x
        /\ \A i \in 1 .. Len(s) : s[i] \in ready
    <2>1. IsFiniteSet(ready)
      BY <1>2, FS_Subset DEF Types
    <2>2. s \in Seq(ready) /\ Len(s) = Cardinality(ready)
      BY <2>1, InAnyOrder
    <2>3. /\ \A i, j \in 1 .. Len(s) : s[i] = s[j] => i = j
          /\ \A x \in ready : \E i \in 1 .. Len(s) : s[i] = x
      BY <2>1, InAnyOrder, SMTT(30)
    <2>4. Len(s) \in Nat /\ \A i \in 1 .. Len(s) : s[i] \in ready
      BY <2>2, LenProperties, ElementOfSeq
    <2> QED
      BY <2>2, <2>3, <2>4
  <1>4. due[w] = << >> /\ Len(due[w]) = 0 /\ due'[w] = s
        /\ \A u \in Threads \ {w} : due'[u] = due[u]
    BY <1>1 DEF Collect, Types, TypeOK
  <1>5. \A c \in Chains : \A kind, x, k :
           There(c, kind, x, k)' <=>
              \/ There(c, kind, x, k) /\ ~(kind = "timer" /\ x \in ready)
              \/ kind = "due" /\ x = w /\ k \in 1 .. Len(s) /\ s[k].job = c
    BY <1>2, <1>4 DEF There
  <1>6. \A c \in Chains, k \in 1 .. Len(s) : s[k].job = c => There(c, "timer", s[k], 0)
    BY <1>2, <1>3 DEF There
  <1>7. ASSUME NEW c \in Chains, NEW kind, NEW x, NEW k, Only(c, kind, x, k)
        PROVE  \E kind2, x2, k2 : Only(c, kind2, x2, k2)'
    <2>1. There(c, kind, x, k)
      BY <1>7 DEF Only
    <2>2. CASE kind = "timer" /\ x \in ready
      <3>1. PICK n \in 1 .. Len(s) : s[n] = x
        BY <1>3, <2>2
      <3>2. x.job = c
        BY <2>1, <2>2 DEF There
      <3>3. ASSUME NEW kind2, NEW x2, NEW k2
            PROVE  There(c, kind2, x2, k2)' <=> kind2 = "due" /\ x2 = w /\ k2 = n
        <4>1. There(c, kind2, x2, k2) <=> kind2 = kind /\ x2 = x /\ k2 = k
          BY <1>7 DEF Only
        <4>2. ASSUME k2 \in 1 .. Len(s), s[k2].job = c
              PROVE  k2 = n
          <5>1. There(c, "timer", s[k2], 0)
            BY <1>6, <4>2
          <5>2. s[k2] = x
            BY <1>7, <5>1 DEF Only
          <5> QED
            BY <1>3, <3>1, <4>2, <5>2
        <4> QED
          BY <1>5, <2>2, <3>1, <3>2, <4>1, <4>2
      <3>4. Only(c, "due", w, n)'
        BY <3>3 DEF Only
      <3> QED
        BY <3>4
    <2>3. CASE ~(kind = "timer" /\ x \in ready)
      <3>1. ASSUME NEW n \in 1 .. Len(s)
            PROVE  s[n].job # c
        <4>1. s[n].job = c => There(c, "timer", s[n], 0)
          BY <1>6
        <4>2. There(c, "timer", s[n], 0) => kind = "timer" /\ x = s[n]
          BY <1>7 DEF Only
        <4> QED
          BY <1>3, <2>3, <4>1, <4>2
      <3>2. ASSUME NEW kind2, NEW x2, NEW k2
            PROVE  There(c, kind2, x2, k2)' <=> kind2 = kind /\ x2 = x /\ k2 = k
        <4>1. There(c, kind2, x2, k2) <=> kind2 = kind /\ x2 = x /\ k2 = k
          BY <1>7 DEF Only
        <4> QED
          BY <1>5, <2>3, <3>1, <4>1
      <3>3. Only(c, kind, x, k)'
        BY <3>2 DEF Only
      <3> QED
        BY <3>3
    <2> QED
      BY <2>2, <2>3
  <1>8. ASSUME NEW c \in Chains, c \notin posted, NEW kind, NEW x, NEW k
        PROVE  ~There(c, kind, x, k)'
    <2>1. \A kind2, x2, k2 : ~There(c, kind2, x2, k2)
      BY <1>8 DEF OnePlace
    <2> QED
      BY <1>5, <1>6, <2>1
  <1>9. \A c \in Chains : c \in posted => \E kind, x, k : Only(c, kind, x, k)
    BY DEF OnePlace
  <1> QED
    BY <1>2, <1>7, <1>8, <1>9 DEF OnePlace

LEMMA PushMoves ==
    ASSUME Types, OnePlace, NEW w \in Threads, PushDue(w)
    PROVE  OnePlace'
  <1> PICK d : d = Head(due[w]).job
    OBVIOUS
  <1> PICK n : n = Len(queue) + 1
    OBVIOUS
  <1>1. /\ due[w] \in Seq(Item) /\ Len(due[w]) \in Nat /\ Len(due[w]) # 0 /\ due[w][1].job = d
        /\ due'[w] = Tail(due[w]) /\ Len(due'[w]) = Len(due[w]) - 1
        /\ \A k \in 1 .. Len(due'[w]) : due'[w][k] = due[w][k + 1]
        /\ \A u \in Threads \ {w} : due'[u] = due[u]
    BY DEF PushDue, Types, TypeOK
  <1>2. d \in Chains
    <2>1. due[w][1] \in Item
      BY <1>1, ElementOfSeq
    <2> QED
      BY <1>1, <2>1 DEF Item
  <1>3. /\ queue \in Seq(Chains) /\ queue' = Append(queue, d) /\ Len(queue') = n
        /\ Len(queue) \in Nat
        /\ \A k \in 1 .. n : queue'[k] = IF k = n THEN d ELSE queue[k]
    BY <1>2 DEF PushDue, Types, TypeOK
  <1>4. UNCHANGED <<items, booking, posted>>
    BY DEF PushDue
  <1>5. There(d, "due", w, 1)
    BY <1>1 DEF There
  <1>6. Only(d, "due", w, 1)
    BY <1>2, <1>5 DEF OnePlace, Only
  <1>7. \A c \in Chains : \A kind, x, k :
           There(c, kind, x, k)' <=>
              \/ There(c, kind, x, k) /\ ~(kind = "due" /\ x = w)
              \/ kind = "due" /\ x = w /\ k \in Nat \ {0} /\ There(c, kind, x, k + 1)
              \/ c = d /\ kind = "queue" /\ x = None /\ k = n
    <2> SUFFICES ASSUME NEW c \in Chains, NEW kind, NEW x, NEW k
                 PROVE  There(c, kind, x, k)' <=>
                           \/ There(c, kind, x, k) /\ ~(kind = "due" /\ x = w)
                           \/ kind = "due" /\ x = w /\ k \in Nat \ {0} /\ There(c, kind, x, k + 1)
                           \/ c = d /\ kind = "queue" /\ x = None /\ k = n
      OBVIOUS
    <2>1. CASE kind = "due" /\ x = w
      <3>1. There(c, kind, x, k)' <=> k \in 1 .. Len(due'[w]) /\ due'[w][k].job = c
        BY <2>1 DEF There
      <3>2. There(c, kind, x, k + 1) <=> k + 1 \in 1 .. Len(due[w]) /\ due[w][k + 1].job = c
        BY <2>1 DEF There
      <3>3. k \in 1 .. Len(due'[w]) <=> k \in Nat \ {0} /\ k + 1 \in 1 .. Len(due[w])
        BY <1>1
      <3> QED
        BY <1>1, <2>1, <3>1, <3>2, <3>3
    <2>2. CASE kind = "queue"
      BY <1>3, <2>2 DEF There
    <2>3. CASE kind # "queue" /\ ~(kind = "due" /\ x = w)
      BY <1>1, <1>4, <2>3 DEF There
    <2> QED
      BY <2>1, <2>2, <2>3
  <1>8. Only(d, "queue", None, n)'
    <2>1. ASSUME NEW kind, NEW x, NEW k
          PROVE  There(d, kind, x, k)' <=> kind = "queue" /\ x = None /\ k = n
      <3>1. There(d, kind, x, k) => kind = "due" /\ x = w
        BY <1>6 DEF Only
      <3>2. k \in Nat \ {0} => ~There(d, kind, x, k + 1)
        BY <1>6 DEF Only
      <3> QED
        BY <1>2, <1>7, <3>1, <3>2
    <2> QED
      BY <2>1 DEF Only
  <1>9. ASSUME NEW c \in Chains \ {d}, NEW kind, NEW x, NEW k, Only(c, kind, x, k)
        PROVE  \E j : Only(c, kind, x, j)'
    <2>1. There(c, kind, x, k)
      BY <1>9 DEF Only
    <2>2. CASE ~(kind = "due" /\ x = w)
      <3>1. Only(c, kind, x, k)'
        BY <1>7, <1>9, <2>2 DEF Only
      <3> QED
        BY <3>1
    <2>3. CASE kind = "due" /\ x = w
      <3>1. k \in 1 .. Len(due[w]) /\ k # 1
        BY <1>1, <2>1, <2>3 DEF There
      <3>2. PICK j \in Nat \ {0} : k = j + 1
        <4>1. k - 1 \in Nat \ {0} /\ k = (k - 1) + 1
          BY <1>1, <3>1
        <4> QED
          BY <4>1
      <3>3. Only(c, kind, x, j)'
        BY <1>7, <1>9, <2>3, <3>2 DEF Only
      <3> QED
        BY <3>3
    <2> QED
      BY <2>2, <2>3
  <1>10. \A c \in Chains : c \notin posted => \A kind, x, k : ~There(c, kind, x, k)'
    BY <1>5, <1>7 DEF OnePlace
  <1>11. ASSUME NEW c \in Chains
         PROVE  /\ c \in posted' => \E kind, x, k : Only(c, kind, x, k)'
                /\ c \notin posted' => \A kind, x, k : ~There(c, kind, x, k)'
    <2>1. CASE c = d
      BY <1>4, <1>8, <1>10, <2>1
    <2>2. CASE c # d
      <3>1. c \in posted => \E kind, x, k : Only(c, kind, x, k)
        BY DEF OnePlace
      <3> QED
        BY <1>4, <1>9, <1>10, <2>2, <3>1
    <2> QED
      BY <2>1, <2>2
  <1> QED
    BY <1>11 DEF OnePlace

LEMMA OthersStay ==
    ASSUME OnePlace, UNCHANGED <<items, queue, booking, due, posted>>
    PROVE  OnePlace'
  <1>1. \A c, kind, x, k : There(c, kind, x, k)' <=> There(c, kind, x, k)
    BY DEF There
  <1>2. \A c, kind, x, k : Only(c, kind, x, k)' <=> Only(c, kind, x, k)
    BY <1>1 DEF Only
  <1> QED
    BY <1>1, <1>2 DEF OnePlace

LEMMA NextOnePlace ==
    ASSUME Types, OnePlace, [Next]_vars
    PROVE  OnePlace'
  <1>1. Tick \/ UNCHANGED vars => UNCHANGED <<items, queue, booking, due, posted>>
    BY DEF Tick, vars
  <1>2. ASSUME NEW t \in Threads, UpdateTick(t) \/ Reserve(t)
        PROVE  OnePlace'
    BY <1>2, UpdateMoves, ReserveMoves
  <1>3. ASSUME NEW w \in Workers, Distribute(w)
        PROVE  OnePlace'
    <2>1. w \in Threads
      BY DEF Threads
    <2>2. ReadClock(w) \/ Exchange(w) \/ Release(w)
             => UNCHANGED <<items, queue, booking, due, posted>>
      BY DEF ReadClock, Exchange, Release
    <2> QED
      BY <1>3, <2>1, <2>2, CollectMoves, PushMoves, OthersStay DEF Distribute
  <1>4. ASSUME NEW c \in Chains, Post(c)
        PROVE  OnePlace'
    BY <1>4, PostMoves
  <1> QED
    BY <1>1, <1>2, <1>3, <1>4, OthersStay DEF Next

LEMMA InitOnePlace == Init => OnePlace
  <1> SUFFICES ASSUME Init PROVE OnePlace
    OBVIOUS
  <1>1. \A c, kind, x, k : ~There(c, kind, x, k)
    BY DEF Init, There
  <1> QED
    BY <1>1 DEF Init, OnePlace

LEMMA OnePlaceCounts ==
    ASSUME Types, NEW c \in Chains, NEW kind, NEW x, NEW k, Only(c, kind, x, k)
    PROVE  Cardinality(Places(c)) = 1
  <1> DEFINE inTimer == {i \in items : i.job = c}
             inQueue == {i \in DOMAIN queue : queue[i] = c}
             inBooking == {t \in Threads : booking[t] # None /\ booking[t].job = c}
             inDue(w) == {i \in DOMAIN due[w] : due[w][i].job = c}
             timer == {<<"timer", i>> : i \in inTimer}
             inRoom == {<<"queue", i>> : i \in inQueue}
             booked == {<<"booking", t>> : t \in inBooking}
             dues == UNION {{<<"due", w, i>> : i \in inDue(w)} : w \in Threads}
  <1>1. Places(c) = ((timer \cup inRoom) \cup booked) \cup dues
    BY DEF Places
  <1>2. /\ There(c, kind, x, k)
        /\ \A kind2, x2, k2 : There(c, kind2, x2, k2) => kind2 = kind /\ x2 = x /\ k2 = k
    BY DEF Only
  <1>3. /\ DOMAIN queue = 1 .. Len(queue)
        /\ \A w \in Threads : DOMAIN due[w] = 1 .. Len(due[w])
    BY DEF Types, TypeOK
  <1>4. /\ \A i : i \in inTimer <=> There(c, "timer", i, 0)
        /\ \A i : i \in inQueue <=> There(c, "queue", None, i)
        /\ \A t : t \in inBooking <=> There(c, "booking", t, 0)
        /\ \A w \in Threads : \A i : i \in inDue(w) <=> There(c, "due", w, i)
    BY <1>3 DEF There
  <1> HIDE DEF inTimer, inQueue, inBooking, inDue
  <1>5. CASE kind = "timer"
    <2>1. inTimer = {x} /\ inQueue = {} /\ inBooking = {} /\ \A w \in Threads : inDue(w) = {}
      <3>1. k = 0 /\ There(c, "timer", x, 0)
        BY <1>2, <1>5 DEF There
      <3> QED
        BY <1>2, <1>4, <1>5, <3>1
    <2>2. timer = {<<"timer", x>>} /\ inRoom = {} /\ booked = {} /\ dues = {}
      BY <2>1
    <2>3. Places(c) = {<<"timer", x>>}
      BY <1>1, <2>2
    <2> QED
      BY <2>3, FS_Singleton
  <1>6. CASE kind = "queue"
    <2>1. inTimer = {} /\ inQueue = {k} /\ inBooking = {} /\ \A w \in Threads : inDue(w) = {}
      <3>1. x = None /\ There(c, "queue", None, k)
        BY <1>2, <1>6 DEF There
      <3> QED
        BY <1>2, <1>4, <1>6, <3>1
    <2>2. timer = {} /\ inRoom = {<<"queue", k>>} /\ booked = {} /\ dues = {}
      BY <2>1
    <2>3. Places(c) = {<<"queue", k>>}
      BY <1>1, <2>2
    <2> QED
      BY <2>3, FS_Singleton
  <1>7. CASE kind = "booking"
    <2>1. inTimer = {} /\ inQueue = {} /\ inBooking = {x} /\ \A w \in Threads : inDue(w) = {}
      <3>1. k = 0 /\ There(c, "booking", x, 0)
        BY <1>2, <1>7 DEF There
      <3> QED
        BY <1>2, <1>4, <1>7, <3>1
    <2>2. timer = {} /\ inRoom = {} /\ booked = {<<"booking", x>>} /\ dues = {}
      BY <2>1
    <2>3. Places(c) = {<<"booking", x>>}
      BY <1>1, <2>2
    <2> QED
      BY <2>3, FS_Singleton
  <1>8. CASE kind = "due"
    <2>1. /\ inTimer = {} /\ inQueue = {} /\ inBooking = {} /\ x \in Threads
          /\ inDue(x) = {k} /\ \A w \in Threads \ {x} : inDue(w) = {}
      <3>1. x \in Threads /\ There(c, "due", x, k)
        BY <1>2, <1>8 DEF There
      <3> QED
        BY <1>2, <1>4, <1>8, <3>1
    <2>2. timer = {} /\ inRoom = {} /\ booked = {}
      BY <2>1
    <2>3. dues = {<<"due", x, k>>}
      <3>1. \A l : l \in dues <=> \E w \in Threads : \E i \in inDue(w) : l = <<"due", w, i>>
        OBVIOUS
      <3>2. \A l : (\E w \in Threads : \E i \in inDue(w) : l = <<"due", w, i>>)
                      <=> l = <<"due", x, k>>
        BY <2>1
      <3> HIDE DEF dues
      <3> QED
        BY <3>1, <3>2
    <2>4. Places(c) = {<<"due", x, k>>}
      BY <1>1, <2>2, <2>3
    <2> QED
      BY <2>4, FS_Singleton
  <1> QED
    BY <1>2, <1>5, <1>6, <1>7, <1>8 DEF There

\* A room's tick is neither lost nor doubled on its way through the queue,
\* UpdateTick, the timer and a distributor (Room::UpdateTick, Reserve,
\* Distribute), however many chains there are.
THEOREM NoTickLost == Spec => []ChainsConserved
  <1>1. Types /\ OnePlace => ChainsConserved
    <2> SUFFICES ASSUME Types, OnePlace, NEW c \in posted
                 PROVE  Cardinality(Places(c)) = 1
      BY DEF ChainsConserved
    <2>1. c \in Chains
      BY DEF Types, TypeOK
    <2>2. \E kind, x, k : Only(c, kind, x, k)
      BY <2>1 DEF OnePlace
    <2> QED
      BY <2>1, <2>2, OnePlaceCounts
  <1>2. Types /\ OnePlace /\ [Next]_vars => OnePlace'
    BY NextOnePlace
  <1> QED
    BY <1>1, <1>2, InitOnePlace, TypesHold, PTL DEF Spec
=============================================================================
