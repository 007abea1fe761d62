--------------------------- MODULE SerialExecutor ---------------------------
(***************************************************************************)
(* What a JobQueue promises to the code that posts jobs on it (Room posts  *)
(* all of its work through DoAsync): each queue is a serial executor.  A   *)
(* job that was submitted runs exactly once, one job of a queue at a time, *)
(* in the order of submission, and it does run eventually.                 *)
(* Nothing is said of threads; JobQueue.tla implements this module.        *)
(***************************************************************************)
EXTENDS Sequences

CONSTANTS Queues,   \* the job queues (the rooms)
          Jobs,     \* the jobs, each submitted at most once
          Home,     \* Home[j]: the queue job j is submitted to
          NoJob     \* "no job is running"

VARIABLES pending,  \* pending[q]: submitted, not yet started, oldest first
          running,  \* running[q]: the job of q being run, or NoJob
          done      \* done[q]: the jobs of q that ended, in that order

vars == <<pending, running, done>>

Contents(s) == {s[i] : i \in DOMAIN s}

Unsubmitted(j) ==
    LET q == Home[j]
    IN  j \notin Contents(pending[q]) \cup Contents(done[q]) \cup {running[q]}

Init == /\ pending = [q \in Queues |-> << >>]
        /\ running = [q \in Queues |-> NoJob]
        /\ done    = [q \in Queues |-> << >>]

Submit(j) == /\ Unsubmitted(j)
             /\ pending' = [pending EXCEPT ![Home[j]] = Append(@, j)]
             /\ UNCHANGED <<running, done>>

Start(q) == /\ running[q] = NoJob
            /\ pending[q] # << >>
            /\ running' = [running EXCEPT ![q] = Head(pending[q])]
            /\ pending' = [pending EXCEPT ![q] = Tail(@)]
            /\ UNCHANGED done

Finish(q) == /\ running[q] # NoJob
             /\ running' = [running EXCEPT ![q] = NoJob]
             /\ done' = [done EXCEPT ![q] = Append(@, running[q])]
             /\ UNCHANGED pending

Next == \/ \E j \in Jobs : Submit(j)
        \/ \E q \in Queues : Start(q) \/ Finish(q)

Spec == Init /\ [][Next]_vars

=============================================================================
