----------------------------- MODULE FifoChannel -----------------------------
(***************************************************************************)
(* What Session::Send promises for one connection: the buffers that were   *)
(* accepted reach the peer in the order they were accepted, each at most   *)
(* once.  A failing connection may drop buffers, always from the front of  *)
(* what is still waiting, never from the middle.                           *)
(* SendPath.tla implements this module.                                    *)
(***************************************************************************)
EXTENDS Naturals, Sequences, SequencesExt

CONSTANT Buffers

VARIABLES waiting,  \* accepted and not yet on the wire, oldest first
          wire,     \* what the peer received
          lost      \* what was dropped

vars == <<waiting, wire, lost>>

Seen == ToSet(waiting) \cup ToSet(wire) \cup ToSet(lost)

Init == waiting = << >> /\ wire = << >> /\ lost = << >>

Accept(b) == /\ b \notin Seen
             /\ waiting' = Append(waiting, b)
             /\ UNCHANGED <<wire, lost>>

\* The first n of the waiting buffers leave; the first k of them arrive.
Transfer(n, k) ==
    /\ waiting' = SubSeq(waiting, n + 1, Len(waiting))
    /\ wire' = wire \o SubSeq(waiting, 1, k)
    /\ lost' = lost \o SubSeq(waiting, k + 1, n)

Next == \/ \E b \in Buffers : Accept(b)
        \/ \E n \in 1 .. Len(waiting) : \E k \in 0 .. n : Transfer(n, k)

Spec == Init /\ [][Next]_vars
=============================================================================
