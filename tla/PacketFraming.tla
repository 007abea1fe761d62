---------------------------- MODULE PacketFraming ----------------------------
(***************************************************************************)
(* What both ends promise of the packet layer: the packets that one side   *)
(* sends reach the handler of the other side whole, once, in order.  A     *)
(* packet is the place in the stream where it starts and its size.         *)
(* PacketStream.tla (the server) and ClientSession.tla (the client)        *)
(* implement this module, the latter only under an assumption.             *)
(***************************************************************************)
EXTENDS Naturals, Sequences

CONSTANT Sizes

VARIABLES sent, handled

vars == <<sent, handled>>

StreamEnd == IF sent = << >> THEN 0 ELSE sent[Len(sent)].at + sent[Len(sent)].size

Init == sent = << >> /\ handled = << >>

Send(n) == /\ sent' = Append(sent, [at |-> StreamEnd, size |-> n])
           /\ UNCHANGED handled

Handle == /\ Len(handled) < Len(sent)
          /\ handled' = Append(handled, sent[Len(handled) + 1])
          /\ UNCHANGED sent

Next == Handle \/ \E n \in Sizes : Send(n)

Spec == Init /\ [][Next]_vars

\* Nothing that was sent waits for ever.
FairSpec == Spec /\ WF_vars(Handle)
=============================================================================
