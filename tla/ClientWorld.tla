----------------------------- MODULE ClientWorld -----------------------------
(***************************************************************************)
(* US1NetworkManager's map Players, and the actors it points to.  A view   *)
(* is what a client has of each player:                                    *)
(*   "absent"     not in Players,                                          *)
(*   "shown"      in Players, with an actor in the world,                  *)
(*   "destroyed"  in Players, the actor was destroyed.                     *)
(***************************************************************************)
CONSTANT Players

View == [Players -> {"absent", "shown", "destroyed"}]

EmptyView == [p \in Players |-> "absent"]

Shown(v) == {p \in Players : v[p] = "shown"}

\* HandleSpawn of each of the list: one that is in Players already is ignored.
Spawned(v, list) ==
    [p \in Players |-> IF p \in list /\ v[p] = "absent" THEN "shown" ELSE v[p]]

\* HandleDespawn: the actor is destroyed, the entry of Players stays.
Despawned(v, p) == [v EXCEPT ![p] = IF @ = "absent" THEN @ ELSE "destroyed"]

\* DeleteAllPlayer, for S_LEAVE_GAME.
Cleared(v) == EmptyView
=============================================================================
