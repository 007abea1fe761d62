----------------------------- MODULE MCJobQueue -----------------------------
(* Small instances of JobQueue: two rooms, the jobs of one crossing over. *)
EXTENDS JobQueue, TLC

CONSTANTS w1, w2, p1, r1, r2, j1, j2, j3, j4

HomeTwoRooms == j1 :> r1 @@ j2 :> r1 @@ j3 :> r2 @@ j4 :> r2
=============================================================================
