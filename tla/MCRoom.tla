-------------------------------- MODULE MCRoom --------------------------------
(* Two rooms and two or three clients. *)
EXTENDS Room, TLC

CONSTANTS r1, r2, s1, s2, s3, p1, p2, p3

Symmetry == Permutations(Sessions) \cup Permutations(Players)
=============================================================================
