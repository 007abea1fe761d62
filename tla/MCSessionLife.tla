---------------------------- MODULE MCSessionLife ----------------------------
(* Three session objects over one or two accept events, two or three workers. *)
EXTENDS SessionLife, TLC

CONSTANTS w1, w2, w3, s1, s2, s3, a1, a2

Symmetry == Permutations(Workers) \cup Permutations(Sessions) \cup Permutations(AcceptEvents)
=============================================================================
