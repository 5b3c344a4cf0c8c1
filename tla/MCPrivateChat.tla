--------------------------- MODULE MCPrivateChat ---------------------------
(* Instances of PrivateChat for TLC. *)
EXTENDS PrivateChat, TLC

CONSTANTS a, b, r1, r2

RequestSymmetry == Permutations(Reqs)
=============================================================================
