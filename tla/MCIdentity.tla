----------------------------- MODULE MCIdentity -----------------------------
(* Two users at one browser: the second one comes after the first one left. *)
EXTENDS Identity, TLC

CONSTANTS u1, u2, b1
Symmetry == Permutations(Users)
=============================================================================
