------------------------------ MODULE MCBuddy ------------------------------
(* Buddy for TLC: the areas of the C library are interchangeable. *)
EXTENDS Buddy, TLC

Symmetry == Permutations(Areas)
=============================================================================
