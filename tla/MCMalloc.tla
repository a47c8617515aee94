------------------------------ MODULE MCMalloc ------------------------------
(* Malloc for TLC: the client's variables are interchangeable.             *)
EXTENDS Malloc

Symmetry == Permutations(Vars)
=============================================================================
