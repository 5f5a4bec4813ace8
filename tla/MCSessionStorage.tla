-------------------------- MODULE MCSessionStorage --------------------------
(* Small instances of SessionStorage for TLC. *)
EXTENDS SessionStorage, TLC
Symmetry == Permutations(Login) \cup Permutations(Logout) \cup Permutations(Purge)
=============================================================================
