--------------------------- MODULE MCSessionCosmos ---------------------------
(* A small instance of SessionCosmos for TLC. *)
EXTENDS SessionCosmos, TLC
Symmetry == Permutations(Session \ Lv) \cup Permutations(Reservation)
=============================================================================
