------------------------- MODULE MCSessionAdmission -------------------------
(* Instances of SessionAdmission for TLC. *)
EXTENDS SessionAdmission, TLC

\* Gate objects and goroutines are interchangeable.
Symmetry == Permutations(Gates) \cup Permutations(Clients)
=============================================================================
