--------------------------- MODULE MCLoginClaims ---------------------------
(* LoginClaims for TLC. *)
EXTENDS LoginClaims, TLC

\* The slots are interchangeable.
Symmetry == Permutations(Slots)
=============================================================================
