------------------------------ MODULE MCLogin ------------------------------
(* LoginLockout for TLC. *)
EXTENDS LoginLockout, TLC

\* The slots are interchangeable.
Symmetry == Permutations(Slots)
=============================================================================
