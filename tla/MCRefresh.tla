----------------------------- MODULE MCRefresh -----------------------------
(* Instances of RefreshRotation for TLC.                                   *)
EXTENDS RefreshRotation, TLC

\* The instances' clocks run ahead of the database's by as much as the leeway.
MCSkew == [r \in Requests |-> 1]
Symmetry == Permutations(Tokens) \union Permutations(Requests)
=============================================================================
