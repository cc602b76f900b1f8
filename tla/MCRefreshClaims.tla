-------------------------- MODULE MCRefreshClaims --------------------------
(* Instances of RefreshClaims for TLC.                                     *)
EXTENDS RefreshClaims, TLC

\* All clocks agree: the claim does not fail because of skew.
NoSkew == [r \in Requests |-> 0]
Symmetry == Permutations(Tokens) \union Permutations(Requests)
=============================================================================
