------------------------------ MODULE MCAccess ------------------------------
(* AccessTokens for TLC: a tick is half the life of an access token.   *)
EXTENDS AccessTokens, TLC

MCOwner == [f \in Families |-> CHOOSE u \in Users : TRUE]
Symmetry == Permutations(Tokens) \union Permutations(Access)
=============================================================================
