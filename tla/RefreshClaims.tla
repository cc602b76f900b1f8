---------------------------- MODULE RefreshClaims ----------------------------
(***************************************************************************)
(* A statement that a comment of internal/modules/auth makes about         *)
(* rotation and that the code does not keep.  The behaviours are those of  *)
(* RefreshRotation; a history variable dates the commit of a rotation.     *)
(***************************************************************************)
EXTENDS RefreshRotation

VARIABLE rotatedAt   \* history: DB time at which the rotation that used t committed

ClaimsInit == Init /\ rotatedAt = [t \in Tokens |-> 0]

ClaimsNext ==
    /\ Next
    /\ rotatedAt' = [t \in Tokens |-> IF t \in used' \ used THEN clock ELSE rotatedAt[t]]

ClaimsSpec == ClaimsInit /\ [][ClaimsNext]_<<vars, rotatedAt>>

\* refresh.go, file comment: of two concurrent requests with one token, the second
\* "loses cleanly with a 401, WITHOUT revoking the family".  Stated: a request
\* that revokes began its transaction after the rotation it punishes had committed.
ConcurrentLoserKeepsFamily ==
    \A r \in Requests : pc[r] = "revokeScan" => txStart[r] >= rotatedAt[tok[r]]
=============================================================================
