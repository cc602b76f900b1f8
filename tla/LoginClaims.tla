---------------------------- MODULE LoginClaims ----------------------------
(***************************************************************************)
(* What a comment of the login code says, where the code does otherwise.   *)
(***************************************************************************)
EXTENDS LoginLockout

\* store.go:121-124: a success reset that races failures does not weaken the
\* lockout, so a lock in force is not lifted by it.
ResetKeepsLiveLock ==
    [][\A r \in Slots :
          pc[r] = "reset" /\ pc'[r] # "reset" /\ lockedUntil > clock
              => lockedUntil' = lockedUntil]_vars
=============================================================================
