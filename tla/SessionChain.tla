---------------------------- MODULE SessionChain ----------------------------
(***************************************************************************)
(* What refresh-token rotation promises, abstracted from transactions,     *)
(* locks and clocks (internal/modules/auth/refresh.go, lines 3 to 35): a   *)
(* family is opened once by a login, has exactly one live token, moves it  *)
(* by rotation to a token never issued before, and can be killed, for good.*)
(***************************************************************************)
CONSTANTS Families, Tokens

VARIABLES
    live,    \* [Families -> SUBSET Tokens]: the usable token, if any
    spent,   \* tokens issued and no longer usable
    killed   \* families revoked after a replay

Issued == spent \union UNION {live[f] : f \in Families}

Init ==
    /\ live = [f \in Families |-> {}]
    /\ spent = {}
    /\ killed = {}

Open(f, t) ==
    /\ live[f] = {} /\ f \notin killed
    /\ t \notin Issued
    /\ live' = [live EXCEPT ![f] = {t}]
    /\ UNCHANGED <<spent, killed>>

Rotate(f, s, t) ==
    /\ live[f] = {s}
    /\ t \notin Issued
    /\ live' = [live EXCEPT ![f] = {t}]
    /\ spent' = spent \union {s}
    /\ UNCHANGED killed

Kill(f) ==
    /\ live[f] # {}
    /\ live' = [live EXCEPT ![f] = {}]
    /\ spent' = spent \union live[f]
    /\ killed' = killed \union {f}

Next ==
    \E f \in Families :
        \/ \E t \in Tokens : Open(f, t)
        \/ \E s, t \in Tokens : Rotate(f, s, t)
        \/ Kill(f)

Spec == Init /\ [][Next]_<<live, spent, killed>>
=============================================================================
