---------------------------- MODULE AccessProofs ----------------------------
(***************************************************************************)
(* Proofs about AccessTokens, for any number of users, chains, tokens and  *)
(* requests, any AccessTTL and any difference between the clocks.          *)
(***************************************************************************)
EXTENDS AccessTokens, TLAPS

\* A killed chain has no live token, so nothing is issued along it any more.
ChainInv == \A f \in killed : live[f] = {}

\* A session that is being issued has read a clock by now; so has every row.
MintInv ==
    /\ \A f \in Families : mintAt[f] # NotMinting => mintAt[f] <= now + Skew
    /\ \A a \in inserted : expires[a] <= now + Skew + AccessTTL

\* The rows of a killed chain were there when it was killed.
KillInv ==
    \A a \in inserted : famOf[a] \in killed =>
        expires[a] <= killedAt[famOf[a]] + Skew + AccessTTL

\* What a request knows from its arrival, and what the two reads added to it.
RequestInv(r) ==
    /\ pc[r] \in {"lookup", "user", "in"} => tok[r] \in inserted
    /\ arrival[r].at <= now
    /\ arrival[r].revoked => tok[r] \in revoked
    /\ tok[r] # NoToken /\ UserOf(tok[r]) \in active => arrival[r].active
    /\ pc[r] \in {"user", "in"} => ~arrival[r].revoked /\ arrival[r].at < expires[tok[r]]
    /\ pc[r] = "in" => arrival[r].active

AccessInv ==
    TypeOK /\ ChainInv /\ MintInv /\ KillInv /\ \A r \in Requests : RequestInv(r)

\* Before the first login there is nothing to get in with.
LEMMA AccessInitInv == Init => AccessInv
<1> SUFFICES ASSUME Init PROVE AccessInv
  OBVIOUS
<1> USE ClockAssumption, NoneAssumption, OwnerAssumption DEF Init, Chain!Init
<1>1. TypeOK
  BY DEF TypeOK
<1>2. ChainInv /\ MintInv /\ KillInv
  BY DEF ChainInv, MintInv, KillInv
<1>3. \A r \in Requests : RequestInv(r)
  BY DEF RequestInv
<1> QED
  BY <1>1, <1>2, <1>3 DEF AccessInv

\* The types a step relies on most.
LEMMA Typed ==
    ASSUME AccessInv
    PROVE  /\ now \in Nat /\ Skew \in Nat /\ AccessTTL \in Nat
           /\ \A f \in Families : /\ mintAt[f] \in Nat \union {NotMinting}
                                  /\ killedAt[f] \in Nat
           /\ \A a \in Access : expires[a] \in Nat /\ famOf[a] \in Families
           /\ inserted \subseteq Access /\ NoToken \notin inserted
           /\ \A r \in Requests : tok[r] \in inserted \union {NoToken} /\ arrival[r].at \in Nat
BY ClockAssumption, NoneAssumption DEF AccessInv, TypeOK

\* A step on a chain that inserts no row: the beginning or the failure of an issue.
LEMMA MintKeeps ==
    ASSUME AccessInv, NEW f \in Families,
           \/ \E clk \in AppClock : LoginPasses(f, clk) \/ RotateBegins(f, clk)
           \/ MintFails(f)
    PROVE  AccessInv'
<1>1. PICK m \in Nat \union {NotMinting} :
        /\ mintAt' = [mintAt EXCEPT ![f] = m]
        /\ m # NotMinting => m <= now + Skew
        /\ UNCHANGED <<now, active, chains, killedAt, rows, requests>>
  <2>1. ASSUME NEW clk \in AppClock, LoginPasses(f, clk) \/ RotateBegins(f, clk)
        PROVE  /\ clk \in Nat /\ clk <= now + Skew /\ mintAt' = [mintAt EXCEPT ![f] = clk]
               /\ UNCHANGED <<now, active, chains, killedAt, rows, requests>>
    BY <2>1, Typed DEF LoginPasses, RotateBegins, AppClock
  <2>2. ASSUME MintFails(f)
        PROVE  /\ mintAt' = [mintAt EXCEPT ![f] = NotMinting]
               /\ UNCHANGED <<now, active, chains, killedAt, rows, requests>>
    BY <2>2 DEF MintFails
  <2> QED
    BY <2>1, <2>2
<1> USE <1>1 DEF chains, rows, requests
<1>2. TypeOK'
  BY DEF AccessInv, TypeOK
<1>3. ChainInv' /\ KillInv'
  BY DEF AccessInv, ChainInv, KillInv
<1>4. MintInv'
  BY DEF AccessInv, TypeOK, MintInv
<1>5. \A r \in Requests : RequestInv(r)'
  BY DEF AccessInv, RequestInv, UserOf
<1> QED
  BY <1>2, <1>3, <1>4, <1>5 DEF AccessInv

\* A session is issued: the chain moves and one row is inserted.
LEMMA IssueKeeps ==
    ASSUME AccessInv, NEW f \in Families, NEW t \in Tokens, NEW a \in Access,
           IssueSession(f, t, a) \/ RotateCommits(f, t, a)
    PROVE  AccessInv'
<1>1. /\ mintAt[f] # NotMinting /\ mintAt' = [mintAt EXCEPT ![f] = NotMinting]
      /\ InsertAccessToken(a, f) /\ UNCHANGED <<now, active, killed, killedAt, requests>>
      /\ live' = [live EXCEPT ![f] = {t}] /\ f \notin killed
  BY DEF IssueSession, RotateCommits, Chain!Open, Chain!Rotate, AccessInv, ChainInv
<1>2. spent' \in SUBSET Tokens
  BY DEF IssueSession, RotateCommits, Chain!Open, Chain!Rotate, AccessInv, TypeOK
<1>3. mintAt[f] \in Nat /\ mintAt[f] <= now + Skew
  BY <1>1, Typed DEF AccessInv, MintInv
<1> USE <1>1, <1>3, Typed DEF InsertAccessToken, requests
<1>4. TypeOK'
  BY <1>2, ClockAssumption DEF AccessInv, TypeOK
<1>5. ChainInv' /\ KillInv' /\ MintInv'
  BY DEF AccessInv, TypeOK, ChainInv, KillInv, MintInv
<1>6. ASSUME NEW r \in Requests PROVE RequestInv(r)'
  <2>1. tok[r] # NoToken => famOf'[tok[r]] = famOf[tok[r]] /\ expires'[tok[r]] = expires[tok[r]]
    BY DEF AccessInv, TypeOK
  <2> QED
    BY <2>1, <1>6 DEF AccessInv, RequestInv, UserOf
<1> QED
  BY <1>4, <1>5, <1>6 DEF AccessInv

\* The chain is killed at this moment, its rows are not younger than that.
LEMMA ReplayKeeps ==
    ASSUME AccessInv, NEW f \in Families, Replay(f) PROVE AccessInv'
<1>1. /\ live' = [live EXCEPT ![f] = {}] /\ spent' = spent \union live[f]
      /\ killed' = killed \union {f} /\ killedAt' = [killedAt EXCEPT ![f] = now]
      /\ f \notin killed
      /\ UNCHANGED <<now, active, mintAt, rows, requests>>
  BY DEF Replay, Chain!Kill, AccessInv, ChainInv
<1> USE <1>1, Typed DEF rows, requests
<1>2. TypeOK'
  BY DEF AccessInv, TypeOK
<1>3. ChainInv' /\ MintInv' /\ KillInv'
  BY DEF AccessInv, TypeOK, ChainInv, MintInv, KillInv
<1>4. \A r \in Requests : RequestInv(r)'
  BY DEF AccessInv, RequestInv, UserOf
<1> QED
  BY <1>2, <1>3, <1>4 DEF AccessInv

\* Operators and the clock.
LEMMA EnvironmentKeeps ==
    ASSUME AccessInv,
           \/ \E a \in Access : RevokeAccessToken(a)
           \/ \E u \in Users : SetStatus(u)
           \/ Tick
    PROVE  AccessInv'
<1> USE Typed, ClockAssumption DEF chains, rows, requests
<1>1. CASE \E a \in Access : RevokeAccessToken(a)
  <2>1. TypeOK'
    BY <1>1 DEF RevokeAccessToken, AccessInv, TypeOK
  <2>2. ChainInv' /\ MintInv' /\ KillInv' /\ \A r \in Requests : RequestInv(r)'
    BY <1>1 DEF RevokeAccessToken, AccessInv, ChainInv, MintInv, KillInv, RequestInv, UserOf
  <2> QED
    BY <2>1, <2>2 DEF AccessInv
<1>2. CASE \E u \in Users : SetStatus(u)
  <2>1. TypeOK'
    <3> DEFINE Arrivals == [at : 0..MaxClock, revoked : BOOLEAN, active : BOOLEAN]
    <3>1. \A r \in Requests : arrival[r] \in Arrivals /\ [arrival[r] EXCEPT !.active = TRUE] \in Arrivals
      BY DEF AccessInv, TypeOK
    <3>2. arrival' \in [Requests -> Arrivals]
      BY <1>2, <3>1 DEF SetStatus
    <3>3. active' \subseteq Users /\ UNCHANGED <<now, chains, killedAt, mintAt, rows, pc, tok>>
      BY <1>2 DEF SetStatus, AccessInv, TypeOK
    <3> QED
      BY <3>2, <3>3 DEF AccessInv, TypeOK
  <2>2. ChainInv' /\ MintInv' /\ KillInv'
    BY <1>2 DEF SetStatus, AccessInv, ChainInv, MintInv, KillInv
  <2>3. ASSUME NEW r \in Requests PROVE RequestInv(r)'
    BY <1>2, <2>3 DEF SetStatus, AccessInv, TypeOK, RequestInv, UserOf
  <2> QED
    BY <2>1, <2>2, <2>3 DEF AccessInv
<1>3. CASE Tick
  <2>1. TypeOK'
    BY <1>3 DEF Tick, AccessInv, TypeOK
  <2>2. ChainInv' /\ MintInv' /\ KillInv' /\ \A r \in Requests : RequestInv(r)'
    BY <1>3 DEF Tick, AccessInv, ChainInv, MintInv, KillInv, RequestInv, UserOf
  <2> QED
    BY <2>1, <2>2 DEF AccessInv
<1> QED
  BY <1>1, <1>2, <1>3

\* The four steps of a request.
LEMMA BearerKeeps ==
    ASSUME AccessInv, NEW r \in Requests,
           \/ \E t \in inserted \union {NoToken} : Present(r, t)
           \/ \E clk \in AppClock, fails \in BOOLEAN : Lookup(r, clk, fails)
           \/ \E fails \in BOOLEAN : ReadUser(r, fails)
           \/ Served(r)
    PROVE  AccessInv'
<1> USE Typed, ClockAssumption
<1>1. UNCHANGED <<now, active, chains, killedAt, mintAt, rows>>
  BY DEF Present, Lookup, ReadUser, Served
<1>2. ChainInv' /\ MintInv' /\ KillInv'
  BY <1>1 DEF AccessInv, ChainInv, MintInv, KillInv, chains, rows
<1>3. \A s \in Requests \ {r} : pc'[s] = pc[s] /\ tok'[s] = tok[s] /\ arrival'[s] = arrival[s]
  BY DEF Present, Lookup, ReadUser, Served, AccessInv, TypeOK
<1>4. ASSUME NEW s \in Requests \ {r} PROVE RequestInv(s)'
  BY <1>1, <1>3, <1>4 DEF AccessInv, RequestInv, UserOf, rows
<1>5. TypeOK' /\ RequestInv(r)'
  <2> SUFFICES pc' \in [Requests -> {"idle", "lookup", "user", "in", "refused"}]
               /\ tok' \in [Requests -> inserted \union {NoToken}]
               /\ arrival' \in [Requests -> [at : 0..MaxClock, revoked : BOOLEAN, active : BOOLEAN]]
               /\ RequestInv(r)'
    BY <1>1 DEF AccessInv, TypeOK, chains, rows
  <2>1. ASSUME NEW t \in inserted \union {NoToken}, Present(r, t)
        PROVE  /\ pc' \in [Requests -> {"idle", "lookup", "user", "in", "refused"}]
               /\ tok' \in [Requests -> inserted \union {NoToken}]
               /\ arrival' \in [Requests -> [at : 0..MaxClock, revoked : BOOLEAN, active : BOOLEAN]]
               /\ RequestInv(r)'
    <3> DEFINE rec == [at |-> now, revoked |-> t \in revoked,
                       active |-> t # NoToken /\ UserOf(t) \in active]
    <3>1. /\ tok' = [tok EXCEPT ![r] = t] /\ arrival' = [arrival EXCEPT ![r] = rec]
          /\ pc' = [pc EXCEPT ![r] = IF t = NoToken THEN "refused" ELSE "lookup"]
      BY <2>1 DEF Present
    <3>2. rec \in [at : 0..MaxClock, revoked : BOOLEAN, active : BOOLEAN]
      BY DEF AccessInv, TypeOK
    <3>3. /\ pc' \in [Requests -> {"idle", "lookup", "user", "in", "refused"}]
          /\ tok' \in [Requests -> inserted \union {NoToken}]
          /\ arrival' \in [Requests -> [at : 0..MaxClock, revoked : BOOLEAN, active : BOOLEAN]]
      BY <3>1, <3>2 DEF AccessInv, TypeOK
    <3>4. pc'[r] \in {"refused", "lookup"} /\ tok'[r] = t /\ arrival'[r] = rec
      BY <3>1 DEF AccessInv, TypeOK
    <3>5. pc'[r] = "lookup" => t \in inserted
      BY <2>1, <3>1 DEF AccessInv, TypeOK
    <3>6. /\ rec.at = now /\ (rec.revoked => t \in revoked)
          /\ t # NoToken /\ UserOf(t) \in active => rec.active
      OBVIOUS
    <3> HIDE DEF rec
    <3>7. RequestInv(r)'
      <4>1. UNCHANGED <<now, active, revoked, famOf, inserted>>
        BY <1>1 DEF rows
      <4> QED
        BY <3>4, <3>5, <3>6, <4>1 DEF RequestInv, UserOf
    <3> QED
      BY <3>3, <3>7
  <2>2. ASSUME NEW clk \in AppClock, NEW fails \in BOOLEAN, Lookup(r, clk, fails)
        PROVE  /\ pc' \in [Requests -> {"idle", "lookup", "user", "in", "refused"}]
               /\ UNCHANGED <<tok, arrival>> /\ RequestInv(r)'
    <3>1. clk \in Nat /\ arrival[r].at <= clk
      BY DEF AppClock, AccessInv, RequestInv
    <3> QED
      BY <2>2, <3>1 DEF Lookup, AccessInv, TypeOK, RequestInv, UserOf, rows
  <2>3. ASSUME NEW fails \in BOOLEAN, ReadUser(r, fails)
        PROVE  /\ pc' \in [Requests -> {"idle", "lookup", "user", "in", "refused"}]
               /\ UNCHANGED <<tok, arrival>> /\ RequestInv(r)'
    BY <2>3 DEF ReadUser, AccessInv, TypeOK, RequestInv, UserOf, rows
  <2>4. ASSUME Served(r)
        PROVE  /\ pc' \in [Requests -> {"idle", "lookup", "user", "in", "refused"}]
               /\ tok' \in [Requests -> inserted \union {NoToken}]
               /\ arrival' \in [Requests -> [at : 0..MaxClock, revoked : BOOLEAN, active : BOOLEAN]]
               /\ RequestInv(r)'
    BY <2>4 DEF Served, AccessInv, TypeOK, RequestInv, UserOf, rows
  <2> QED
    BY <2>1, <2>2, <2>3, <2>4 DEF AccessInv, TypeOK
<1> QED
  BY <1>2, <1>4, <1>5 DEF AccessInv

\* Every step keeps the invariant.
LEMMA AccessStep == AccessInv /\ [Next]_vars => AccessInv'
<1> SUFFICES ASSUME AccessInv, [Next]_vars PROVE AccessInv'
  OBVIOUS
<1>1. CASE UNCHANGED vars
  BY <1>1 DEF vars, chains, rows, requests, AccessInv, TypeOK, ChainInv, MintInv, KillInv,
              RequestInv, UserOf
<1>2. CASE Next
  BY <1>2, MintKeeps, IssueKeeps, ReplayKeeps, EnvironmentKeeps, BearerKeeps DEF Next
<1> QED
  BY <1>1, <1>2

\* The inductive invariant of access tokens and the bearer middleware.
THEOREM AccessInvariant == Spec => []AccessInv
BY AccessInitInv, AccessStep, PTL DEF Spec

\* Every variable of the access-token model keeps its type.
THEOREM AccessTypeCorrect == Spec => []TypeOK
<1>1. AccessInv => TypeOK
  BY DEF AccessInv
<1> QED
  BY <1>1, AccessInvariant, PTL

\* BearerMiddleware lets nobody in with a token that was revoked or had expired when the
\* request came, nor for a user who was disabled all the while, although it reads the
\* token and the user in two statements.
THEOREM RevocationsHold == Spec => []RevocationImmediate
<1>1. AccessInv => RevocationImmediate
  BY DEF AccessInv, RequestInv, RevocationImmediate
<1> QED
  BY <1>1, AccessInvariant, PTL

\* The access tokens a replay leaves behind (RevokeTokenFamily does not touch them) are
\* good for AccessTTL + Skew after it and no longer.
THEOREM KilledChainsDie == Spec => []KilledChainDies
<1>1. AccessInv => KilledChainDies
  <2> SUFFICES ASSUME AccessInv, NEW r \in Requests, pc[r] = "in", famOf[tok[r]] \in killed
               PROVE  arrival[r].at < killedAt[famOf[tok[r]]] + AccessTTL + Skew
    BY DEF KilledChainDies
  <2>1. tok[r] \in inserted /\ arrival[r].at < expires[tok[r]]
    BY DEF AccessInv, RequestInv
  <2>2. expires[tok[r]] <= killedAt[famOf[tok[r]]] + Skew + AccessTTL
    BY <2>1 DEF AccessInv, KillInv
  <2> QED
    BY <2>1, <2>2, Typed
<1> QED
  BY <1>1, AccessInvariant, PTL
=============================================================================
