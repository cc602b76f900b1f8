-------------------------- MODULE RefreshGuarantees --------------------------
(***************************************************************************)
(* What follows from RotationInv, for every value of the constants: no     *)
(* deadlock, what a replay does and what nothing but a replay does, and    *)
(* that the endpoint implements the abstract SessionChain.                 *)
(***************************************************************************)
EXTENDS RefreshRotationProofs, FiniteSetTheorems

-----------------------------------------------------------------------------
(* Absence of deadlock.                                                    *)

\* A transaction that holds its family's lock waits for nobody.
LEMMA LockedNeverWaits ==
    ASSUME RotationInv, NEW S \in SUBSET Requests, NEW r \in S, pc[r] \in FamilyLocked
    PROVE  ~WaitsOn(r, S)
<1> USE DEF RotationInv
<1>1. ASSUME NEW s \in S \ {r}, NEW t \in held[s] PROVE family[t] # family[tok[r]]
  <2>1. pc[s] \in FamilyLocked /\ family[t] = family[tok[s]]
    BY <1>1 DEF LocksOK
  <2> QED
    BY <1>1, <2>1 DEF Exclusive
<1>2. \A t \in toRevoke[r] : pc[r] = "revokeRows" => family[t] = family[tok[r]]
  BY DEF WorkOK, Members
<1>3. pc[r] # "begin" /\ pc[r] # "lockFamily"
  BY DEF FamilyLocked, Statements
<1> QED
  BY <1>1, <1>2, <1>3 DEF WaitsOn

LEMMA NoDeadlockInv == RotationInv => NoDeadlock
<1> SUFFICES ASSUME RotationInv, NEW S \in SUBSET Requests, S # {},
                    \A r \in S : WaitsOn(r, S)
             PROVE  FALSE
  BY DEF NoDeadlock
<1>1. \A r \in S : pc[r] \notin FamilyLocked
  BY LockedNeverWaits
<1>2. \A r \in S : pc[r] # "lockFamily"
  BY <1>1 DEF WaitsOn, RotationInv, LocksOK
<1>3. \A r \in S : ~InTx(r)
  BY <1>1, <1>2 DEF WaitsOn, InTx, FamilyLocked, Statements
<1>4. \A r \in S : ~ConnAvailable /\ \A s \in Requests : InTx(s) => s \in S
  BY <1>3 DEF WaitsOn, InTx, Statements
<1>5. {s \in Requests : InTx(s)} = {}
  BY <1>3, <1>4
<1>6. Cardinality({s \in Requests : InTx(s)}) = 0
  BY <1>5, FS_EmptySet
<1> QED
  BY <1>4, <1>6, PoolAssumption DEF ConnAvailable

\* Requests never wait on each other in a circle, through advisory locks, row
\* locks and pooled connections together, for any number of them and any pool.
THEOREM DeadlockFree == Spec => []NoDeadlock
BY NoDeadlockInv, RotationInvariant, PTL

-----------------------------------------------------------------------------
(* Replays.                                                                *)

LEMMA RevokeWholeFamily ==
    ASSUME RotationInv, NEW r \in Requests, pc[r] = "commitRevoke"
    PROVE  /\ touched[r] = Members(family[tok[r]]) /\ IsReplay(r) /\ tok[r] \in inserted
           /\ pc[r] \in FamilyLocked
<1> USE DEF RotationInv
<1>1. toRevoke[r] = {} /\ toRevoke[r] \union touched[r] = Members(family[tok[r]]) /\ IsReplay(r)
  BY DEF WorkOK, Revoking
<1>2. InTx(r) /\ pc[r] \in FamilyLocked /\ pc[r] # "preread"
  BY DEF InTx, FamilyLocked, Statements
<1>3. tok[r] \in inserted
  BY <1>2 DEF LocksOK
<1> QED
  BY <1>1, <1>2, <1>3

\* A step of another slot does not end the call of r.
LEMMA EndsOwnCall ==
    ASSUME TypeOK, NEW r \in Requests, pc[r] # "idle", pc'[r] = "idle", [Next]_vars
    PROVE  Abort(r) \/ Step(r)
<1>1. CASE Environment
  BY <1>1 DEF Environment, Tick, PersistSession, Arrive, RejectMalformed, Abort, Finish, TypeOK
<1>2. ASSUME NEW s \in Requests, Step(s) PROVE s = r
  BY <1>2 DEF Step, Begin, Preread, LockTokenFamily, LockRow, Decide, RevokeScan, RevokeRow,
     RevokeDone, CommitRevoke, GateUser, MarkUsed, Insert, MintFails, CommitRotate, Reject,
     Abort, Finish, Goto, TypeOK
<1>3. CASE UNCHANGED vars
  BY <1>3 DEF vars
<1> QED
  BY <1>1, <1>2, <1>3 DEF Next

LEMMA ReplayKillsStep ==
    ASSUME RotationInv, [Next]_vars, NEW r \in Requests,
           InTx(r), IsReplay(r), pc'[r] = "idle", reply'[r] = "401"
    PROVE  Members(family[tok[r]]) \subseteq revoked'
<1> USE DEF RotationInv
<1>1. tok[r] \in used /\ tok[r] \in inserted /\ verifier[r] /\ pc[r] # "idle"
  BY DEF IsReplay, TableInv, InTx, Statements
<1>2. Step(r) /\ ~Abort(r)
  <2>1. ~Abort(r)
    BY DEF Abort, Finish, TypeOK
  <2> QED
    BY <1>1, <2>1, EndsOwnCall
<1>3. CASE Decide(r)
  <2>1. ~Replayed(r) /\ UNCHANGED table
    BY <1>1, <1>3 DEF Decide, Reject, Goto, TypeOK
  <2>2. /\ row[r].used <=> tok[r] \in used
        /\ row[r].revoked <=> tok[r] \in revoked
        /\ row[r].usedAt = usedAt[tok[r]]
    BY <1>3, ReadRow DEF Decide
  <2>3. tok[r] \in Tokens /\ usedAt[tok[r]] \in Nat /\ txStart[r] \in Nat
    BY <1>1 DEF TypeOK
  <2>4. ~WithinLeeway(r)
    BY <2>2, <2>3, TimeAssumption DEF WithinLeeway, IsReplay
  <2>5. row[r].revoked
    BY <1>1, <2>1, <2>2, <2>4, Zenon DEF Replayed, Acceptable
  <2>6. tok[r] \in revoked
    BY <2>2, <2>5, Zenon
  <2> QED
    BY <1>1, <2>1, <2>6 DEF RevocationComplete, Members, table
<1>4. ASSUME NEW code \in {"401", "500"}, CommitRevoke(r, code)
      PROVE  Members(family[tok[r]]) \subseteq revoked'
  BY <1>4, RevokeWholeFamily DEF CommitRevoke
<1>5. ~GateUser(r)
  BY <1>1 DEF GateUser, WorkOK, Rotating
<1>6. ASSUME NEW code \in {"200", "500"} PROVE ~CommitRotate(r, code)
  BY DEF CommitRotate, Finish, TypeOK
<1> QED
  BY <1>1, <1>2, <1>3, <1>4, <1>5, <1>6 DEF Step, Begin, Preread, LockTokenFamily, LockRow,
     RevokeScan, RevokeRow, RevokeDone, MarkUsed, Insert, MintFails, Goto, TypeOK

\* Every replay that is answered 401 has killed its family.
THEOREM ReplayAlwaysKills == Spec => ReplayKillsFamily
<1>1. RotationInv /\ [Next]_vars
        => [\A r \in Requests :
               InTx(r) /\ IsReplay(r) /\ pc'[r] = "idle" /\ reply'[r] = "401"
                 => Members(family[tok[r]]) \subseteq revoked']_vars
  BY ReplayKillsStep
<1> QED
  BY <1>1, RotationInvariant, PTL DEF Spec, ReplayKillsFamily

LEMMA OnlyReplayStep ==
    ASSUME RotationInv, [Next]_vars, NEW t \in revoked' \ revoked
    PROVE  \E r \in Requests : InTx(r) /\ IsReplay(r) /\ family[tok[r]] = family[t]
<1>1. PICK r \in Requests, code \in {"401", "500"} : CommitRevoke(r, code)
  BY DEF Next, Environment, Tick, PersistSession, Arrive, RejectMalformed, Abort, Step, Begin,
     Preread, LockTokenFamily, LockRow, Decide, RevokeScan, RevokeRow, RevokeDone, GateUser,
     MarkUsed, Insert, MintFails, CommitRotate, Reject, vars, table
<1>2. pc[r] = "commitRevoke" /\ t \in touched[r]
  BY <1>1 DEF CommitRevoke
<1> QED
  BY <1>2, RevokeWholeFamily DEF Members, InTx, Statements

\* Nothing but a replay revokes a token, so that a legitimate retry within the
\* leeway never costs a session.
THEOREM OnlyReplaysRevoke == Spec => OnlyReplayRevokes
<1>1. RotationInv /\ [Next]_vars
        => [\A t \in revoked' \ revoked :
               \E r \in Requests : InTx(r) /\ IsReplay(r) /\ family[tok[r]] = family[t]]_vars
  BY OnlyReplayStep
<1> QED
  BY <1>1, RotationInvariant, PTL DEF Spec, OnlyReplayRevokes

-----------------------------------------------------------------------------
(* The endpoint implements SessionChain.                                   *)

LiveMap == [f \in Families |-> Live(f)]
SpentMap == inserted \intersect (used \union revoked)
KilledMap == {f \in Families : Members(f) \intersect revoked # {}}

\* Every token the abstract chain has issued has a row.
LEMMA IssuedRows == \A t : t \in Chain!Issued => t \in inserted
BY DEF Chain!Issued, Live, Members

LEMMA OpenRefined ==
    ASSUME RotationInv, NEW f \in Families, NEW t \in Tokens, NEW r \in Requests,
           PersistSession(f, t, r)
    PROVE  Chain!Open(f, t)
<1> USE DEF RotationInv
<1>1. \A g \in Families : Members(g)' = IF g = f THEN Members(f) \union {t} ELSE Members(g)
  BY MembersAfterInsert DEF PersistSession, Fresh
<1>2. t \notin inserted /\ Members(f) = {} /\ t \notin used /\ t \notin revoked
      /\ inserted' = inserted \union {t} /\ used' = used /\ revoked' = revoked
  BY DEF PersistSession, Fresh, TableInv
<1>3. Live(f) = {} /\ Live(f)' = {t} /\ \A g \in Families \ {f} : Live(g)' = Live(g)
  BY <1>1, <1>2 DEF Live
<1>4. SpentMap' = SpentMap
  BY <1>2 DEF SpentMap
<1>5. KilledMap' = KilledMap /\ f \notin KilledMap
  BY <1>1, <1>2 DEF KilledMap
<1>6. LiveMap' = [LiveMap EXCEPT ![f] = {t}] /\ LiveMap[f] = {}
  BY <1>3 DEF LiveMap
<1>7. t \notin Chain!Issued
  BY <1>2, IssuedRows
<1> QED
  BY <1>4, <1>5, <1>6, <1>7 DEF Chain!Open, LiveMap, SpentMap, KilledMap

LEMMA KillRefined ==
    ASSUME RotationInv, NEW r \in Requests, NEW code \in {"401", "500"}, CommitRevoke(r, code)
    PROVE  \E f \in Families : Chain!Kill(f)
<1> USE DEF RotationInv
<1>0. PICK f \in Families : f = family[tok[r]]
  BY DEF CommitRevoke, TypeOK
<1>1. /\ revoked' = revoked \union Members(f) /\ inserted' = inserted
      /\ used' = used /\ family' = family /\ tok[r] \in inserted
  BY <1>0, RevokeWholeFamily DEF CommitRevoke
<1>2. f \in Families /\ tok[r] \in Members(f) /\ Members(f) \intersect revoked = {}
  <2>1. Members(f) \intersect revoked = {}
    BY <1>0, NothingRevokedYet DEF CommitRevoke, Revoking
  <2> QED
    BY <1>0, <1>1, <2>1 DEF Members
<1>3. \A g \in Families : Members(g)' = Members(g)
  BY <1>1 DEF Members
<1>4. Live(f) # {}
  BY <1>2 DEF OneLiveToken
<1>5. Live(f)' = {} /\ \A g \in Families \ {f} : Live(g)' = Live(g)
  <2>1. Live(f)' = {}
    BY <1>1, <1>2, <1>3 DEF Live
  <2>2. ASSUME NEW g \in Families \ {f} PROVE Live(g)' = Live(g)
    <3>1. Members(g) \intersect Members(f) = {}
      BY DEF Members
    <3> QED
      BY <1>1, <1>3, <3>1 DEF Live
  <2> QED
    BY <2>1, <2>2
<1>6. LiveMap' = [LiveMap EXCEPT ![f] = {}] /\ LiveMap[f] = Live(f)
  BY <1>2, <1>5 DEF LiveMap
<1>7. SpentMap' = SpentMap \union Live(f)
  BY <1>1, <1>2 DEF SpentMap, Live, Members
<1>8. KilledMap' = KilledMap \union {f}
  <2>1. ASSUME NEW g \in Families \ {f}
        PROVE  (Members(g) \intersect revoked)' = Members(g) \intersect revoked
    BY <1>1, <1>3 DEF Members
  <2> QED
    BY <1>1, <1>2, <1>3, <2>1 DEF KilledMap
<1> QED
  BY <1>2, <1>4, <1>6, <1>7, <1>8 DEF Chain!Kill, LiveMap, SpentMap, KilledMap

LEMMA RotateRefined ==
    ASSUME RotationInv, NEW r \in Requests, NEW code \in {"200", "500"}, CommitRotate(r, code)
    PROVE  \E f \in Families, s, t \in Tokens : Chain!Rotate(f, s, t)
<1> USE DEF RotationInv
<1>0. PICK f \in Families, k \in Tokens, n \in Tokens :
         f = family[k] /\ k = tok[r] /\ n = newTok[r]
  BY DEF CommitRotate, TypeOK
<1>1. /\ n \notin inserted /\ k \in inserted
      /\ k \notin used /\ k \notin revoked /\ marked[r] = {k} /\ n # k
  BY <1>0, NoTokenAssumption
  DEF CommitRotate, TypeOK, LocksOK, WorkOK, InTx, Statements, Rotating
<1>2. /\ used' = used \union {k} /\ revoked' = revoked
      /\ inserted' = inserted \union {n} /\ family' = [family EXCEPT ![n] = f]
  BY <1>0, <1>1 DEF CommitRotate
<1>3. k \in Members(f) /\ Members(f) \intersect revoked = {}
  BY <1>0, <1>1 DEF Members, RevocationComplete
<1>4. \A g \in Families : Members(g)' = IF g = f THEN Members(f) \union {n} ELSE Members(g)
  BY <1>1, <1>2, MembersAfterInsert
<1>5. n \notin used /\ n \notin revoked
  BY <1>1 DEF TableInv
<1>6. Live(f) = {k}
  <2>1. PICK u \in Tokens : Live(f) = {u}
    BY <1>1, <1>3 DEF OneLiveToken
  <2>2. k \in Live(f)
    BY <1>1, <1>3 DEF Live
  <2> QED
    BY <2>1, <2>2
<1>7. Live(f)' = {n}
  <2>1. \A t \in Members(f) : t \notin used /\ t \notin revoked => t = k
    BY <1>6 DEF Live
  <2>2. Live(f)' = {t \in Members(f) \union {n} : t \notin used \union {k} /\ t \notin revoked}
    <3>1. Members(f)' = Members(f) \union {n}
      BY <1>1, <1>4
    <3> QED
      BY <1>2, <3>1 DEF Live
  <2> QED
    BY <1>1, <1>5, <2>1, <2>2
<1>8. ASSUME NEW g \in Families \ {f} PROVE Live(g)' = Live(g)
  <2>1. k \notin Members(g)
    BY <1>0 DEF Members
  <2> QED
    BY <1>2, <1>4, <2>1 DEF Live
<1>9. LiveMap' = [LiveMap EXCEPT ![f] = {n}] /\ LiveMap[f] = {k}
  BY <1>1, <1>6, <1>7, <1>8 DEF LiveMap
<1>10. SpentMap' = SpentMap \union {k}
  BY <1>1, <1>2, <1>5 DEF SpentMap
<1>11. KilledMap' = KilledMap
  BY <1>2, <1>4, <1>5 DEF KilledMap
<1>12. n \notin Chain!Issued
  BY <1>1, IssuedRows
<1> QED
  BY <1>1, <1>9, <1>10, <1>11, <1>12 DEF Chain!Rotate, LiveMap, SpentMap, KilledMap

\* Rotation implements the abstract chain: a login opens it, a rotation moves its
\* one live token, a replay kills it, and nothing else is visible from outside.
THEOREM RotationImplementsChain == Spec => ImplementsChain
<1>1. Init => Chain!Init
  BY DEF Init, Chain!Init, Live, Members
<1>2. RotationInv /\ [Next]_vars => [Chain!Next]_<<LiveMap, SpentMap, KilledMap>>
  <2> SUFFICES ASSUME RotationInv, [Next]_vars
               PROVE  Chain!Next \/ UNCHANGED <<LiveMap, SpentMap, KilledMap>>
    OBVIOUS
  <2>1. CASE UNCHANGED table
    BY <2>1 DEF table, LiveMap, SpentMap, KilledMap, Live, Members
  <2>2. ASSUME NEW f \in Families, NEW t \in Tokens, NEW r \in Requests,
               PersistSession(f, t, r)
        PROVE  Chain!Next
    BY <2>2, OpenRefined DEF Chain!Next
  <2>3. ASSUME NEW r \in Requests, NEW code \in {"401", "500"}, CommitRevoke(r, code)
        PROVE  Chain!Next
    BY <2>3, KillRefined DEF Chain!Next
  <2>4. ASSUME NEW r \in Requests, NEW code \in {"200", "500"}, CommitRotate(r, code)
        PROVE  Chain!Next
    BY <2>4, RotateRefined DEF Chain!Next
  <2> QED
    BY <2>1, <2>2, <2>3, <2>4 DEF Next, Environment, Tick, Arrive, RejectMalformed, Abort,
       Step, Begin, Preread, LockTokenFamily, LockRow, Decide, RevokeScan, RevokeRow,
       RevokeDone, GateUser, MarkUsed, Insert, MintFails, Reject, vars, table
<1>3. <<LiveMap, SpentMap, KilledMap>> =
        <<[f \in Families |-> Live(f)], inserted \intersect (used \union revoked),
          {f \in Families : Members(f) \intersect revoked # {}}>>
  BY DEF LiveMap, SpentMap, KilledMap
<1> QED
  BY <1>1, <1>2, <1>3, RotationInvariant, PTL
  DEF Spec, ImplementsChain, Chain!Spec, LiveMap, SpentMap, KilledMap
=============================================================================
