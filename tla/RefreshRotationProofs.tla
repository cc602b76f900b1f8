------------------------ MODULE RefreshRotationProofs ------------------------
(***************************************************************************)
(* Proofs about RefreshRotation, for every number of requests, tokens and  *)
(* families, every leeway, lifetime, clock skew and pool size.             *)
(***************************************************************************)
EXTENDS RefreshRotation, TLAPS

-----------------------------------------------------------------------------
(* Type correctness.                                                       *)

LEMMA InitType == Init => TypeOK
<1> SUFFICES ASSUME Init PROVE TypeOK
  OBVIOUS
<1>1. (CHOOSE f \in Families : TRUE) \in Families
  BY FamilyAssumption
<1> QED
  BY <1>1 DEF Init, TypeOK, NoRow, Rows

\* Whatever ends a call leaves its slot well typed.
LEMMA FinishType ==
    ASSUME TypeOK, NEW r \in Requests, NEW code \in {"200", "400", "401", "500"},
           Finish(r, code)
    PROVE  /\ pc' \in [Requests -> Statements \union {"idle", "begin"}]
           /\ tok' \in [Requests -> Tokens \union {NoToken}]
           /\ \A s \in Requests : pc'[s] # "idle" => tok'[s] \in Tokens
           /\ verifier' \in [Requests -> BOOLEAN]
           /\ reply' \in [Requests -> {"none", "200", "400", "401", "500"}]
           /\ txStart' \in [Requests -> Nat] /\ row' \in [Requests -> Rows]
           /\ appNow' \in [Requests -> Nat]
           /\ advisory' \in [Requests -> SUBSET Families]
           /\ held' \in [Requests -> SUBSET Tokens]
           /\ marked' \in [Requests -> SUBSET Tokens]
           /\ newTok' \in [Requests -> Tokens \union {NoToken}]
           /\ \A s \in Requests : pc'[s] = "commitRotate" => newTok'[s] \in Tokens
           /\ toRevoke' \in [Requests -> SUBSET Tokens]
           /\ touched' \in [Requests -> SUBSET Tokens]
<1>1. NoRow \in Rows
  BY DEF NoRow, Rows
<1> QED
  BY <1>1 DEF TypeOK, Finish

LEMMA EnvironmentType == TypeOK /\ Environment => TypeOK'
<1> SUFFICES ASSUME TypeOK, Environment PROVE TypeOK'
  OBVIOUS
<1>1. CASE Tick
  BY <1>1 DEF TypeOK, Tick, table, call, locks, work
<1>2. ASSUME NEW f \in Families, NEW t \in Tokens, NEW r \in Requests,
             PersistSession(f, t, r)
      PROVE  TypeOK'
  <2>1. AppNow(r) \in Nat
    BY SkewAssumption DEF TypeOK, AppNow
  <2> QED
    BY <1>2, <2>1 DEF TypeOK, PersistSession, call, locks, work
<1>3. ASSUME NEW r \in Requests, NEW t \in Tokens, NEW v \in BOOLEAN, Arrive(r, t, v)
      PROVE  TypeOK'
  BY <1>3 DEF TypeOK, Arrive, table, locks, work
<1>4. ASSUME NEW r \in Requests, NEW code \in {"400", "401"}, RejectMalformed(r, code)
      PROVE  TypeOK'
  BY <1>4 DEF TypeOK, RejectMalformed, table, call, locks, work
<1>5. ASSUME NEW r \in Requests, Abort(r)
      PROVE  TypeOK'
  BY <1>5, FinishType DEF TypeOK, Abort, table
<1> QED
  BY <1>1, <1>2, <1>3, <1>4, <1>5 DEF Environment

LEMMA StepType ==
    ASSUME TypeOK, NEW r \in Requests, Step(r) PROVE TypeOK'
<1> USE DEF table, call, locks, work
<1>0. ASSUME Reject(r) PROVE TypeOK'
  BY <1>0, FinishType DEF TypeOK, Reject
<1>1. CASE Begin(r)
  BY <1>1 DEF TypeOK, Begin, Goto, Statements
<1>2. CASE Preread(r)
  BY <1>2, <1>0 DEF TypeOK, Preread, Goto, Statements
<1>3. CASE LockTokenFamily(r)
  BY <1>3 DEF TypeOK, LockTokenFamily, Goto, Statements
<1>4. CASE LockRow(r)
  <2>1. tok[r] \in Tokens
    BY <1>4 DEF LockRow, TypeOK
  <2>2. CurrentRow(tok[r]) \in Rows
    BY <2>1 DEF CurrentRow, Rows, TypeOK
  <2> QED
    BY <1>4, <2>1, <2>2 DEF TypeOK, LockRow, Goto, Statements
<1>5. CASE Decide(r)
  <2>1. AppNow(r) \in Nat
    BY SkewAssumption DEF TypeOK, AppNow
  <2>2. CASE Reject(r)
    BY <2>2, <1>0
  <2>3. CASE Goto(r, "revokeScan") /\ UNCHANGED <<clock, table, call, reply, locks, work>>
    BY <1>5, <2>3 DEF TypeOK, Decide, Goto, Statements
  <2>4. CASE /\ appNow' = [appNow EXCEPT ![r] = AppNow(r)] /\ Goto(r, "gateUser")
             /\ UNCHANGED <<clock, table, call, reply, locks, txStart, row, marked,
                            newTok, toRevoke, touched>>
    BY <1>5, <2>1, <2>4 DEF TypeOK, Decide, Goto, Statements
  <2> QED
    BY <1>5, <2>2, <2>3, <2>4 DEF Decide
<1>6. CASE RevokeScan(r)
  BY <1>6 DEF TypeOK, RevokeScan, Goto, Statements, Members
<1>7. ASSUME NEW t \in Tokens, RevokeRow(r, t) PROVE TypeOK'
  BY <1>7 DEF TypeOK, RevokeRow
<1>8. CASE RevokeDone(r)
  BY <1>8 DEF TypeOK, RevokeDone, Goto, Statements
<1>9. ASSUME NEW code \in {"401", "500"}, CommitRevoke(r, code) PROVE TypeOK'
  BY <1>9, FinishType DEF TypeOK, CommitRevoke
<1>10. CASE GateUser(r)
  BY <1>10, <1>0 DEF TypeOK, GateUser, Goto, Statements
<1>11. CASE MarkUsed(r)
  BY <1>11 DEF TypeOK, MarkUsed, Goto, Statements
<1>12. ASSUME NEW t \in Tokens, Insert(r, t) PROVE TypeOK'
  BY <1>12 DEF TypeOK, Insert, Goto, Statements
<1>13. CASE MintFails(r)
  BY <1>13, FinishType DEF TypeOK, MintFails, Abort
<1>14. ASSUME NEW code \in {"200", "500"}, CommitRotate(r, code) PROVE TypeOK'
  <2>1. tok[r] \in Tokens /\ newTok[r] \in Tokens
    BY <1>14 DEF CommitRotate, TypeOK
  <2>2. /\ used' \in SUBSET Tokens /\ inserted' \in SUBSET Tokens
        /\ usedAt' \in [Tokens -> Nat] /\ mintedAt' \in [Tokens -> Nat]
        /\ family' \in [Tokens -> Families] /\ parent' \in [Tokens -> Tokens]
    BY <1>14, <2>1 DEF CommitRotate, TypeOK
  <2> QED
    BY <1>14, <2>2, FinishType DEF CommitRotate, TypeOK
<1> QED
  BY <1>1, <1>2, <1>3, <1>4, <1>5, <1>6, <1>7, <1>8, <1>9, <1>10, <1>11, <1>12,
     <1>13, <1>14 DEF Step

\* Every variable keeps its type in every behaviour of the endpoint.
THEOREM TypeCorrect == Spec => []TypeOK
<1>1. Init => TypeOK
  BY InitType
<1>2. TypeOK /\ [Next]_vars => TypeOK'
  <2> SUFFICES ASSUME TypeOK, [Next]_vars PROVE TypeOK'
    OBVIOUS
  <2>1. CASE Environment
    BY <2>1, EnvironmentType
  <2>2. ASSUME NEW r \in Requests, Step(r) PROVE TypeOK'
    BY <2>2, StepType
  <2>3. CASE UNCHANGED vars
    BY <2>3 DEF TypeOK, vars, table, call, locks, work
  <2> QED
    BY <2>1, <2>2, <2>3 DEF Next
<1> QED
  BY <1>1, <1>2, PTL DEF Spec

-----------------------------------------------------------------------------
(* The inductive invariant.                                                *)

ChainInv == TableInv /\ OneLiveToken /\ RevocationComplete /\ AtomicRotation
SlotsInv == Exclusive /\ \A r \in Requests : LocksOK(r) /\ WorkOK(r)

\* The step leaves the slot of s alone.
SameSlot(s) ==
    /\ pc'[s] = pc[s] /\ tok'[s] = tok[s] /\ verifier'[s] = verifier[s]
    /\ txStart'[s] = txStart[s] /\ row'[s] = row[s]
    /\ advisory'[s] = advisory[s] /\ held'[s] = held[s] /\ marked'[s] = marked[s]
    /\ newTok'[s] = newTok[s] /\ toRevoke'[s] = toRevoke[s] /\ touched'[s] = touched[s]

OthersSame(r) == \A s \in Requests \ {r} : SameSlot(s)

LEMMA InitInv == Init => RotationInv
<1> SUFFICES ASSUME Init PROVE RotationInv
  OBVIOUS
<1>1. TypeOK
  BY InitType
<1>2. SlotsInv
  BY DEF Init, SlotsInv, Exclusive, LocksOK, WorkOK, InTx, Statements, FamilyLocked,
         Rotating, Revoking
<1>3. ChainInv
  BY DEF Init, ChainInv, TableInv, OneLiveToken, RevocationComplete, AtomicRotation, Members
<1> QED
  BY <1>1, <1>2, <1>3 DEF RotationInv, ChainInv, SlotsInv

\* A statement that publishes nothing leaves the chains as they are.
LEMMA TableFrame == ChainInv /\ UNCHANGED table => ChainInv'
BY DEF ChainInv, table, TableInv, OneLiveToken, RevocationComplete, AtomicRotation,
       Members, Live

\* It also leaves alone what the other slots know.
LEMMA SlotFrame ==
    ASSUME NEW s \in Requests, LocksOK(s), WorkOK(s), SameSlot(s), UNCHANGED table
    PROVE  LocksOK(s)' /\ WorkOK(s)'
BY DEF LocksOK, WorkOK, SameSlot, table, InTx, IsReplay, CurrentRow, Members

\* Exclusion survives a step of r that takes no family lock and mints no token.
LEMMA ExclusiveFrame ==
    ASSUME NEW r \in Requests, Exclusive, OthersSame(r), UNCHANGED table,
           pc'[r] \in FamilyLocked => pc[r] \in FamilyLocked /\ tok'[r] = tok[r],
           newTok'[r] \in {newTok[r], NoToken}
    PROVE  Exclusive'
BY DEF Exclusive, OthersSame, SameSlot, table

\* So a step of r that publishes nothing only has to re-establish its own slot.
LEMMA SlotStep ==
    ASSUME RotationInv, NEW r \in Requests, OthersSame(r), UNCHANGED table,
           pc'[r] \in FamilyLocked => pc[r] \in FamilyLocked /\ tok'[r] = tok[r],
           newTok'[r] \in {newTok[r], NoToken},
           LocksOK(r)', WorkOK(r)'
    PROVE  SlotsInv'
<1>1. Exclusive'
  BY ExclusiveFrame DEF RotationInv
<1>2. ASSUME NEW s \in Requests PROVE LocksOK(s)' /\ WorkOK(s)'
  BY SlotFrame DEF RotationInv, OthersSame
<1> QED
  BY <1>1, <1>2 DEF SlotsInv

\* A transaction that ends gives up its locks and its work ...
LEMMA FinishSlot ==
    ASSUME TypeOK, NEW r \in Requests, NEW code, Finish(r, code)
    PROVE  /\ OthersSame(r) /\ LocksOK(r)' /\ WorkOK(r)'
           /\ pc'[r] = "idle" /\ newTok'[r] = NoToken
<1>1. OthersSame(r) /\ pc'[r] = "idle" /\ newTok'[r] = NoToken
  BY DEF TypeOK, Finish, OthersSame, SameSlot
<1>2. LocksOK(r)'
  BY DEF TypeOK, Finish, LocksOK, InTx, Statements, FamilyLocked
<1>3. WorkOK(r)'
  BY DEF TypeOK, Finish, WorkOK, Rotating, Revoking
<1> QED
  BY <1>1, <1>2, <1>3

\* ... and changes nothing else unless it commits.
LEMMA RollbackInv ==
    ASSUME RotationInv, NEW r \in Requests, NEW code, Finish(r, code), UNCHANGED table
    PROVE  SlotsInv'
BY FinishSlot, SlotStep DEF RotationInv, FamilyLocked, Statements

\* The environment's steps that publish nothing.
LEMMA QuietEnvironment ==
    ASSUME RotationInv, Environment, UNCHANGED table PROVE SlotsInv'
<1> USE DEF RotationInv, locks, work, call
<1>1. CASE Tick
  <2>1. \A s \in Requests : SameSlot(s)
    BY <1>1 DEF Tick, SameSlot
  <2>2. \A s \in Requests : LocksOK(s)' /\ WorkOK(s)'
    BY <2>1, SlotFrame
  <2> QED
    BY <2>1, <2>2 DEF SlotsInv, Exclusive, SameSlot, table
<1>2. ASSUME NEW f \in Families, NEW t \in Tokens, NEW r \in Requests,
             PersistSession(f, t, r)
      PROVE  FALSE
  BY <1>2 DEF PersistSession, Fresh, table
<1>3. ASSUME NEW r \in Requests, NEW t \in Tokens, NEW v \in BOOLEAN, Arrive(r, t, v)
      PROVE  SlotsInv'
  <2>1. OthersSame(r) /\ pc'[r] = "begin" /\ newTok'[r] = newTok[r]
    BY <1>3 DEF TypeOK, Arrive, OthersSame, SameSlot
  <2>2. LocksOK(r)'
    BY <1>3 DEF TypeOK, LocksOK, Arrive, InTx, Statements, FamilyLocked
  <2>3. WorkOK(r)'
    BY <1>3 DEF TypeOK, WorkOK, Arrive, Rotating, Revoking
  <2> QED
    BY <2>1, <2>2, <2>3, SlotStep DEF FamilyLocked, Statements
<1>4. ASSUME NEW r \in Requests, NEW code \in {"400", "401"}, RejectMalformed(r, code)
      PROVE  SlotsInv'
  <2>1. \A s \in Requests : SameSlot(s)
    BY <1>4 DEF RejectMalformed, SameSlot
  <2>2. \A s \in Requests : LocksOK(s)' /\ WorkOK(s)'
    BY <2>1, SlotFrame
  <2> QED
    BY <2>1, <2>2 DEF SlotsInv, Exclusive, SameSlot, table
<1>5. ASSUME NEW r \in Requests, Abort(r) PROVE SlotsInv'
  BY <1>5, RollbackInv DEF Abort
<1> QED
  BY <1>1, <1>2, <1>3, <1>4, <1>5 DEF Environment

\* At the verdict, the row read FOR UPDATE is still the committed one.
LEMMA ReadRow ==
    ASSUME RotationInv, NEW r \in Requests, pc[r] = "decide"
    PROVE  /\ row[r].used <=> tok[r] \in used
           /\ row[r].revoked <=> tok[r] \in revoked
           /\ row[r].usedAt = usedAt[tok[r]]
<1>1. row[r] = CurrentRow(tok[r])
  BY DEF RotationInv, WorkOK
<1>2. row[r].used = (tok[r] \in used)
  BY <1>1 DEF CurrentRow
<1>3. row[r].revoked = (tok[r] \in revoked)
  BY <1>1 DEF CurrentRow
<1>4. row[r].usedAt = usedAt[tok[r]]
  BY <1>1 DEF CurrentRow
<1> QED
  BY <1>2, <1>3, <1>4, Zenon

\* A family that is being revoked has no revoked row yet.
LEMMA NothingRevokedYet ==
    ASSUME RotationInv, NEW r \in Requests, pc[r] \in Revoking
    PROVE  Members(family[tok[r]]) \intersect revoked = {}
<1>1. tok[r] \in inserted /\ tok[r] \notin revoked
  BY DEF RotationInv, WorkOK, LocksOK, InTx, Statements, Revoking
<1> QED
  BY <1>1 DEF RotationInv, RevocationComplete, Members

\* The statements of a transaction that publish nothing.
LEMMA QuietStep ==
    ASSUME RotationInv, NEW r \in Requests, Step(r), UNCHANGED table PROVE SlotsInv'
<1> USE DEF RotationInv, locks, work, call, table, Goto
<1>0. ASSUME Reject(r) PROVE SlotsInv'
  BY <1>0, RollbackInv DEF Reject
<1>1. CASE Begin(r)
  <2>1. OthersSame(r) /\ pc'[r] = "preread" /\ newTok'[r] = newTok[r]
    BY <1>1 DEF TypeOK, Begin, OthersSame, SameSlot
  <2>2. LocksOK(r)' /\ WorkOK(r)'
    BY <1>1 DEF TypeOK, LocksOK, WorkOK, Begin, InTx, Statements, FamilyLocked,
                Rotating, Revoking
  <2> QED
    BY <2>1, <2>2, SlotStep DEF FamilyLocked, Statements
<1>2. CASE Preread(r)
  <2>0. SUFFICES ASSUME tok[r] \in inserted, pc' = [pc EXCEPT ![r] = "lockFamily"],
                        UNCHANGED <<locks, work, call>>
                 PROVE  SlotsInv'
    BY <1>2, <1>0 DEF Preread
  <2>1. OthersSame(r) /\ pc'[r] = "lockFamily" /\ newTok'[r] = newTok[r]
    BY <2>0 DEF TypeOK, OthersSame, SameSlot
  <2>2. LocksOK(r)' /\ WorkOK(r)'
    BY <1>2, <2>0 DEF Preread, TypeOK, LocksOK, WorkOK, InTx, Statements, FamilyLocked,
                Rotating, Revoking
  <2> QED
    BY <2>1, <2>2, SlotStep DEF FamilyLocked, Statements
<1>3. CASE LockTokenFamily(r)
  <2>1. OthersSame(r) /\ pc'[r] = "lockRow" /\ newTok'[r] = newTok[r] /\ tok'[r] = tok[r]
    BY <1>3 DEF TypeOK, LockTokenFamily, OthersSame, SameSlot
  <2>2. LocksOK(r)' /\ WorkOK(r)'
    BY <1>3 DEF TypeOK, LocksOK, WorkOK, LockTokenFamily, InTx, Statements, FamilyLocked,
                Rotating, Revoking
  <2>3. \A s \in Requests \ {r} : pc[s] \in FamilyLocked => family[tok[s]] # family[tok[r]]
    BY <1>3 DEF LockTokenFamily, AdvisoryFree, LocksOK
  <2>4. Exclusive'
    BY <2>1, <2>3 DEF Exclusive, OthersSame, SameSlot
  <2>5. \A s \in Requests : LocksOK(s)' /\ WorkOK(s)'
    BY <2>1, <2>2, SlotFrame DEF OthersSame
  <2> QED
    BY <2>4, <2>5 DEF SlotsInv
<1>4. CASE LockRow(r)
  <2>1. OthersSame(r) /\ pc'[r] = "decide" /\ newTok'[r] = newTok[r] /\ tok'[r] = tok[r]
    BY <1>4 DEF TypeOK, LockRow, OthersSame, SameSlot
  <2>2. LocksOK(r)'
    BY <1>4 DEF TypeOK, LocksOK, LockRow, InTx, Statements, FamilyLocked
  <2>3. WorkOK(r)'
    BY <1>4 DEF TypeOK, WorkOK, LockRow, Rotating, Revoking, CurrentRow
  <2> QED
    BY <1>4, <2>1, <2>2, <2>3, SlotStep DEF LockRow, FamilyLocked, Statements
<1>5. CASE Decide(r)
  <2>0. CASE Reject(r)
    BY <2>0, <1>0
  <2>a. CASE /\ Replayed(r) /\ pc' = [pc EXCEPT ![r] = "revokeScan"]
             /\ UNCHANGED <<locks, work, call>>
    <3>1. OthersSame(r) /\ pc'[r] = "revokeScan" /\ newTok'[r] = newTok[r] /\ tok'[r] = tok[r]
      BY <2>a DEF TypeOK, OthersSame, SameSlot
    <3>2. IsReplay(r) /\ tok[r] \notin revoked
      <4>1. /\ row[r].used <=> tok[r] \in used
            /\ row[r].revoked <=> tok[r] \in revoked
            /\ row[r].usedAt = usedAt[tok[r]]
        BY <1>5, ReadRow DEF Decide
      <4>2. verifier[r] /\ ~row[r].revoked /\ row[r].used /\ ~WithinLeeway(r)
        BY <2>a DEF Replayed, Acceptable
      <4>3. tok[r] \in Tokens /\ usedAt[tok[r]] \in Nat /\ txStart[r] \in Nat
        BY <1>5 DEF Decide, TypeOK
      <4>4. txStart[r] > usedAt[tok[r]] + Leeway
        BY <4>1, <4>2, <4>3, TimeAssumption DEF WithinLeeway
      <4> QED
        BY <4>1, <4>2, <4>4, Zenon DEF IsReplay
    <3>3. LocksOK(r)'
      BY <1>5, <2>a DEF Decide, TypeOK, LocksOK, InTx, Statements, FamilyLocked
    <3>4. WorkOK(r)'
      BY <1>5, <2>a, <3>2 DEF Decide, TypeOK, WorkOK, Rotating, Revoking, IsReplay
    <3> QED
      BY <1>5, <3>1, <3>3, <3>4, SlotStep DEF Decide, FamilyLocked, Statements
  <2>b. CASE /\ Rotatable(r) /\ pc' = [pc EXCEPT ![r] = "gateUser"]
             /\ UNCHANGED <<locks, txStart, row, marked, newTok, toRevoke, touched, call>>
    <3>1. OthersSame(r) /\ pc'[r] = "gateUser" /\ newTok'[r] = newTok[r] /\ tok'[r] = tok[r]
      BY <2>b DEF TypeOK, OthersSame, SameSlot
    <3>2. tok[r] \notin used /\ tok[r] \notin revoked
      <4>1. /\ row[r].used <=> tok[r] \in used
            /\ row[r].revoked <=> tok[r] \in revoked
            /\ row[r].usedAt = usedAt[tok[r]]
        BY <1>5, ReadRow DEF Decide
      <4>2. ~row[r].revoked /\ ~row[r].used
        BY <2>b DEF Rotatable, Acceptable
      <4> QED
        BY <4>1, <4>2
    <3>3. LocksOK(r)'
      BY <1>5, <2>b DEF Decide, TypeOK, LocksOK, InTx, Statements, FamilyLocked
    <3>4. WorkOK(r)'
      BY <1>5, <2>b, <3>2 DEF Decide, TypeOK, WorkOK, Rotating, Revoking
    <3> QED
      BY <1>5, <3>1, <3>3, <3>4, SlotStep DEF Decide, FamilyLocked, Statements
  <2> QED
    BY <1>5, <2>0, <2>a, <2>b DEF Decide
<1>6. CASE RevokeScan(r)
  <2>1. OthersSame(r) /\ pc'[r] = "revokeRows" /\ newTok'[r] = newTok[r] /\ tok'[r] = tok[r]
    BY <1>6 DEF TypeOK, RevokeScan, OthersSame, SameSlot
  <2>2. LocksOK(r)'
    BY <1>6 DEF TypeOK, LocksOK, RevokeScan, InTx, Statements, FamilyLocked
  <2>3. Members(family[tok[r]]) \intersect revoked = {}
    BY <1>6, NothingRevokedYet DEF RevokeScan, Revoking
  <2>4. toRevoke'[r] = Members(family[tok[r]]) /\ touched'[r] = {}
    BY <1>6, <2>3 DEF RevokeScan, TypeOK, WorkOK
  <2>5. WorkOK(r)'
    BY <1>6, <2>1, <2>4 DEF TypeOK, WorkOK, RevokeScan, Rotating, Revoking, IsReplay, Members
  <2> QED
    BY <1>6, <2>1, <2>2, <2>5, SlotStep DEF RevokeScan, FamilyLocked, Statements
<1>7. ASSUME NEW t \in Tokens, RevokeRow(r, t) PROVE SlotsInv'
  <2>1. OthersSame(r) /\ pc'[r] = pc[r] /\ newTok'[r] = newTok[r] /\ tok'[r] = tok[r]
    BY <1>7 DEF TypeOK, RevokeRow, OthersSame, SameSlot
  <2>2. t \in Members(family[tok[r]]) /\ t \notin revoked
    BY <1>7, NothingRevokedYet DEF RevokeRow, Revoking, WorkOK
  <2>3. LocksOK(r)'
    BY <1>7, <2>2 DEF TypeOK, LocksOK, RevokeRow, InTx, Statements, FamilyLocked, Members
  <2>4. toRevoke'[r] \union touched'[r] = toRevoke[r] \union touched[r]
    BY <1>7, <2>2 DEF RevokeRow, TypeOK
  <2>5. WorkOK(r)'
    BY <1>7, <2>1, <2>4 DEF TypeOK, WorkOK, RevokeRow, Rotating, Revoking, IsReplay, Members
  <2> QED
    BY <2>1, <2>3, <2>5, SlotStep
<1>8. CASE RevokeDone(r)
  <2>1. OthersSame(r) /\ pc'[r] = "commitRevoke" /\ newTok'[r] = newTok[r] /\ tok'[r] = tok[r]
    BY <1>8 DEF TypeOK, RevokeDone, OthersSame, SameSlot
  <2>2. LocksOK(r)'
    BY <1>8 DEF TypeOK, LocksOK, RevokeDone, InTx, Statements, FamilyLocked
  <2>3. WorkOK(r)'
    BY <1>8 DEF TypeOK, WorkOK, RevokeDone, Rotating, Revoking, IsReplay, Members
  <2> QED
    BY <1>8, <2>1, <2>2, <2>3, SlotStep DEF RevokeDone, FamilyLocked, Statements
<1>10. CASE GateUser(r)
  <2>0. SUFFICES ASSUME pc' = [pc EXCEPT ![r] = "markUsed"], UNCHANGED <<locks, work, call>>
                 PROVE  SlotsInv'
    BY <1>10, <1>0 DEF GateUser
  <2>1. OthersSame(r) /\ pc'[r] = "markUsed" /\ newTok'[r] = newTok[r] /\ tok'[r] = tok[r]
    BY <2>0 DEF TypeOK, OthersSame, SameSlot
  <2>2. LocksOK(r)'
    BY <1>10, <2>0 DEF GateUser, TypeOK, LocksOK, InTx, Statements, FamilyLocked
  <2>3. WorkOK(r)'
    BY <1>10, <2>0 DEF GateUser, TypeOK, WorkOK, Rotating, Revoking
  <2> QED
    BY <1>10, <2>1, <2>2, <2>3, SlotStep DEF GateUser, FamilyLocked, Statements
<1>11. CASE MarkUsed(r)
  <2>1. OthersSame(r) /\ pc'[r] = "insert" /\ newTok'[r] = newTok[r] /\ tok'[r] = tok[r]
    BY <1>11 DEF TypeOK, MarkUsed, OthersSame, SameSlot
  <2>2. LocksOK(r)'
    BY <1>11 DEF MarkUsed, TypeOK, LocksOK, InTx, Statements, FamilyLocked
  <2>3. WorkOK(r)'
    BY <1>11 DEF MarkUsed, TypeOK, WorkOK, Rotating, Revoking
  <2> QED
    BY <1>11, <2>1, <2>2, <2>3, SlotStep DEF MarkUsed, FamilyLocked, Statements
<1>12. ASSUME NEW t \in Tokens, Insert(r, t) PROVE SlotsInv'
  <2>1. OthersSame(r) /\ pc'[r] = "commitRotate" /\ newTok'[r] = t /\ tok'[r] = tok[r]
    BY <1>12 DEF TypeOK, Insert, OthersSame, SameSlot
  <2>2. LocksOK(r)'
    BY <1>12 DEF Insert, TypeOK, LocksOK, InTx, Statements, FamilyLocked
  <2>3. WorkOK(r)'
    BY <1>12 DEF Insert, TypeOK, WorkOK, Rotating, Revoking, Fresh
  <2>4. Exclusive'
    BY <1>12, <2>1 DEF Exclusive, OthersSame, SameSlot, Insert, Fresh, FamilyLocked, Statements
  <2>5. \A s \in Requests : LocksOK(s)' /\ WorkOK(s)'
    BY <2>1, <2>2, <2>3, SlotFrame DEF OthersSame
  <2> QED
    BY <2>4, <2>5 DEF SlotsInv
<1>13. CASE MintFails(r)
  BY <1>13, RollbackInv DEF MintFails, Abort
<1>14. ASSUME NEW code \in {"401", "500"}, CommitRevoke(r, code) PROVE SlotsInv'
  BY <1>14, RollbackInv DEF CommitRevoke
<1>15. ASSUME NEW code \in {"200", "500"}, CommitRotate(r, code) PROVE SlotsInv'
  BY <1>15, RollbackInv DEF CommitRotate
<1> QED
  BY <1>1, <1>2, <1>3, <1>4, <1>5, <1>6, <1>7, <1>8, <1>10, <1>11, <1>12, <1>13,
     <1>14, <1>15 DEF Step

-----------------------------------------------------------------------------
(* The three actions that change the tables.                               *)

\* A new row joins its own family and no other.
LEMMA MembersAfterInsert ==
    ASSUME TypeOK, NEW n \in Tokens, NEW f \in Families, n \notin inserted,
           inserted' = inserted \union {n}, family' = [family EXCEPT ![n] = f]
    PROVE  \A g \in Families :
              Members(g)' = IF g = f THEN Members(f) \union {n} ELSE Members(g)
BY DEF Members, TypeOK

\* A slot keeps its locks when the rows it refers to keep their families.
LEMMA LocksFrame ==
    ASSUME NEW s \in Requests, LocksOK(s), SameSlot(s), inserted \subseteq inserted',
           \A t \in inserted : family'[t] = family[t]
    PROVE  LocksOK(s)'
BY DEF LocksOK, SameSlot, InTx, FamilyLocked

\* A slot that holds its family's lock keeps what it knows when its own row and
\* the rows of its family are as before.
LEMMA WorkFrame ==
    ASSUME NEW s \in Requests, WorkOK(s), SameSlot(s),
           pc[s] \in FamilyLocked =>
              /\ (tok[s] \in used') = (tok[s] \in used)
              /\ (tok[s] \in revoked') = (tok[s] \in revoked)
              /\ usedAt'[tok[s]] = usedAt[tok[s]]
              /\ mintedAt'[tok[s]] = mintedAt[tok[s]]
              /\ Members(family[tok[s]])' = Members(family[tok[s]]),
           newTok[s] \in inserted' => newTok[s] \in inserted
    PROVE  WorkOK(s)'
<1>1. tok'[s] = tok[s] /\ pc'[s] = pc[s] /\ row'[s] = row[s]
  BY DEF SameSlot
<1>2. pc[s] = "decide" => CurrentRow(tok[s])' = CurrentRow(tok[s])
  BY <1>1 DEF CurrentRow, FamilyLocked, Statements
<1>3. pc[s] \in Revoking /\ IsReplay(s) => IsReplay(s)'
  BY <1>1 DEF IsReplay, SameSlot, FamilyLocked, Statements, Revoking
<1>4. pc[s] \in Rotating \union Revoking \union {"revokeRows", "commitRevoke"}
        => pc[s] \in FamilyLocked
  BY DEF FamilyLocked, Statements, Rotating, Revoking
<1> QED
  BY <1>1, <1>2, <1>3, <1>4 DEF WorkOK, SameSlot

LEMMA PersistSessionInv ==
    ASSUME RotationInv, NEW f \in Families, NEW t \in Tokens, NEW r \in Requests,
           PersistSession(f, t, r)
    PROVE  SlotsInv' /\ ChainInv'
<1> USE DEF RotationInv
<1>1. \A g \in Families : Members(g)' = IF g = f THEN Members(f) \union {t} ELSE Members(g)
  BY MembersAfterInsert DEF PersistSession, Fresh
<1>2. t \notin inserted /\ Members(f) = {}
  BY DEF PersistSession, Fresh
<1>3. ASSUME NEW s \in Requests, InTx(s), pc[s] # "preread"
      PROVE  /\ tok[s] \in inserted /\ tok[s] # t /\ tok[s] \in Tokens
             /\ family'[tok[s]] = family[tok[s]] /\ family[tok[s]] \in Families
             /\ Members(family[tok[s]])' = Members(family[tok[s]])
  <2>1. tok[s] \in inserted /\ tok[s] # t
    BY <1>2, <1>3 DEF LocksOK
  <2>2. family[tok[s]] # f
    BY <1>2, <2>1 DEF Members
  <2>3. tok[s] \in Tokens /\ family[tok[s]] \in Families
    BY <2>1 DEF TypeOK
  <2> QED
    BY <1>1, <2>1, <2>2, <2>3 DEF PersistSession, TypeOK, call
<1>a. \A s \in Requests : SameSlot(s)
  BY DEF PersistSession, SameSlot, call, locks, work
<1>4. ASSUME NEW s \in Requests PROVE LocksOK(s)'
  <2>1. \A u \in inserted : family'[u] = family[u]
    BY <1>2 DEF PersistSession, TypeOK
  <2> QED
    BY <1>a, <2>1, LocksFrame DEF PersistSession
<1>5. ASSUME NEW s \in Requests PROVE WorkOK(s)'
  <2>1. pc[s] \in FamilyLocked =>
              /\ mintedAt'[tok[s]] = mintedAt[tok[s]]
              /\ Members(family[tok[s]])' = Members(family[tok[s]])
    BY <1>3 DEF PersistSession, TypeOK, InTx, FamilyLocked
  <2>2. newTok[s] # t
    BY DEF PersistSession, Fresh
  <2> QED
    BY <1>a, <2>1, <2>2, WorkFrame DEF PersistSession
<1>6. Exclusive'
  BY <1>3 DEF Exclusive, PersistSession, InTx, Statements, FamilyLocked, call, locks, work
<1>7. ASSUME NEW c \in inserted PROVE parent[c] # t
  BY <1>2, <1>7 DEF TableInv, TypeOK
<1>8. TableInv'
  BY <1>2 DEF TableInv, PersistSession, TypeOK
<1>9. OneLiveToken'
  <2> SUFFICES ASSUME NEW g \in Families, Members(g)' # {},
                      Members(g)' \intersect revoked' = {}
               PROVE  \E u \in Tokens : Live(g)' = {u}
    BY DEF OneLiveToken
  <2>1. CASE g = f
    <3>1. Live(g)' = {t}
      BY <1>1, <1>2, <2>1 DEF Live, PersistSession, TableInv
    <3> QED
      BY <3>1
  <2>2. CASE g # f
    <3>1. Live(g)' = Live(g)
      BY <1>1, <2>2 DEF Live, PersistSession
    <3> QED
      BY <1>1, <2>2, <3>1 DEF OneLiveToken, PersistSession
  <2> QED
    BY <2>1, <2>2
<1>10. RevocationComplete'
  BY <1>2 DEF RevocationComplete, PersistSession, TypeOK, TableInv, Members
<1>11. AtomicRotation'
  BY <1>2, <1>7 DEF AtomicRotation, PersistSession, TypeOK, TableInv
<1> QED
  BY <1>4, <1>5, <1>6, <1>8, <1>9, <1>10, <1>11 DEF SlotsInv, ChainInv

\* A slot other than r that has passed its pre-read works in another family.
LEMMA OtherFamily ==
    ASSUME RotationInv, NEW r \in Requests, pc[r] \in FamilyLocked,
           NEW s \in Requests \ {r}, pc[s] \in FamilyLocked
    PROVE  /\ tok[s] \in inserted /\ tok[s] \in Tokens /\ tok[s] # tok[r]
           /\ family[tok[s]] # family[tok[r]]
BY DEF RotationInv, Exclusive, LocksOK, InTx, FamilyLocked, TypeOK

LEMMA CommitRevokeInv ==
    ASSUME RotationInv, NEW r \in Requests, NEW code \in {"401", "500"}, CommitRevoke(r, code)
    PROVE  SlotsInv' /\ ChainInv'
<1> USE DEF RotationInv
<1>1. /\ OthersSame(r) /\ LocksOK(r)' /\ WorkOK(r)'
      /\ pc'[r] = "idle" /\ newTok'[r] = NoToken
  BY FinishSlot DEF CommitRevoke
<1>2. touched[r] = Members(family[tok[r]]) /\ tok[r] \in touched[r]
  <2>1. toRevoke[r] = {} /\ toRevoke[r] \union touched[r] = Members(family[tok[r]])
    BY DEF CommitRevoke, WorkOK
  <2>2. tok[r] \in inserted
    BY DEF CommitRevoke, LocksOK, InTx, Statements
  <2> QED
    BY <2>1, <2>2 DEF Members
<1>3. /\ pc[r] \in FamilyLocked /\ revoked' = revoked \union Members(family[tok[r]])
      /\ UNCHANGED <<inserted, family, parent, used, usedAt, mintedAt>>
  BY <1>2 DEF CommitRevoke, FamilyLocked, Statements
<1>4. ASSUME NEW s \in Requests \ {r} PROVE LocksOK(s)' /\ WorkOK(s)'
  <2>1. pc[s] \in FamilyLocked => (tok[s] \in revoked') = (tok[s] \in revoked)
    BY <1>3, OtherFamily DEF Members
  <2>2. SameSlot(s) /\ tok'[s] = tok[s]
    BY <1>1 DEF OthersSame, SameSlot
  <2>3. Members(family[tok[s]])' = Members(family[tok[s]])
    BY <1>3, <2>2 DEF Members
  <2>4. LocksOK(s)'
    BY <1>3, <2>2, LocksFrame
  <2>5. WorkOK(s)'
    BY <1>3, <2>1, <2>2, <2>3, WorkFrame
  <2> QED
    BY <2>4, <2>5
<1>5. Exclusive'
  BY <1>1, <1>3 DEF Exclusive, OthersSame, SameSlot, FamilyLocked, Statements
<1>6. TableInv' /\ AtomicRotation'
  BY <1>3 DEF TableInv, AtomicRotation, Members
<1>7. RevocationComplete'
  BY <1>3 DEF RevocationComplete, Members, TypeOK
<1>8. OneLiveToken'
  <2> SUFFICES ASSUME NEW g \in Families, Members(g)' # {},
                      Members(g)' \intersect revoked' = {}
               PROVE  \E u \in Tokens : Live(g)' = {u}
    BY DEF OneLiveToken
  <2>1. Members(g)' = Members(g) /\ g # family[tok[r]]
    BY <1>2, <1>3 DEF Members
  <2>2. Live(g)' = Live(g)
    BY <1>3, <2>1 DEF Live, Members
  <2> QED
    BY <1>3, <2>1, <2>2 DEF OneLiveToken
<1> QED
  BY <1>1, <1>4, <1>5, <1>6, <1>7, <1>8 DEF SlotsInv, ChainInv

LEMMA CommitRotateInv ==
    ASSUME RotationInv, NEW r \in Requests, NEW code \in {"200", "500"}, CommitRotate(r, code)
    PROVE  SlotsInv' /\ ChainInv'
<1> USE DEF RotationInv
<1> DEFINE n == newTok[r]
           k == tok[r]
           f == family[k]
<1>1. /\ OthersSame(r) /\ LocksOK(r)' /\ WorkOK(r)'
      /\ pc'[r] = "idle" /\ newTok'[r] = NoToken
  BY FinishSlot DEF CommitRotate
<1>2. /\ pc[r] \in FamilyLocked /\ n \in Tokens /\ n # NoToken /\ n \notin inserted
      /\ k \in inserted /\ k \in Tokens /\ f \in Families
      /\ k \notin used /\ k \notin revoked /\ marked[r] = {k} /\ n # k
  BY NoTokenAssumption
  DEF CommitRotate, TypeOK, LocksOK, WorkOK, InTx, Statements, FamilyLocked, Rotating
<1> HIDE DEF n, k, f
<1>3. /\ used' = used \union {k} /\ revoked' = revoked
      /\ usedAt' = [t \in Tokens |-> IF t = k THEN txStart[r] ELSE usedAt[t]]
      /\ inserted' = inserted \union {n}
      /\ family' = [family EXCEPT ![n] = f]
      /\ parent' = [parent EXCEPT ![n] = k]
      /\ mintedAt' = [mintedAt EXCEPT ![n] = appNow[r]]
  BY <1>2 DEF CommitRotate, n, k, f
<1>4. \A g \in Families : Members(g)' = IF g = f THEN Members(f) \union {n} ELSE Members(g)
  BY <1>2, <1>3, MembersAfterInsert
<1>5. \A t \in inserted : t # n /\ family'[t] = family[t] /\ parent'[t] = parent[t]
  BY <1>2, <1>3 DEF TypeOK
<1>6. ASSUME NEW s \in Requests \ {r} PROVE LocksOK(s)' /\ WorkOK(s)'
  <2>1. SameSlot(s) /\ tok'[s] = tok[s]
    BY <1>1 DEF OthersSame, SameSlot
  <2>2. LocksOK(s)'
    BY <1>3, <1>5, <2>1, LocksFrame
  <2>3. ASSUME pc[s] \in FamilyLocked
        PROVE  /\ (tok[s] \in used') = (tok[s] \in used)
               /\ (tok[s] \in revoked') = (tok[s] \in revoked)
               /\ usedAt'[tok[s]] = usedAt[tok[s]]
               /\ mintedAt'[tok[s]] = mintedAt[tok[s]]
               /\ Members(family[tok[s]])' = Members(family[tok[s]])
    <3>1. /\ tok[s] \in inserted /\ tok[s] \in Tokens /\ tok[s] # k
          /\ family[tok[s]] # f
      BY <1>2, <2>3, OtherFamily DEF k, f
    <3>2. family'[tok'[s]] = family[tok[s]] /\ family[tok[s]] \in Families /\ tok[s] # n
      BY <1>5, <2>1, <3>1 DEF TypeOK
    <3>3. Members(family[tok[s]])' = Members(family[tok[s]])
      BY <1>4, <3>1, <3>2
    <3> QED
      BY <1>3, <3>1, <3>2, <3>3 DEF TypeOK
  <2>4. newTok[s] \in inserted' => newTok[s] \in inserted
    BY <1>2, <1>3 DEF Exclusive, n
  <2>5. WorkOK(s)'
    BY <2>1, <2>3, <2>4, WorkFrame
  <2> QED
    BY <2>2, <2>5
<1>7. Exclusive'
  <2>1. ASSUME NEW s \in Requests, pc'[s] \in FamilyLocked
        PROVE  s # r /\ pc[s] \in FamilyLocked /\ family'[tok'[s]] = family[tok[s]]
    <3>1. s # r
      BY <1>1, <2>1 DEF FamilyLocked, Statements
    <3>2. pc[s] \in FamilyLocked /\ tok'[s] = tok[s]
      BY <1>1, <2>1, <3>1 DEF OthersSame, SameSlot
    <3>3. tok[s] \in inserted
      BY <3>2 DEF LocksOK, InTx, FamilyLocked
    <3> QED
      BY <1>5, <3>1, <3>2, <3>3
  <2>2. \A s \in Requests : newTok'[s] = NoToken \/ (s # r /\ newTok'[s] = newTok[s])
    BY <1>1 DEF OthersSame, SameSlot
  <2> QED
    BY <2>1, <2>2 DEF Exclusive
<1>8. TableInv'
  <2>1. \A t \in inserted : parent[t] \in inserted /\ parent[t] \in Tokens
    BY DEF TableInv, TypeOK
  <2>2. used' \subseteq inserted' /\ revoked' \subseteq inserted'
    BY <1>2, <1>3 DEF TableInv
  <2>3. ASSUME NEW t \in Tokens
        PROVE  IF t \in inserted'
               THEN parent'[t] \in inserted' /\ family'[parent'[t]] = family'[t]
               ELSE parent'[t] = t
    <3>1. CASE t = n
      <4>1. parent'[t] = k /\ family'[t] = f /\ family'[k] = f
        BY <1>2, <1>3, <1>5, <3>1 DEF TypeOK, f
      <4> QED
        BY <1>2, <1>3, <3>1, <4>1
    <3>2. CASE t \in inserted
      BY <1>3, <1>5, <2>1, <3>2 DEF TableInv
    <3>3. CASE t # n /\ t \notin inserted
      BY <1>3, <3>3 DEF TableInv, TypeOK
    <3> QED
      BY <3>1, <3>2, <3>3
  <2> QED
    BY <2>2, <2>3 DEF TableInv
<1>9. Members(f) \intersect revoked = {}
  BY <1>2 DEF RevocationComplete, Members, f
<1>10. RevocationComplete'
  <2> SUFFICES ASSUME NEW s \in inserted', NEW t \in inserted',
                      family'[s] = family'[t], s \in revoked'
               PROVE  t \in revoked'
    BY DEF RevocationComplete
  <2>1. s \in inserted /\ s \in revoked /\ family'[s] = family[s]
    BY <1>3, <1>5 DEF TableInv
  <2>2. family[s] # f
    BY <1>9, <2>1 DEF Members
  <2>3. t # n /\ t \in inserted /\ family'[t] = family[t]
    BY <1>2, <1>3, <1>5, <2>1, <2>2 DEF TypeOK
  <2> QED
    BY <1>3, <2>1, <2>3 DEF RevocationComplete
<1>11. OneLiveToken'
  <2> SUFFICES ASSUME NEW g \in Families, Members(g)' # {},
                      Members(g)' \intersect revoked' = {}
               PROVE  \E u \in Tokens : Live(g)' = {u}
    BY DEF OneLiveToken
  <2>1. CASE g = f
    <3>1. PICK u \in Tokens : Live(f) = {u}
      BY <1>2, <1>9 DEF OneLiveToken, Members, f
    <3>2. k \in Live(f)
      BY <1>2 DEF Live, Members, f
    <3>3. Live(f) = {k}
      BY <3>1, <3>2
    <3>4. n \notin used /\ n \notin revoked
      BY <1>2 DEF TableInv
    <3>5. Live(g)' = {n}
      <4>1. Members(g)' = Members(f) \union {n}
        BY <1>4, <2>1
      <4>2. Live(g)' = {t \in Members(f) \union {n} : t \notin used \union {k} /\ t \notin revoked}
        BY <1>3, <4>1 DEF Live
      <4>3. \A t \in Members(f) : t \notin used /\ t \notin revoked => t = k
        BY <3>3 DEF Live
      <4> QED
        BY <1>2, <3>4, <4>2, <4>3
    <3> QED
      BY <1>2, <3>5
  <2>2. CASE g # f
    <3>1. Members(g)' = Members(g)
      BY <1>4, <2>2
    <3>2. k \notin Members(g)
      BY <2>2 DEF Members, f
    <3>3. Live(g)' = Live(g)
      BY <1>3, <3>1, <3>2 DEF Live
    <3> QED
      BY <1>3, <3>1, <3>3 DEF OneLiveToken
  <2> QED
    BY <2>1, <2>2
<1>12. AtomicRotation'
  <2> SUFFICES ASSUME NEW t \in inserted'
               PROVE  /\ t \in used' <=> {c \in inserted' \ {t} : parent'[c] = t} # {}
                      /\ \A c, d \in {e \in inserted' \ {t} : parent'[e] = t} :
                            c = d /\ family'[c] = family'[t]
    BY DEF AtomicRotation
  <2>1. parent'[n] = k /\ family'[n] = f /\ family'[k] = f
    BY <1>2, <1>3, <1>5 DEF TypeOK, f
  <2>2. CASE t = n
    <3>1. {c \in inserted' \ {t} : parent'[c] = t} = {}
      BY <1>2, <1>3, <1>5, <2>2 DEF TableInv, TypeOK
    <3>2. t \notin used'
      BY <1>2, <1>3, <2>2 DEF TableInv
    <3> QED
      BY <3>1, <3>2
  <2>3. CASE t = k
    <3>1. {c \in inserted \ {k} : parent[c] = k} = {}
      BY <1>2 DEF AtomicRotation
    <3>2. {c \in inserted' \ {t} : parent'[c] = t} = {n}
      BY <1>2, <1>3, <1>5, <2>1, <2>3, <3>1
    <3> QED
      BY <1>3, <2>1, <2>3, <3>2
  <2>4. CASE t # n /\ t # k
    <3>1. t \in inserted
      BY <1>3, <2>4
    <3>2. {c \in inserted' \ {t} : parent'[c] = t} = {c \in inserted \ {t} : parent[c] = t}
      BY <1>3, <1>5, <2>1, <2>4
    <3> QED
      BY <1>3, <1>5, <2>4, <3>1, <3>2 DEF AtomicRotation
  <2> QED
    BY <2>2, <2>3, <2>4
<1> QED
  BY <1>1, <1>6, <1>7, <1>8, <1>10, <1>11, <1>12 DEF SlotsInv, ChainInv

-----------------------------------------------------------------------------
(* The safety theorems.                                                    *)

\* One step keeps the inductive invariant.
LEMMA StepInv == RotationInv /\ [Next]_vars => RotationInv'
<1> SUFFICES ASSUME RotationInv, [Next]_vars PROVE RotationInv'
  OBVIOUS
<1>0. ChainInv /\ TypeOK
  BY DEF RotationInv, ChainInv
<1>1. CASE UNCHANGED vars
  <2>1. TypeOK' /\ UNCHANGED table /\ \A s \in Requests : SameSlot(s)
    BY <1>0, <1>1 DEF TypeOK, vars, table, call, locks, work, SameSlot
  <2>2. \A s \in Requests : LocksOK(s)' /\ WorkOK(s)'
    BY <2>1, SlotFrame DEF RotationInv
  <2>3. Exclusive'
    BY <2>1 DEF RotationInv, Exclusive, SameSlot, table
  <2> QED
    BY <1>0, <2>1, <2>2, <2>3, TableFrame DEF RotationInv, ChainInv
<1>2. CASE Environment
  <2>1. TypeOK'
    BY <1>0, <1>2, EnvironmentType
  <2>2. CASE UNCHANGED table
    BY <1>0, <1>2, <2>1, <2>2, QuietEnvironment, TableFrame DEF RotationInv, ChainInv, SlotsInv
  <2>3. ASSUME NEW f \in Families, NEW t \in Tokens, NEW r \in Requests,
               PersistSession(f, t, r)
        PROVE  RotationInv'
    BY <2>1, <2>3, PersistSessionInv DEF RotationInv, ChainInv, SlotsInv
  <2> QED
    BY <1>2, <2>2, <2>3 DEF Environment, Tick, Arrive, RejectMalformed, Abort
<1>3. ASSUME NEW r \in Requests, Step(r) PROVE RotationInv'
  <2>1. TypeOK'
    BY <1>0, <1>3, StepType
  <2>2. CASE UNCHANGED table
    BY <1>0, <1>3, <2>1, <2>2, QuietStep, TableFrame DEF RotationInv, ChainInv, SlotsInv
  <2>3. ASSUME NEW code \in {"401", "500"}, CommitRevoke(r, code) PROVE RotationInv'
    BY <2>1, <2>3, CommitRevokeInv DEF RotationInv, ChainInv, SlotsInv
  <2>4. ASSUME NEW code \in {"200", "500"}, CommitRotate(r, code) PROVE RotationInv'
    BY <2>1, <2>4, CommitRotateInv DEF RotationInv, ChainInv, SlotsInv
  <2> QED
    BY <1>3, <2>2, <2>3, <2>4 DEF Step, Begin, Preread, LockTokenFamily, LockRow, Decide,
       RevokeScan, RevokeRow, RevokeDone, GateUser, MarkUsed, Insert, MintFails, Reject, Abort
<1> QED
  BY <1>1, <1>2, <1>3 DEF Next

\* Rotation keeps the inductive invariant, whatever calls race, fail or replay.
THEOREM RotationInvariant == Spec => []RotationInv
<1>1. Init => RotationInv
  BY InitInv
<1>2. RotationInv /\ [Next]_vars => RotationInv'
  BY StepInv
<1> QED
  BY <1>1, <1>2, PTL DEF Spec

\* AC6/AC15: a chain that was never revoked has exactly one live token.
THEOREM OneLiveTokenAlways == Spec => []OneLiveToken
<1>1. RotationInv => OneLiveToken
  BY DEF RotationInv
<1> QED
  BY <1>1, RotationInvariant, PTL

\* AC5: a family-wide revocation leaves no token of the family usable.
THEOREM RevocationIsComplete == Spec => []RevocationComplete
<1>1. RotationInv => RevocationComplete
  BY DEF RotationInv
<1> QED
  BY <1>1, RotationInvariant, PTL

\* AC15: a token is consumed exactly when its one successor is committed.
THEOREM RotationIsAtomic == Spec => []AtomicRotation
<1>1. RotationInv => AtomicRotation
  BY DEF RotationInv
<1> QED
  BY <1>1, RotationInvariant, PTL
=============================================================================
