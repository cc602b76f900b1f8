---------------------------- MODULE LoginProofs ----------------------------
(***************************************************************************)
(* Proofs about LoginLockout, for every threshold, window and finite       *)
(* number of concurrent calls.                                             *)
(***************************************************************************)
EXTENDS LoginLockout, TLAPS, FiniteSetTheorems

-----------------------------------------------------------------------------
(* Type correctness.                                                       *)

\* Whatever ends or continues a call leaves its slot well typed.
LEMMA SlotType ==
    ASSUME TypeOK, NEW r \in Slots,
           \/ \E code \in {"200", "401", "500"} : Finish(r, code)
           \/ \E stage \in Stages : Continue(r, stage)
    PROVE  /\ pc' \in [Slots -> Stages]
           /\ known' \in [Slots -> BOOLEAN] /\ right' \in [Slots -> BOOLEAN]
           /\ seen' \in [Slots -> Nat] /\ stmtNow' \in [Slots -> Nat]
           /\ reply' \in [Slots -> {"none", "200", "400", "401", "500"}]
<1>1. CASE \E code \in {"200", "401", "500"} : Finish(r, code)
  BY <1>1 DEF TypeOK, Finish, Goto, Stages
<1>2. CASE \E stage \in Stages : Continue(r, stage)
  BY <1>2 DEF TypeOK, Continue, Goto, request
<1> QED
  BY <1>1, <1>2

LEMMA LoginType == TypeOK /\ [Next]_vars => TypeOK'
<1> SUFFICES ASSUME TypeOK, [Next]_vars PROVE TypeOK'
  OBVIOUS
<1> USE PolicyAssumption DEF TypeOK, account, request, Goto, Stages, NoLock, OneMore
<1>1. CASE Tick
  BY <1>1 DEF Tick
<1>2. CASE Unlock
  BY <1>2 DEF Unlock, ClearLock
<1>3. ASSUME NEW r \in Slots, NEW k \in BOOLEAN, NEW p \in BOOLEAN, Arrive(r, k, p)
      PROVE  TypeOK'
  BY <1>3 DEF Arrive
<1>4. ASSUME NEW r \in Slots, RejectMalformed(r) PROVE TypeOK'
  BY <1>4 DEF RejectMalformed
<1>5. ASSUME NEW r \in Slots, Abort(r) PROVE TypeOK'
  BY <1>5 DEF Abort, Finish
<1>6. ASSUME NEW r \in Slots, Lookup(r) PROVE TypeOK'
  BY <1>6 DEF Lookup, Continue
<1>7. ASSUME NEW r \in Slots, Verify(r) PROVE TypeOK'
  <2>1. /\ argons' \in [Slots -> Nat] /\ UNCHANGED <<clock, account, writes, guesses>>
        /\ \/ \E code \in {"200", "401", "500"} : Finish(r, code)
           \/ \E stage \in Stages : Continue(r, stage)
    BY <1>7 DEF Verify
  <2> QED
    BY <2>1, SlotType
<1>8. ASSUME NEW r \in Slots, TouchUserTiming(r) PROVE TypeOK'
  BY <1>8 DEF TouchUserTiming, Finish
<1>9. ASSUME NEW r \in Slots, SendRecord(r) PROVE TypeOK'
  BY <1>9 DEF SendRecord
<1>10. ASSUME NEW r \in Slots, NEW d \in BOOLEAN, RecordLoginFailure(r, d) PROVE TypeOK'
  <2>1. failed' \in Nat /\ lockedUntil' \in Nat /\ guesses' \in Nat
    BY <1>10 DEF RecordLoginFailure, Counted, LockAfter
  <2>2. writes' \in [Slots -> Nat] /\ UNCHANGED <<clock, active, hashOK, argons>>
    BY <1>10 DEF RecordLoginFailure
  <2>3. \/ \E code \in {"200", "401", "500"} : Finish(r, code)
        \/ \E stage \in Stages : Continue(r, stage)
    BY <1>10 DEF RecordLoginFailure
  <2> QED
    BY <2>1, <2>2, <2>3, SlotType
<1>11. ASSUME NEW r \in Slots, LogAccountLocked(r) PROVE TypeOK'
  BY <1>11 DEF LogAccountLocked, Finish
<1>12. ASSUME NEW r \in Slots, NEW d \in BOOLEAN, ResetLoginFailures(r, d) PROVE TypeOK'
  <2>1. /\ writes' \in [Slots -> Nat] /\ UNCHANGED <<clock, argons, active, hashOK>>
        /\ failed' = 0 /\ lockedUntil' = 0 /\ guesses' = 0
        /\ \/ \E code \in {"200", "401", "500"} : Finish(r, code)
           \/ \E stage \in Stages : Continue(r, stage)
    BY <1>12 DEF ResetLoginFailures, ClearLock
  <2> QED
    BY <2>1, SlotType
<1>13. ASSUME NEW r \in Slots, IssueSession(r) PROVE TypeOK'
  BY <1>13 DEF IssueSession, Finish
<1>14. CASE UNCHANGED vars
  BY <1>14 DEF vars
<1> QED
  BY <1>1, <1>2, <1>3, <1>4, <1>5, <1>6, <1>7, <1>8, <1>9, <1>10, <1>11, <1>12, <1>13,
     <1>14 DEF Next, Environment, Step

LEMMA LoginInitType == Init => TypeOK
BY DEF Init, TypeOK, NoLock, Stages

\* Every variable keeps its type in every behaviour of the login endpoint.
THEOREM LoginTypeCorrect == Spec => []TypeOK
BY LoginInitType, LoginType, PTL DEF Spec

-----------------------------------------------------------------------------
(* The counter.                                                            *)

CountInv == LockIffThreshold /\ NoLostFailure

\* What RecordLoginFailure does to the counter, by the old row.
LEMMA CountCases ==
    ASSUME TypeOK, CountInv, NEW r \in Slots, NEW d \in BOOLEAN, RecordLoginFailure(r, d)
    PROVE  \/ /\ lockedUntil > stmtNow[r] /\ failed' = failed /\ lockedUntil' = lockedUntil
              /\ guesses' = guesses + 1 /\ failed = Threshold /\ guesses >= Threshold
           \/ /\ lockedUntil <= stmtNow[r] /\ guesses' = failed' /\ failed' < Threshold
              /\ lockedUntil' = NoLock
           \/ /\ lockedUntil <= stmtNow[r] /\ guesses' = failed' /\ failed' = Threshold
              /\ lockedUntil' = stmtNow[r] + Window
<1> USE PolicyAssumption DEF NoLock
<1>0. stmtNow[r] \in Nat /\ lockedUntil \in Nat /\ failed \in Nat /\ guesses \in Nat
  BY DEF TypeOK
<1>1. CASE StillLocked(stmtNow[r])
  <2>1. /\ lockedUntil # 0 /\ lockedUntil > stmtNow[r] /\ failed' = failed
        /\ lockedUntil' = lockedUntil /\ ~LapsedLock(stmtNow[r])
    BY <1>0, <1>1 DEF RecordLoginFailure, Counted, LockAfter, StillLocked, LapsedLock
  <2>2. guesses' = guesses + 1 /\ failed = Threshold
    BY <2>1 DEF RecordLoginFailure, CountInv, LockIffThreshold
  <2>3. guesses >= Threshold
    BY <1>0, <2>2 DEF CountInv, NoLostFailure
  <2> QED
    BY <2>1, <2>2, <2>3
<1>2. CASE LapsedLock(stmtNow[r])
  <2>1. /\ lockedUntil <= stmtNow[r] /\ failed' = 1 /\ guesses' = 1
        /\ lockedUntil' = IF 1 >= Threshold THEN stmtNow[r] + Window ELSE 0
    BY <1>0, <1>2 DEF RecordLoginFailure, Counted, LockAfter, StillLocked, LapsedLock
  <2> QED
    BY <2>1
<1>3. CASE lockedUntil = 0
  <2>1. /\ failed' = failed + 1 /\ guesses' = guesses + 1
        /\ lockedUntil' = IF failed + 1 >= Threshold THEN stmtNow[r] + Window ELSE 0
    BY <1>3 DEF RecordLoginFailure, Counted, LockAfter, StillLocked, LapsedLock
  <2>2. failed < Threshold /\ guesses = failed
    BY <1>0, <1>3 DEF CountInv, LockIffThreshold, NoLostFailure
  <2> QED
    BY <1>0, <1>3, <2>1, <2>2
<1> QED
  BY <1>0, <1>1, <1>2, <1>3 DEF StillLocked, LapsedLock

\* The actions that do not touch the users row, seen from it.
Quiet == UNCHANGED <<failed, lockedUntil, guesses>>
Cleared == failed' = 0 /\ lockedUntil' = NoLock /\ guesses' = 0

LEMMA RowChanges ==
    ASSUME [Next]_vars
    PROVE  \/ Quiet \/ Cleared
           \/ \E r \in Slots, d \in BOOLEAN : RecordLoginFailure(r, d)
BY DEF Next, Environment, Step, Tick, Unlock, Arrive, RejectMalformed, Abort, Lookup, Verify,
       TouchUserTiming, SendRecord, LogAccountLocked, ResetLoginFailures, IssueSession,
       ClearLock, Quiet, Cleared, account, vars

LEMMA CountStep == TypeOK /\ CountInv /\ [Next]_vars => CountInv'
<1> SUFFICES ASSUME TypeOK, CountInv, [Next]_vars PROVE CountInv'
  OBVIOUS
<1> USE PolicyAssumption DEF CountInv, LockIffThreshold, NoLostFailure, NoLock
<1>1. CASE Quiet
  BY <1>1 DEF Quiet
<1>2. CASE Cleared
  BY <1>2 DEF Cleared
<1>3. ASSUME NEW r \in Slots, NEW d \in BOOLEAN, RecordLoginFailure(r, d) PROVE CountInv'
  <2>1. stmtNow[r] \in Nat /\ lockedUntil \in Nat /\ failed \in Nat /\ guesses \in Nat
    BY DEF TypeOK
  <2>2. CASE /\ failed' = failed /\ lockedUntil' = lockedUntil /\ lockedUntil > stmtNow[r]
             /\ guesses' = guesses + 1 /\ failed = Threshold /\ guesses >= Threshold
    <3>1. ~(guesses' < Threshold)
      BY <2>1, <2>2
    <3> QED
      BY <2>2, <3>1
  <2>3. CASE guesses' = failed' /\ failed' < Threshold /\ lockedUntil' = NoLock
    <3>1. failed' \in Nat
      BY LoginType DEF TypeOK
    <3> QED
      BY <2>3, <3>1
  <2>4. CASE guesses' = failed' /\ failed' = Threshold /\ lockedUntil' = stmtNow[r] + Window
    <3>1. lockedUntil' # 0
      BY <2>1, <2>4
    <3> QED
      BY <2>4, <3>1
  <2> QED
    BY <1>3, <2>2, <2>3, <2>4, CountCases
<1> QED
  BY <1>1, <1>2, <1>3, RowChanges

-----------------------------------------------------------------------------
(* The work of a call.                                                     *)

ClockInv == \A r \in Slots : pc[r] = "recording" => stmtNow[r] <= clock
WorkInv == ConstantWork /\ \A r \in Slots : WorkSoFar(r)

\* One slot's share of both.
SlotInv(r) ==
    /\ pc[r] = "recording" => stmtNow[r] <= clock
    /\ hashOK /\ reply[r] \in {"200", "401"} => argons[r] = 1 /\ writes[r] = 1
    /\ WorkSoFar(r)

LEMMA SlotStep ==
    ASSUME TypeOK, [Next]_vars, NEW s \in Slots, SlotInv(s) PROVE SlotInv(s)'
<1> USE DEF SlotInv, WorkSoFar, TypeOK, account, request, Goto, Stages, OneMore
<1>1. CASE Tick
  BY <1>1 DEF Tick
<1>2. CASE Unlock
  BY <1>2 DEF Unlock, ClearLock
<1>3. ASSUME NEW r \in Slots, NEW k \in BOOLEAN, NEW p \in BOOLEAN, Arrive(r, k, p)
      PROVE  SlotInv(s)'
  BY <1>3 DEF Arrive
<1>4. ASSUME NEW r \in Slots, RejectMalformed(r) PROVE SlotInv(s)'
  BY <1>4 DEF RejectMalformed
<1>5. ASSUME NEW r \in Slots, Abort(r) PROVE SlotInv(s)'
  BY <1>5 DEF Abort, Finish
<1>6. ASSUME NEW r \in Slots, Lookup(r) PROVE SlotInv(s)'
  BY <1>6 DEF Lookup, Continue
<1>7. ASSUME NEW r \in Slots, Verify(r) PROVE SlotInv(s)'
  BY <1>7 DEF Verify, Continue, Finish
<1>8. ASSUME NEW r \in Slots, TouchUserTiming(r) PROVE SlotInv(s)'
  BY <1>8 DEF TouchUserTiming, Finish
<1>9. ASSUME NEW r \in Slots, SendRecord(r) PROVE SlotInv(s)'
  BY <1>9 DEF SendRecord
<1>10. ASSUME NEW r \in Slots, NEW d \in BOOLEAN, RecordLoginFailure(r, d)
       PROVE  SlotInv(s)'
  BY <1>10 DEF RecordLoginFailure, Continue, Finish
<1>11. ASSUME NEW r \in Slots, LogAccountLocked(r) PROVE SlotInv(s)'
  BY <1>11 DEF LogAccountLocked, Finish
<1>12. ASSUME NEW r \in Slots, NEW d \in BOOLEAN, ResetLoginFailures(r, d)
       PROVE  SlotInv(s)'
  BY <1>12 DEF ResetLoginFailures, ClearLock, Continue, Finish
<1>13. ASSUME NEW r \in Slots, IssueSession(r) PROVE SlotInv(s)'
  BY <1>13 DEF IssueSession, Finish
<1>14. CASE UNCHANGED vars
  BY <1>14 DEF vars
<1> QED
  BY <1>1, <1>2, <1>3, <1>4, <1>5, <1>6, <1>7, <1>8, <1>9, <1>10, <1>11, <1>12, <1>13,
     <1>14 DEF Next, Environment, Step

-----------------------------------------------------------------------------
(* The guess budget.                                                       *)

BudgetInv ==
    lockedUntil # NoLock => guesses + Cardinality(Pending) <= Threshold + Cardinality(Slots) - 1

\* A smaller set of pending calls needs no more of the budget.
LEMMA PendingSize ==
    /\ IsFiniteSet(Pending) /\ Cardinality(Pending) \in Nat /\ Cardinality(Slots) \in Nat
    /\ \A S \in SUBSET Pending : Cardinality(S) \in Nat /\ Cardinality(S) <= Cardinality(Pending)
    /\ \A r \in Pending : Cardinality(Pending \ {r}) = Cardinality(Pending) - 1
    /\ \A r \in Slots : /\ Cardinality(Slots \ {r}) = Cardinality(Slots) - 1
                        /\ IsFiniteSet(Slots \ {r})
<1>1. IsFiniteSet(Pending) /\ Pending \subseteq Slots
  BY SlotsAssumption, FS_Subset DEF Pending
<1>2. Cardinality(Pending) \in Nat /\ Cardinality(Slots) \in Nat
  BY <1>1, SlotsAssumption, FS_CardinalityType
<1>3. \A S \in SUBSET Pending : Cardinality(S) \in Nat /\ Cardinality(S) <= Cardinality(Pending)
  BY <1>1, FS_Subset, FS_CardinalityType
<1>4. \A r \in Pending : Cardinality(Pending \ {r}) = Cardinality(Pending) - 1
  BY <1>1, FS_RemoveElement
<1>5. \A r \in Slots : /\ Cardinality(Slots \ {r}) = Cardinality(Slots) - 1
                       /\ IsFiniteSet(Slots \ {r})
  BY SlotsAssumption, FS_RemoveElement
<1> QED
  BY <1>1, <1>2, <1>3, <1>4, <1>5

\* While the row stays as it is, no call joins the pending ones: the gate is
\* closed to new calls until the lock has lapsed.
LEMMA PendingShrinks ==
    ASSUME TypeOK, ClockInv, [Next]_vars, Quiet, lockedUntil # NoLock,
           NEW s \in Pending'
    PROVE  s \in Pending
<1> USE DEF TypeOK, account, request, Goto, Stages, Pending, Quiet
<1>1. CASE Tick
  BY <1>1 DEF Tick
<1>2. CASE Unlock
  BY <1>2 DEF Unlock
<1>3. ASSUME NEW r \in Slots, NEW k \in BOOLEAN, NEW p \in BOOLEAN, Arrive(r, k, p)
      PROVE  s \in Pending
  BY <1>3 DEF Arrive
<1>4. ASSUME NEW r \in Slots, RejectMalformed(r) PROVE s \in Pending
  BY <1>4 DEF RejectMalformed
<1>5. ASSUME NEW r \in Slots, Abort(r) PROVE s \in Pending
  BY <1>5 DEF Abort, Finish
<1>6. ASSUME NEW r \in Slots, Lookup(r) PROVE s \in Pending
  BY <1>6 DEF Lookup, Continue, GateLocked
<1>7. ASSUME NEW r \in Slots, Verify(r) PROVE s \in Pending
  BY <1>7 DEF Verify, Continue, Finish
<1>8. ASSUME NEW r \in Slots, TouchUserTiming(r) PROVE s \in Pending
  BY <1>8 DEF TouchUserTiming, Finish
<1>9. ASSUME NEW r \in Slots, SendRecord(r) PROVE s \in Pending
  BY <1>9 DEF SendRecord
<1>10. ASSUME NEW r \in Slots, NEW d \in BOOLEAN, RecordLoginFailure(r, d)
       PROVE  s \in Pending
  BY <1>10 DEF RecordLoginFailure, Continue, Finish
<1>11. ASSUME NEW r \in Slots, LogAccountLocked(r) PROVE s \in Pending
  BY <1>11 DEF LogAccountLocked, Finish
<1>12. ASSUME NEW r \in Slots, NEW d \in BOOLEAN, ResetLoginFailures(r, d)
       PROVE  s \in Pending
  BY <1>12 DEF ResetLoginFailures, Continue, Finish
<1>13. ASSUME NEW r \in Slots, IssueSession(r) PROVE s \in Pending
  BY <1>13 DEF IssueSession, Finish
<1>14. CASE UNCHANGED vars
  BY <1>14 DEF vars
<1> QED
  BY <1>1, <1>2, <1>3, <1>4, <1>5, <1>6, <1>7, <1>8, <1>9, <1>10, <1>11, <1>12, <1>13,
     <1>14 DEF Next, Environment, Step

\* The call that records is pending no more, and the others are as before.
LEMMA RecordedNotPending ==
    ASSUME TypeOK, NEW r \in Slots, NEW d \in BOOLEAN, RecordLoginFailure(r, d)
    PROVE  /\ Pending' \subseteq Slots \ {r}
           /\ lockedUntil' = lockedUntil => Pending' \subseteq Pending \ {r}
BY DEF RecordLoginFailure, Continue, Finish, Goto, Pending, TypeOK

LEMMA BudgetStep ==
    ASSUME TypeOK, CountInv, ClockInv, BudgetInv, [Next]_vars PROVE BudgetInv'
<1> USE PolicyAssumption DEF NoLock
<1>1. CASE Quiet
  <2>1. SUFFICES ASSUME lockedUntil # NoLock PROVE BudgetInv'
    BY <1>1 DEF Quiet, BudgetInv
  <2>2. Pending' \subseteq Pending
    BY <1>1, <2>1, PendingShrinks
  <2>3. Cardinality(Pending') \in Nat /\ Cardinality(Pending') <= Cardinality(Pending)
    BY <2>2, PendingSize
  <2> QED
    BY <1>1, <2>1, <2>3, PendingSize DEF Quiet, BudgetInv, TypeOK
<1>2. CASE Cleared
  BY <1>2 DEF Cleared, BudgetInv
<1>3. ASSUME NEW r \in Slots, NEW d \in BOOLEAN, RecordLoginFailure(r, d) PROVE BudgetInv'
  <2>0. stmtNow[r] \in Nat /\ lockedUntil \in Nat /\ failed \in Nat /\ guesses \in Nat
    BY DEF TypeOK
  <2>1. CASE /\ lockedUntil > stmtNow[r] /\ lockedUntil' = lockedUntil
             /\ guesses' = guesses + 1
    <3>1. r \in Pending /\ lockedUntil # 0
      BY <1>3, <2>0, <2>1 DEF Pending, RecordLoginFailure
    <3>2. Pending' \in SUBSET (Pending \ {r})
      BY <1>3, <2>1, RecordedNotPending
    <3>3. IsFiniteSet(Pending \ {r}) /\ Cardinality(Pending \ {r}) = Cardinality(Pending) - 1
      BY <3>1, PendingSize, FS_Subset
    <3>4. Cardinality(Pending') \in Nat /\ Cardinality(Pending') <= Cardinality(Pending \ {r})
      BY <3>2, <3>3, FS_Subset, FS_CardinalityType
    <3> QED
      BY <2>0, <2>1, <3>1, <3>3, <3>4, PendingSize DEF BudgetInv
  <2>2. CASE lockedUntil' = NoLock
    BY <2>2 DEF BudgetInv
  <2>3. CASE guesses' = failed' /\ failed' = Threshold
    <3>1. Pending' \in SUBSET (Slots \ {r})
      BY <1>3, RecordedNotPending
    <3>2. Cardinality(Pending') \in Nat /\ Cardinality(Pending') <= Cardinality(Slots) - 1
      <4>1. /\ IsFiniteSet(Slots \ {r}) /\ Cardinality(Slots \ {r}) = Cardinality(Slots) - 1
        BY PendingSize
      <4>2. Cardinality(Pending') <= Cardinality(Slots \ {r}) /\ IsFiniteSet(Pending')
        BY <3>1, <4>1, FS_Subset
      <4> QED
        BY <4>1, <4>2, FS_CardinalityType
    <3> QED
      BY <2>3, <3>2, PendingSize DEF BudgetInv
  <2> QED
    BY <1>3, <2>1, <2>2, <2>3, CountCases
<1> QED
  BY <1>1, <1>2, <1>3, RowChanges

-----------------------------------------------------------------------------
(* The theorems.                                                           *)

LEMMA LockoutParts ==
    LockoutInv <=> /\ TypeOK /\ CountInv /\ BudgetInv /\ ClockInv /\ WorkInv
                   /\ \A r \in Slots : SlotInv(r)
BY DEF LockoutInv, CountInv, BudgetInv, ClockInv, WorkInv, SlotInv, ConstantWork

LEMMA LockoutStep == LockoutInv /\ [Next]_vars => LockoutInv'
<1> SUFFICES ASSUME LockoutInv, [Next]_vars PROVE LockoutInv'
  OBVIOUS
<1>1. TypeOK /\ CountInv /\ BudgetInv /\ ClockInv /\ \A r \in Slots : SlotInv(r)
  BY LockoutParts
<1>2. TypeOK' /\ CountInv' /\ BudgetInv'
  BY <1>1, LoginType, CountStep, BudgetStep
<1>3. \A r \in Slots : SlotInv(r)'
  BY <1>1, SlotStep
<1> QED
  BY <1>2, <1>3 DEF LockoutInv, CountInv, BudgetInv, SlotInv, ConstantWork

LEMMA LockoutInit == Init => LockoutInv
<1> SUFFICES ASSUME Init PROVE LockoutInv
  OBVIOUS
<1>1. TypeOK
  BY LoginInitType
<1> QED
  BY <1>1, PolicyAssumption DEF Init, LockoutInv, LockIffThreshold, NoLostFailure, ConstantWork,
     WorkSoFar, Stages, NoLock

\* The inductive invariant of the lockout.
THEOREM LockoutInvariant == Spec => []LockoutInv
BY LockoutInit, LockoutStep, PTL DEF Spec

\* No failure recorded by any instance is lost.
THEOREM FailuresAreCounted == Spec => []NoLostFailure
<1>1. LockoutInv => NoLostFailure
  BY DEF LockoutInv
<1> QED
  BY <1>1, LockoutInvariant, PTL

\* No number of concurrent calls buys more than Threshold guesses plus one for
\* each call already past the gate.
THEOREM GuessesAreBounded == Spec => []GuessBudget
<1>1. LockoutInv => GuessBudget
  <2> SUFFICES ASSUME LockoutInv PROVE GuessBudget
    OBVIOUS
  <2>1. guesses \in Nat /\ Cardinality(Pending) \in Nat /\ Cardinality(Slots) \in Nat
    BY PendingSize DEF LockoutInv, TypeOK
  <2>2. CASE lockedUntil = NoLock
    <3>1. failed < Threshold /\ failed = IF guesses < Threshold THEN guesses ELSE Threshold
      BY <2>2, PolicyAssumption DEF LockoutInv, LockIffThreshold, NoLostFailure, TypeOK
    <3> QED
      BY <2>1, <3>1, PolicyAssumption DEF GuessBudget
  <2>3. CASE lockedUntil # NoLock
    BY <2>1, <2>3, PolicyAssumption DEF LockoutInv, GuessBudget
  <2> QED
    BY <2>2, <2>3
<1> QED
  BY <1>1, LockoutInvariant, PTL

\* The answers 401 and 200 cost the same work on every path.
THEOREM WorkIsConstant == Spec => []ConstantWork
<1>1. LockoutInv => ConstantWork
  BY DEF LockoutInv
<1> QED
  BY <1>1, LockoutInvariant, PTL

LEMMA LiveLockStep ==
    ASSUME LockoutInv, [Next]_vars, lockedUntil > clock, lockedUntil' # lockedUntil
    PROVE  lockedUntil' = NoLock /\ failed' = 0
<1>0. TypeOK /\ CountInv /\ ClockInv
  BY LockoutParts
<1>1. ASSUME NEW r \in Slots, NEW d \in BOOLEAN, RecordLoginFailure(r, d) PROVE FALSE
  <2>1. stmtNow[r] <= clock /\ stmtNow[r] \in Nat /\ clock \in Nat /\ lockedUntil \in Nat
    BY <1>0, <1>1 DEF RecordLoginFailure, ClockInv, TypeOK
  <2> QED
    BY <1>0, <1>1, <2>1, CountCases
<1> QED
  BY <1>1, RowChanges DEF Quiet, Cleared

\* A live lock stands until it lapses or is cleared altogether.
THEOREM LiveLocksStand == Spec => LiveLockStands
<1>1. LockoutInv /\ [Next]_vars
        => [lockedUntil > clock /\ lockedUntil' # lockedUntil
               => lockedUntil' = NoLock /\ failed' = 0]_vars
  BY LiveLockStep
<1> QED
  BY <1>1, LockoutInvariant, PTL DEF Spec, LiveLockStands

\* Only its own statement, or its end, takes a call out of "recording".
LEMMA RecordingEnds ==
    ASSUME TypeOK, [Next]_vars, NEW r \in Slots, pc[r] = "recording", pc'[r] # "recording"
    PROVE  Abort(r) \/ \E d \in BOOLEAN : RecordLoginFailure(r, d)
BY DEF Next, Environment, Step, Tick, Unlock, Arrive, RejectMalformed, Abort, Lookup, Verify,
       TouchUserTiming, SendRecord, RecordLoginFailure, LogAccountLocked, ResetLoginFailures,
       IssueSession, Finish, Continue, Goto, TypeOK, vars

LEMMA AnnounceStep ==
    ASSUME LockoutInv, [Next]_vars, NEW r \in Slots,
           pc[r] = "recording", pc'[r] # "recording", reply'[r] # "500"
    PROVE  pc'[r] = "announce" <=> lockedUntil' \notin {NoLock, lockedUntil}
<1> USE PolicyAssumption DEF NoLock
<1>0. TypeOK /\ CountInv /\ stmtNow[r] \in Nat /\ lockedUntil \in Nat
  BY LockoutParts DEF TypeOK
<1>1. PICK d \in BOOLEAN : RecordLoginFailure(r, d)
  BY <1>0, RecordingEnds DEF Abort, Finish, TypeOK
<1>2. pc'[r] = "announce" <=> JustLocked(r, stmtNow[r])
  BY <1>0, <1>1 DEF RecordLoginFailure, Finish, Continue, Goto, TypeOK
<1>3. lockedUntil' = LockAfter(r, stmtNow[r])
  BY <1>1 DEF RecordLoginFailure
<1>4. JustLocked(r, stmtNow[r]) <=> ~(lockedUntil > stmtNow[r]) /\ lockedUntil' # 0
  BY <1>0, <1>3 DEF JustLocked, StillLocked
<1>5. CASE lockedUntil > stmtNow[r] /\ lockedUntil' = lockedUntil
  BY <1>2, <1>4, <1>5
<1>6. CASE lockedUntil <= stmtNow[r] /\ lockedUntil' = 0
  BY <1>2, <1>4, <1>6
<1>7. CASE lockedUntil <= stmtNow[r] /\ lockedUntil' = stmtNow[r] + Window
  BY <1>0, <1>2, <1>4, <1>7
<1> QED
  BY <1>0, <1>1, <1>5, <1>6, <1>7, CountCases

\* account_locked is logged by the call that locked the account, and by no other.
THEOREM TheLockerAnnounces == Spec => AnnouncedByTheLocker
<1>1. LockoutInv /\ [Next]_vars
        => [\A r \in Slots :
               pc[r] = "recording" /\ pc'[r] # "recording" /\ reply'[r] # "500"
                 => (pc'[r] = "announce" <=> lockedUntil' \notin {NoLock, lockedUntil})]_vars
  BY AnnounceStep
<1> QED
  BY <1>1, LockoutInvariant, PTL DEF Spec, AnnouncedByTheLocker
=============================================================================
