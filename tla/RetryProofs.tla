---------------------------- MODULE RetryProofs ----------------------------
(***************************************************************************)
(* Proofs about RetryPool, for any finite number of callers, any pool      *)
(* size, cap on attempts, backoff and budget.                              *)
(***************************************************************************)
EXTENDS RetryPool, TLAPS, FiniteSetTheorems

-----------------------------------------------------------------------------
(* Errors.                                                                 *)

\* The two facts the retry loop rests on: what it takes for transient cannot have had
\* an effect, and the end of a context is never transient.
LEMMA TransientHasNoEffect ==
    /\ \A e \in AsleepErrors \union AwakeErrors : e.unclear => ~IsTransientConnError(e)
    /\ ~IsTransientConnError(CtxError)
BY DEF AsleepErrors, AwakeErrors, IsTransientConnError, Refused, Starting, BadLogin, Stale,
       Shutdown, Statement, Broken, CtxError, Error

-----------------------------------------------------------------------------
(* The calls.                                                              *)

\* How far a call is tells how often its statement took effect.
CallInv(c) ==
    /\ pc[c] # "done" => result[c] = "none"
    /\ pc[c] \in {"idle", "acquire", "attempt", "backoff", "tx"} => applied[c] = 0
    /\ pc[c] = "rows" => applied[c] = 1
    /\ pc[c] = "backoff" => attempt[c] < MaxAttempts
    /\ applied[c] <= 1
    /\ result[c] = "ok" => applied[c] = 1
    /\ result[c] = "exhausted" => applied[c] = 0

CallsInv == TypeOK /\ \A c \in Callers : CallInv(c)

RetryInv == CallsInv /\ ConnectionsAccounted

\* No call has begun.
LEMMA CallsInit == Init => CallsInv
BY PoolAssumption DEF Init, CallsInv, TypeOK, CallInv, Places, Ops, Results

\* After an error the loop stops or sleeps; it sleeps only if attempts and time are left.
LEMMA AfterErrorKeeps ==
    ASSUME CallsInv, NEW c \in Callers, NEW e, AfterError(c, e),
           NEW n \in {0, 1}, Effects(c, n), n = 1 => ~IsTransientConnError(e),
           pc[c] \in {"acquire", "attempt"},
           UNCHANGED <<now, op, attempt, deadline, backoff>>,
           inUse' \in Nat, faults' \in 0..MaxFaults
    PROVE  CallsInv'
<1> USE PoolAssumption DEF CallsInv, TypeOK, CallInv, Places, Ops, Results, Effects, Goto
<1>1. CASE ~IsTransientConnError(e) /\ Finish(c, "error") /\ UNCHANGED until
  BY <1>1 DEF Finish
<1>2. CASE IsTransientConnError(e) /\ Finish(c, "exhausted") /\ UNCHANGED until
  BY <1>2 DEF Finish
<1>3. CASE /\ IsTransientConnError(e) /\ attempt[c] < MaxAttempts /\ now < deadline[c]
           /\ Goto(c, "backoff")
           /\ until' = [until EXCEPT ![c] = now + Smaller(backoff[c], deadline[c] - now)]
           /\ UNCHANGED result
  BY <1>3 DEF Smaller
<1> QED
  BY <1>1, <1>2, <1>3 DEF AfterError

-----------------------------------------------------------------------------
(* The connections.                                                        *)

Holding == {"attempt", "rows", "tx"}

\* A step of one call moves one caller in or out of the holders at most.
LEMMA HoldersMove ==
    ASSUME TypeOK, ConnectionsAccounted, NEW c \in Callers, NEW place \in Places, Goto(c, place),
           \/ pc[c] \in Holding /\ place \in Holding /\ inUse' = inUse
           \/ pc[c] \in Holding /\ place \notin Holding /\ inUse' = inUse - 1
           \/ pc[c] \notin Holding /\ place \in Holding /\ inUse' = inUse + 1 /\ inUse < MaxConns
           \/ pc[c] \notin Holding /\ place \notin Holding /\ inUse' = inUse
    PROVE  ConnectionsAccounted' /\ inUse' \in Nat
<1> USE PoolAssumption DEF Holding
<1>1. IsFiniteSet(Holders) /\ inUse = Cardinality(Holders) /\ inUse \in Nat /\ inUse <= MaxConns
  BY CallersAssumption, FS_Subset DEF Holders, ConnectionsAccounted, TypeOK
<1>2. /\ place \in Holding => Holders' = Holders \union {c}
      /\ place \notin Holding => Holders' = Holders \ {c}
      /\ c \in Holders <=> pc[c] \in Holding
  BY DEF Goto, Holders, TypeOK
<1>3. /\ Cardinality(Holders \union {c}) = IF c \in Holders THEN inUse ELSE inUse + 1
      /\ Cardinality(Holders \ {c}) = IF c \in Holders THEN inUse - 1 ELSE inUse
  BY <1>1, FS_AddElement, FS_RemoveElement
<1>4. c \in Holders => inUse >= 1
  BY <1>1, FS_EmptySet
<1> QED
  BY <1>1, <1>2, <1>3, <1>4 DEF ConnectionsAccounted

\* One step of one call.
LEMMA CallStep ==
    ASSUME RetryInv, NEW c \in Callers, Step(c) PROVE RetryInv'
<1> USE PoolAssumption
<1>0. TypeOK /\ ConnectionsAccounted /\ CallsInv
  BY DEF RetryInv, CallsInv
<1>1. ASSUME NEW o \in Ops, Call(c, o) PROVE RetryInv'
  <2>1. ConnectionsAccounted' /\ inUse' \in Nat
    BY <1>0, <1>1, HoldersMove DEF Call, Places, Holding
  <2>2. CallsInv'
    BY <1>0, <1>1, <2>1
       DEF Call, Goto, CallsInv, TypeOK, CallInv, Places, Ops, Results
  <2> QED
    BY <2>1, <2>2 DEF RetryInv
<1>2. CASE Acquire(c)
  <2>1. ConnectionsAccounted' /\ inUse' \in Nat
    BY <1>0, <1>2, HoldersMove DEF Acquire, Places, Holding
  <2>2. CallsInv'
    BY <1>0, <1>2, <2>1 DEF Acquire, Goto, CallsInv, TypeOK, CallInv, Places
  <2> QED
    BY <2>1, <2>2 DEF RetryInv
<1>3. CASE Succeed(c)
  <2>1. PICK place \in {"done", "rows", "tx"} :
          /\ Goto(c, place)
          /\ inUse' = IF place = "done" THEN inUse - 1 ELSE inUse
    BY <1>3 DEF Succeed, Finish
  <2>2. ConnectionsAccounted' /\ inUse' \in Nat
    BY <1>0, <1>3, <2>1, HoldersMove DEF Succeed, Places, Holding
  <2>3. CallsInv'
    BY <1>0, <1>3, <2>2
       DEF Succeed, Finish, Effects, Goto, CallsInv, TypeOK, CallInv, Places, Results
  <2> QED
    BY <2>2, <2>3 DEF RetryInv
<1>4. ASSUME NEW e \in AsleepErrors \union AwakeErrors, NEW effect \in BOOLEAN, Fail(c, e, effect),
             faults' \in 0..MaxFaults
      PROVE  RetryInv'
  <2>1. PICK place \in {"done", "backoff"} : Goto(c, place)
    BY <1>4 DEF Fail, AfterError, Finish
  <2>2. ConnectionsAccounted' /\ inUse' \in Nat
    BY <1>0, <1>4, <2>1, HoldersMove DEF Fail, Places, Holding
  <2>3. PICK n \in {0, 1} : Effects(c, n) /\ (n = 1 => ~IsTransientConnError(e))
    BY <1>4, TransientHasNoEffect DEF Fail
  <2>4. CallsInv'
    BY <1>0, <1>4, <2>2, <2>3, AfterErrorKeeps DEF Fail
  <2> QED
    BY <2>2, <2>4 DEF RetryInv
<1>5. CASE WakeUp(c)
  <2>1. PICK place \in {"done", "acquire"} : Goto(c, place)
    BY <1>5 DEF WakeUp, Finish
  <2>2. ConnectionsAccounted' /\ inUse' \in Nat
    BY <1>0, <1>5, <2>1, HoldersMove DEF WakeUp, Places, Holding
  <2>3. CallsInv'
    BY <1>0, <1>5, <2>2 DEF WakeUp, Finish, Goto, CallsInv, TypeOK, CallInv, Places, Results
  <2> QED
    BY <2>2, <2>3 DEF RetryInv
<1>6. ASSUME CtxDone(c), faults' \in 0..MaxFaults PROVE RetryInv'
  <2>1. CASE pc[c] \in {"acquire", "attempt"}
    <3>1. AfterError(c, CtxError) /\ Goto(c, "done")
      BY <1>6, <2>1, TransientHasNoEffect DEF CtxDone, AfterError, Finish
    <3>2. ConnectionsAccounted' /\ inUse' \in Nat
      BY <1>0, <1>6, <2>1, <3>1, HoldersMove DEF CtxDone, Places, Holding
    <3>3. PICK n \in {0, 1} : Effects(c, n)
      BY <1>0, <1>6, <2>1 DEF CtxDone, Effects, TypeOK
    <3>4. CallsInv'
      BY <1>0, <1>6, <2>1, <3>1, <3>2, <3>3, TransientHasNoEffect, AfterErrorKeeps DEF CtxDone
    <3> QED
      BY <3>2, <3>4 DEF RetryInv
  <2>2. CASE pc[c] = "backoff"
    <3>1. ConnectionsAccounted' /\ inUse' \in Nat
      BY <1>0, <1>6, <2>2, HoldersMove DEF CtxDone, Finish, Places, Holding
    <3>2. CallsInv'
      BY <1>0, <1>6, <2>2, <3>1
         DEF CtxDone, Finish, Goto, CallsInv, TypeOK, CallInv, Places, Results
    <3> QED
      BY <3>1, <3>2 DEF RetryInv
  <2> QED
    BY <1>6, <2>1, <2>2 DEF CtxDone
<1>7. CASE Scan(c)
  <2>1. ConnectionsAccounted' /\ inUse' \in Nat
    BY <1>0, <1>7, HoldersMove DEF Scan, Finish, Places, Holding
  <2>2. CallsInv'
    BY <1>0, <1>7, <2>1 DEF Scan, Finish, Goto, CallsInv, TypeOK, CallInv, Places, Results
  <2> QED
    BY <2>1, <2>2 DEF RetryInv
<1>8. CASE EndTx(c)
  <2>1. ConnectionsAccounted' /\ inUse' \in Nat
    BY <1>0, <1>8, HoldersMove DEF EndTx, Finish, Places, Holding
  <2>2. CallsInv'
    BY <1>0, <1>8, <2>1
       DEF EndTx, Finish, Effects, Goto, CallsInv, TypeOK, CallInv, Places, Results
  <2> QED
    BY <2>1, <2>2 DEF RetryInv
<1>9. faults \in 0..MaxFaults /\ (Fault => faults' \in 0..MaxFaults)
  BY <1>0 DEF TypeOK, Fault
<1>10. CASE FailAsleep(c)
  BY <1>4, <1>9, <1>10 DEF FailAsleep
<1>11. CASE FailAwake(c)
  BY <1>4, <1>9, <1>11 DEF FailAwake
<1>12. CASE Expire(c) \/ Cancel(c)
  BY <1>6, <1>9, <1>12 DEF Expire, Cancel
<1> QED
  BY <1>1, <1>2, <1>3, <1>5, <1>7, <1>8, <1>10, <1>11, <1>12 DEF Step

\* No connection is out.
LEMMA RetryInit == Init => RetryInv
<1> SUFFICES ASSUME Init PROVE RetryInv
  OBVIOUS
<1>1. Holders = {} /\ inUse = 0
  BY DEF Init, Holders
<1>2. ConnectionsAccounted
  BY <1>1, FS_EmptySet, PoolAssumption DEF ConnectionsAccounted
<1> QED
  BY <1>2, CallsInit DEF RetryInv

\* Every step of a caller, of the compute or of the clock keeps the invariant.
LEMMA RetryStep == RetryInv /\ [Next]_vars => RetryInv'
<1> SUFFICES ASSUME RetryInv, [Next]_vars PROVE RetryInv'
  OBVIOUS
<1>1. CASE \E c \in Callers : Step(c)
  BY <1>1, CallStep
<1>2. CASE Tick \/ UNCHANGED vars
  <2>1. /\ UNCHANGED <<faults, inUse, pc, op, attempt, deadline, backoff, until, result, applied>>
        /\ now' = now \/ now' = now + 1
    BY <1>2 DEF Tick, vars
  <2>2. CallsInv'
    BY <2>1 DEF RetryInv, CallsInv, TypeOK, CallInv
  <2>3. ConnectionsAccounted'
    BY <2>1 DEF RetryInv, ConnectionsAccounted, Holders
  <2> QED
    BY <2>2, <2>3 DEF RetryInv
<1> QED
  BY <1>1, <1>2 DEF Next

\* The inductive invariant of the retrying pool.
THEOREM RetryInvariant == Spec => []RetryInv
BY RetryInit, RetryStep, PTL DEF Spec

\* Every variable of the retrying pool keeps its type; no call makes more than maxAttempts.
THEOREM RetryTypeCorrect == Spec => []TypeOK
<1>1. RetryInv => TypeOK
  BY DEF RetryInv, CallsInv
<1> QED
  BY <1>1, RetryInvariant, PTL

\* No retry repeats a statement that took effect, success is never reported without one,
\* and an exhausted call left nothing behind.
THEOREM StatementsApplyOnce == Spec => []AppliedOnce
<1>1. RetryInv => AppliedOnce
  BY DEF RetryInv, CallsInv, CallInv, AppliedOnce
<1> QED
  BY <1>1, RetryInvariant, PTL

\* The connections that are out are those of the callers that will release them, and at
\* most cfg.MaxConns.
THEOREM ConnectionsComeBack == Spec => []ConnectionsAccounted
<1>1. RetryInv => ConnectionsAccounted
  BY DEF RetryInv
<1> QED
  BY <1>1, RetryInvariant, PTL
=============================================================================
