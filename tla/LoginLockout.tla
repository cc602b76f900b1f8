---------------------------- MODULE LoginLockout ----------------------------
(***************************************************************************)
(* POST /v1/auth/login (internal/modules/auth/login.go, store.go,          *)
(* lockout.go, sql/auth.sql) and the operator's -unlock command, for one   *)
(* account: the lookup, the lock gate, the argon2 work, the failure        *)
(* counter, the reset on success and the account_locked event.             *)
(*                                                                         *)
(* Each database call is a statement of its own (autocommit), so any       *)
(* number of other calls may run between two of them, and while argon2     *)
(* computes.  RecordLoginFailure locks the row and re-reads it, but its    *)
(* now() is the time the statement STARTED: sending it and its taking      *)
(* effect are two steps.                                                   *)
(***************************************************************************)
EXTENDS Naturals, FiniteSets

CONSTANTS
    Slots,       \* login calls in flight at once, over all instances
    Threshold,   \* lockoutThreshold
    Window,      \* lockoutWindow
    MaxClock     \* bound: the last tick of the database's clock

ASSUME PolicyAssumption == Threshold \in Nat \ {0} /\ Window \in Nat \ {0} /\ MaxClock \in Nat
ASSUME SlotsAssumption == IsFiniteSet(Slots)

VARIABLES
    clock,                 \* the database's clock
    failed, lockedUntil,   \* the users row: failed_attempts, locked_until
    active, hashOK,        \* status = 'active'; password_hash decodes (nothing writes them)
    pc,                    \* where each call is
    known, right,          \* the username has a row; the password is the right one
    seen,                  \* failed_attempts as the lookup returned it
    stmtNow,               \* now() of the RecordLoginFailure being executed
    reply,                 \* the last answer of the slot
    argons, writes,        \* history: argon2 runs and primary-key UPDATEs of the call
    guesses                \* history: failures recorded since the count last restarted

account == <<failed, lockedUntil, active, hashOK>>
request == <<known, right>>
vars == <<clock, account, pc, request, seen, stmtNow, reply, argons, writes, guesses>>

NoLock == 0                \* locked_until IS NULL; every real lock is later
Stages == {"idle", "lookup", "verify", "touch", "record", "recording", "announce",
           "reset", "issue"}

\* Mutant: no gate.
GateOpen == FALSE

\* (A) locked_until > db_now, both read by the lookup statement.
GateLocked == lockedUntil # NoLock /\ lockedUntil > clock

-----------------------------------------------------------------------------
(* The CASE expressions of RecordLoginFailure over the row it has locked.  *)

StillLocked(now) == lockedUntil # NoLock /\ lockedUntil > now
LapsedLock(now) == lockedUntil # NoLock /\ lockedUntil <= now

\* Mutant: the failure is counted from the value the lookup returned.
CountedFromLookup(r, now) ==
    IF StillLocked(now) THEN failed ELSE IF LapsedLock(now) THEN 1 ELSE seen[r] + 1

\* failed_attempts = CASE ...
Counted(r, now) ==
    IF StillLocked(now) THEN failed ELSE IF LapsedLock(now) THEN 1 ELSE failed + 1

\* Mutant: the lock comes one failure late.
LockAfterLate(r, now) ==
    IF StillLocked(now) THEN lockedUntil
    ELSE IF Counted(r, now) > Threshold THEN now + Window ELSE NoLock

\* Mutant: a failure against a locked account starts the window again.
LockAfterRestarting(r, now) ==
    IF StillLocked(now) \/ Counted(r, now) >= Threshold THEN now + Window ELSE NoLock

\* locked_until = CASE ...
LockAfter(r, now) ==
    IF StillLocked(now) THEN lockedUntil
    ELSE IF Counted(r, now) >= Threshold THEN now + Window ELSE NoLock

\* Mutant: just_locked does not look at the old row.
JustLockedWhenLocked(r, now) == LockAfter(r, now) # NoLock

\* just_locked: the old lock was absent or lapsed, the new one is set.
JustLocked(r, now) == ~StillLocked(now) /\ LockAfter(r, now) # NoLock

-----------------------------------------------------------------------------
(* Initial state: a freshly seeded account, idle slots.                    *)

Init ==
    /\ clock = 1
    /\ failed = 0 /\ lockedUntil = NoLock
    /\ active \in BOOLEAN /\ hashOK \in BOOLEAN
    /\ pc = [r \in Slots |-> "idle"]
    /\ known = [r \in Slots |-> FALSE] /\ right = [r \in Slots |-> FALSE]
    /\ seen = [r \in Slots |-> 0] /\ stmtNow = [r \in Slots |-> 0]
    /\ reply = [r \in Slots |-> "none"]
    /\ argons = [r \in Slots |-> 0] /\ writes = [r \in Slots |-> 0]
    /\ guesses = 0

-----------------------------------------------------------------------------
(* Shared parts of the actions.                                            *)

Goto(r, stage) == pc' = [pc EXCEPT ![r] = stage]
OneMore(count, r) == [count EXCEPT ![r] = @ + 1]

\* The call ends: what it held is dropped, its answer and its work are observed.
Finish(r, code) ==
    /\ Goto(r, "idle")
    /\ reply' = [reply EXCEPT ![r] = code]
    /\ known' = [known EXCEPT ![r] = FALSE] /\ right' = [right EXCEPT ![r] = FALSE]
    /\ seen' = [seen EXCEPT ![r] = 0] /\ stmtNow' = [stmtNow EXCEPT ![r] = 0]

Continue(r, stage) == Goto(r, stage) /\ UNCHANGED <<request, seen, stmtNow, reply>>

\* SetUserLock(0, NULL).
ClearLock ==
    /\ failed' = 0 /\ lockedUntil' = NoLock /\ guesses' = 0
    /\ UNCHANGED <<active, hashOK>>

-----------------------------------------------------------------------------
(* The environment.                                                        *)

Tick ==
    /\ clock < MaxClock
    /\ clock' = clock + 1
    /\ UNCHANGED <<account, pc, request, seen, stmtNow, reply, argons, writes, guesses>>

\* go run ./cmd/api -unlock: looks the user up and clears the lock.
Unlock ==
    /\ ClearLock
    /\ UNCHANGED <<clock, pc, request, seen, stmtNow, reply, argons, writes>>

\* A decodable request; the rate limiter is the no-op that always allows.
Arrive(r, k, p) ==
    /\ pc[r] = "idle"
    /\ known' = [known EXCEPT ![r] = k] /\ right' = [right EXCEPT ![r] = p]
    /\ argons' = [argons EXCEPT ![r] = 0] /\ writes' = [writes EXCEPT ![r] = 0]
    /\ reply' = [reply EXCEPT ![r] = "none"]
    /\ Goto(r, "lookup")
    /\ UNCHANGED <<clock, account, seen, stmtNow, guesses>>

\* An oversize, malformed or incomplete body: 400 before anything else.
RejectMalformed(r) ==
    /\ pc[r] = "idle"
    /\ reply' = [reply EXCEPT ![r] = "400"]
    /\ UNCHANGED <<clock, account, pc, request, seen, stmtNow, argons, writes, guesses>>

\* Mutant: a failure is answered with a status the handler does not have.
AbortWith503(r) ==
    /\ pc[r] # "idle"
    /\ Finish(r, "503")
    /\ UNCHANGED <<clock, account, argons, writes, guesses>>

\* A statement fails, the client goes away (its context is cancelled) or the
\* instance dies, before the statement took effect: 500, or nobody to answer.
Abort(r) ==
    /\ pc[r] # "idle"
    /\ Finish(r, "500")
    /\ UNCHANGED <<clock, account, argons, writes, guesses>>

-----------------------------------------------------------------------------
(* verifyCredentials.                                                      *)

\* GetUserByUsername.  No row, or a live lock: DummyVerify, then the touch.
Lookup(r) ==
    /\ pc[r] = "lookup"
    /\ \/ /\ ~known[r] \/ GateLocked
          /\ argons' = OneMore(argons, r)
          /\ Continue(r, "touch")
       \/ /\ known[r] /\ ~GateLocked
          /\ seen' = [seen EXCEPT ![r] = failed]
          /\ Goto(r, "verify")
          /\ UNCHANGED <<request, stmtNow, reply, argons>>
    /\ UNCHANGED <<clock, account, writes, guesses>>

\* Mutant: a disabled user is refused without the equalising UPDATE.
VerifyDisabledFast(r) ==
    /\ pc[r] = "verify"
    /\ argons' = OneMore(argons, r)
    /\ \/ (~hashOK \/ ~active) /\ Finish(r, "401")
       \/ hashOK /\ active /\ ~right[r] /\ Continue(r, "record")
       \/ hashOK /\ active /\ right[r] /\ Continue(r, "reset")
    /\ UNCHANGED <<clock, account, writes, guesses>>

\* (B) one argon2 (Verify; DummyVerify when the stored hash does not decode, which
\* ends the call), (C) the status gate, then by the outcome.
Verify(r) ==
    /\ pc[r] = "verify"
    /\ argons' = OneMore(argons, r)
    /\ \/ ~hashOK /\ Finish(r, "401")
       \/ hashOK /\ ~active /\ Continue(r, "touch")
       \/ hashOK /\ active /\ ~right[r] /\ Continue(r, "record")
       \/ hashOK /\ active /\ right[r] /\ Continue(r, "reset")
    /\ UNCHANGED <<clock, account, writes, guesses>>

\* TouchUserTiming writes updated_at only.
TouchUserTiming(r) ==
    /\ pc[r] = "touch"
    /\ writes' = OneMore(writes, r)
    /\ Finish(r, "401")
    /\ UNCHANGED <<clock, account, argons, guesses>>

\* (D) The statement is sent: its now() is fixed, it may wait for the row.
SendRecord(r) ==
    /\ pc[r] = "record"
    /\ stmtNow' = [stmtNow EXCEPT ![r] = clock]
    /\ Goto(r, "recording")
    /\ UNCHANGED <<clock, account, request, seen, reply, argons, writes, guesses>>

\* It holds the row and commits.  delivered: the result reached the handler, which
\* goes on to log the event or to answer; otherwise it answers 500.
RecordLoginFailure(r, delivered) ==
    /\ pc[r] = "recording"
    /\ failed' = Counted(r, stmtNow[r])
    /\ lockedUntil' = LockAfter(r, stmtNow[r])
    /\ guesses' = IF LapsedLock(stmtNow[r]) THEN 1 ELSE guesses + 1
    /\ writes' = OneMore(writes, r)
    /\ \/ ~delivered /\ Finish(r, "500")
       \/ delivered /\ JustLocked(r, stmtNow[r]) /\ Continue(r, "announce")
       \/ delivered /\ ~JustLocked(r, stmtNow[r]) /\ Finish(r, "401")
    /\ UNCHANGED <<clock, active, hashOK, argons>>

\* logAccountLocked, then the 401.
LogAccountLocked(r) ==
    /\ pc[r] = "announce"
    /\ Finish(r, "401")
    /\ UNCHANGED <<clock, account, argons, writes, guesses>>

\* (E) resetLoginFailures overwrites count and lock, whatever they are by now.
ResetLoginFailures(r, delivered) ==
    /\ pc[r] = "reset"
    /\ ClearLock
    /\ writes' = OneMore(writes, r)
    /\ \/ delivered /\ Continue(r, "issue")
       \/ ~delivered /\ Finish(r, "500")
    /\ UNCHANGED <<clock, argons>>

\* issueSession: the rows it commits are RefreshRotation's PersistSession.
IssueSession(r) ==
    /\ pc[r] = "issue"
    /\ Finish(r, "200")
    /\ UNCHANGED <<clock, account, argons, writes, guesses>>

Step(r) ==
    \/ Lookup(r) \/ Verify(r) \/ TouchUserTiming(r) \/ SendRecord(r)
    \/ \E d \in BOOLEAN : RecordLoginFailure(r, d) \/ ResetLoginFailures(r, d)
    \/ LogAccountLocked(r) \/ IssueSession(r)

Environment ==
    \/ Tick \/ Unlock
    \/ \E r \in Slots :
          \/ \E k, p \in BOOLEAN : Arrive(r, k, p)
          \/ RejectMalformed(r) \/ Abort(r)

Next == Environment \/ \E r \in Slots : Step(r)

Spec == Init /\ [][Next]_vars

-----------------------------------------------------------------------------
(* Properties.                                                             *)

TypeOK ==
    /\ clock \in Nat \ {0}
    /\ failed \in Nat /\ lockedUntil \in Nat /\ guesses \in Nat
    /\ active \in BOOLEAN /\ hashOK \in BOOLEAN
    /\ pc \in [Slots -> Stages]
    /\ known \in [Slots -> BOOLEAN] /\ right \in [Slots -> BOOLEAN]
    /\ seen \in [Slots -> Nat] /\ stmtNow \in [Slots -> Nat]
    /\ reply \in [Slots -> {"none", "200", "400", "401", "500"}]
    /\ argons \in [Slots -> Nat] /\ writes \in [Slots -> Nat]

\* The account carries a lock exactly when Threshold failures were counted, and
\* the count never passes the threshold, whatever calls race past the gate.
LockIffThreshold ==
    /\ failed <= Threshold
    /\ lockedUntil # NoLock <=> failed = Threshold

\* No failure is lost: until it locks, the account has counted every failure
\* recorded since the last reset or lapse, over all instances (D2).
NoLostFailure == failed = IF guesses < Threshold THEN guesses ELSE Threshold

\* However many calls run at once, an account takes at most Threshold wrong guesses
\* plus one for each other call that had passed the gate when the lock came down.
GuessBudget == guesses <= Threshold + Cardinality(Slots) - 1

\* A live lock is never extended, shortened or eaten into by failures that arrive
\* late (MAJOR1): until it lapses it stands, or is cleared altogether.
LiveLockStands ==
    [][lockedUntil > clock /\ lockedUntil' # lockedUntil
          => lockedUntil' = NoLock /\ failed' = 0]_vars

\* Of the calls whose failure was recorded, exactly the one that locked the account
\* goes on to log account_locked: not those that raced it past the threshold, nor
\* one that only found a lapsed lock (MAJOR2).
AnnouncedByTheLocker ==
    [][\A r \in Slots :
          pc[r] = "recording" /\ pc'[r] # "recording" /\ reply'[r] # "500"
              => (pc'[r] = "announce" <=> lockedUntil' \notin {NoLock, lockedUntil})]_vars

\* The answers 401 and 200 cost one argon2 run and one UPDATE each, for an
\* unknown, locked, disabled, wrong-password or successful call alike.
ConstantWork ==
    \A r \in Slots :
        hashOK /\ reply[r] \in {"200", "401"} => argons[r] = 1 /\ writes[r] = 1

\* The calls that may still record a failure against the present lock: they
\* passed the gate before it, or their statement began before it lapsed.
Pending ==
    {r \in Slots : \/ pc[r] \in {"verify", "record"} /\ clock < lockedUntil
                   \/ pc[r] = "recording" /\ stmtNow[r] < lockedUntil}

\* What a call has spent so far follows from where it is.
WorkSoFar(r) ==
    /\ pc[r] \in {"lookup", "verify"} => argons[r] = 0
    /\ pc[r] \in Stages \ {"idle", "lookup", "verify"} => argons[r] = 1
    /\ pc[r] \in Stages \ {"idle", "announce", "issue"} => writes[r] = 0
    /\ pc[r] \in {"announce", "issue"} => writes[r] = 1
    /\ pc[r] # "idle" => reply[r] = "none"

\* The inductive invariant: beside the properties, what a call remembers of the
\* clock is not in the future, and the budget counts the calls still pending.
LockoutInv ==
    /\ TypeOK /\ LockIffThreshold /\ NoLostFailure /\ ConstantWork
    /\ \A r \in Slots : pc[r] = "recording" => stmtNow[r] <= clock
    /\ \A r \in Slots : WorkSoFar(r)
    /\ lockedUntil # NoLock
          => guesses + Cardinality(Pending) <= Threshold + Cardinality(Slots) - 1
=============================================================================
