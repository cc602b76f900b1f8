----------------------------- MODULE RetryPool -----------------------------
(***************************************************************************)
(* The runtime database pool (internal/platform/db/retry.go, pool.go):     *)
(* Exec, Query, QueryRow and Begin run one attempt after another, at most  *)
(* MaxAttempts, with a doubling backoff, inside one Budget of time, and    *)
(* only after errors that come before the statement was sent.  Every       *)
(* attempt takes one of MaxConns connections.                              *)
(*                                                                         *)
(* PostgreSQL and pgx (external): the compute answers from WakeAt on; what *)
(* a failed attempt reports, and whether its statement took effect, are    *)
(* the environment's choice (Errors).                                      *)
(***************************************************************************)
EXTENDS Naturals, FiniteSets

CONSTANTS
    Callers,      \* goroutines with one call each
    MaxConns,     \* cfg.MaxConns
    MaxAttempts, Base, Budget,   \* maxAttempts, baseBackoff, totalBudget
    WakeAt,       \* when the sleeping compute accepts connections again
    MaxStart,     \* bound: no call starts later
    MaxFaults     \* bound: errors of a compute that is awake, and cancelled callers

ASSUME PoolAssumption ==
    /\ MaxConns \in Nat \ {0} /\ MaxAttempts \in Nat \ {0}
    /\ Base \in Nat \ {0} /\ Budget \in Nat \ {0}
    /\ WakeAt \in Nat /\ MaxStart \in Nat /\ MaxFaults \in Nat
ASSUME CallersAssumption == IsFiniteSet(Callers)

VARIABLES
    now, faults,
    inUse,        \* connections acquired from the pool and not released
    pc, op,       \* each caller: where it is, which method it called
    attempt, deadline, backoff, until,   \* the locals of retry and sleepWithBudget
    result,
    applied       \* history: how often its statement took effect

vars == <<now, faults, inUse, pc, op, attempt, deadline, backoff, until, result, applied>>

Ops == {"exec", "query", "begin"}
Places == {"idle", "acquire", "attempt", "backoff", "rows", "tx", "done"}
Results == {"none", "ok", "rolledback", "error", "exhausted"}

\* The errors of an attempt, by what errors.As and errors.Is find in them: the class
\* of its PgError, a context error, a ConnectError, SafeToRetry.  "sent": the server
\* had the statement; "unclear": it may have taken effect.
Error(pg, ctx, connect, safe, sent, unclear) ==
    [pg |-> pg, ctx |-> ctx, connect |-> connect, safe |-> safe,
     sent |-> sent, unclear |-> unclear]

Refused   == Error("none", FALSE, TRUE, FALSE, FALSE, FALSE)       \* dial refused or reset
Starting  == Error("retryable", FALSE, TRUE, FALSE, FALSE, FALSE)  \* 57P03 while connecting
BadLogin  == Error("other", FALSE, TRUE, FALSE, FALSE, FALSE)      \* 28P01 while connecting
Stale     == Error("none", FALSE, FALSE, TRUE, FALSE, FALSE)       \* closed before use
Shutdown  == Error("retryable", FALSE, FALSE, FALSE, TRUE, FALSE)  \* 57P01: statement aborted
Statement == Error("other", FALSE, FALSE, FALSE, TRUE, FALSE)      \* constraint, syntax
Broken    == Error("none", FALSE, FALSE, FALSE, TRUE, TRUE)        \* reset after the send
CtxError  == Error("none", TRUE, FALSE, FALSE, TRUE, TRUE)         \* deadline or cancelled

AsleepErrors == {Refused, Starting}
AwakeErrors == {BadLogin, Stale, Shutdown, Statement, Broken}

\* Mutant: any network error is taken for one before the send.
TransientByNetwork(e) == e.pg = "retryable" \/ (e.pg = "none" /\ ~e.ctx)

\* isTransientConnError: the PgError decides alone if there is one.
IsTransientConnError(e) ==
    IF e.pg # "none" THEN e.pg = "retryable" ELSE ~e.ctx /\ (e.connect \/ e.safe)

Smaller(a, b) == IF a < b THEN a ELSE b

-----------------------------------------------------------------------------

Init ==
    /\ now = 0 /\ faults = 0 /\ inUse = 0
    /\ pc = [c \in Callers |-> "idle"] /\ op = [c \in Callers |-> "exec"]
    /\ attempt = [c \in Callers |-> 0] /\ deadline = [c \in Callers |-> 0]
    /\ backoff = [c \in Callers |-> Base] /\ until = [c \in Callers |-> 0]
    /\ result = [c \in Callers |-> "none"] /\ applied = [c \in Callers |-> 0]

Goto(c, place) == pc' = [pc EXCEPT ![c] = place]
Finish(c, res) == Goto(c, "done") /\ result' = [result EXCEPT ![c] = res]
Effects(c, n) == applied' = [applied EXCEPT ![c] = @ + n]
Fault == faults < MaxFaults /\ faults' = faults + 1

\* context.WithTimeout(ctx, totalBudget), then the first attempt.
Call(c, o) ==
    /\ pc[c] = "idle" /\ now <= MaxStart
    /\ deadline' = [deadline EXCEPT ![c] = now + Budget]
    /\ attempt' = [attempt EXCEPT ![c] = 1]
    /\ op' = [op EXCEPT ![c] = o]
    /\ Goto(c, "acquire")
    /\ UNCHANGED <<now, faults, inUse, backoff, until, result, applied>>

\* pgxpool: an idle connection or a place to dial one.
Acquire(c) ==
    /\ pc[c] = "acquire" /\ inUse < MaxConns
    /\ inUse' = inUse + 1
    /\ Goto(c, "attempt")
    /\ UNCHANGED <<now, faults, op, attempt, deadline, backoff, until, result, applied>>

\* fn returns nil.  Exec is over; Query keeps its connection for the rows, Begin for
\* the transaction.
Succeed(c) ==
    /\ pc[c] = "attempt" /\ now >= WakeAt
    /\ \/ op[c] = "exec" /\ Finish(c, "ok") /\ Effects(c, 1) /\ inUse' = inUse - 1
       \/ op[c] = "query" /\ Goto(c, "rows") /\ Effects(c, 1) /\ UNCHANGED <<result, inUse>>
       \/ op[c] = "begin" /\ Goto(c, "tx") /\ UNCHANGED <<result, inUse, applied>>
    /\ UNCHANGED <<now, faults, op, attempt, deadline, backoff, until>>

\* Mutant: no cap on the attempts, one every baseBackoff while the budget lasts.
AfterErrorUncapped(c, e) ==
    \/ ~IsTransientConnError(e) /\ Finish(c, "error") /\ UNCHANGED until
    \/ IsTransientConnError(e) /\ now >= deadline[c] /\ Finish(c, "exhausted") /\ UNCHANGED until
    \/ /\ IsTransientConnError(e) /\ now < deadline[c]
       /\ Goto(c, "backoff")
       /\ until' = [until EXCEPT ![c] = now + Base]
       /\ UNCHANGED result

\* The loop of retry after an error: surface it, give up, or sleep no longer than
\* the budget lasts.
AfterError(c, e) ==
    \/ ~IsTransientConnError(e) /\ Finish(c, "error") /\ UNCHANGED until
    \/ /\ IsTransientConnError(e)
       /\ attempt[c] = MaxAttempts \/ now >= deadline[c]
       /\ Finish(c, "exhausted") /\ UNCHANGED until
    \/ /\ IsTransientConnError(e) /\ attempt[c] < MaxAttempts /\ now < deadline[c]
       /\ Goto(c, "backoff")
       /\ until' = [until EXCEPT ![c] = now + Smaller(backoff[c], deadline[c] - now)]
       /\ UNCHANGED result

\* Mutant: a failed attempt keeps its connection.
FailLeaking(c, e, effect) ==
    /\ pc[c] = "attempt"
    /\ AfterError(c, e) /\ Effects(c, IF effect THEN 1 ELSE 0)
    /\ UNCHANGED <<now, inUse, op, attempt, deadline, backoff>>

\* fn returns an error; the connection goes back to the pool or is destroyed.
Fail(c, e, effect) ==
    /\ pc[c] = "attempt"
    /\ effect => e.unclear /\ op[c] # "begin"
    /\ AfterError(c, e) /\ Effects(c, IF effect THEN 1 ELSE 0)
    /\ inUse' = inUse - 1
    /\ UNCHANGED <<now, op, attempt, deadline, backoff>>

FailAsleep(c) ==
    /\ now < WakeAt /\ UNCHANGED faults
    /\ \E e \in AsleepErrors : Fail(c, e, FALSE)

FailAwake(c) ==
    /\ now >= WakeAt /\ Fault
    /\ \E e \in AwakeErrors, effect \in BOOLEAN : Fail(c, e, effect)

\* The timer of sleepWithBudget: another attempt only if time is left.
WakeUp(c) ==
    /\ pc[c] = "backoff" /\ now >= until[c]
    /\ \/ /\ now < deadline[c]
          /\ Goto(c, "acquire") /\ attempt' = [attempt EXCEPT ![c] = @ + 1]
          /\ backoff' = [backoff EXCEPT ![c] = 2 * @] /\ UNCHANGED result
       \/ /\ now >= deadline[c]
          /\ Finish(c, "exhausted") /\ UNCHANGED <<attempt, backoff>>
    /\ UNCHANGED <<now, faults, inUse, op, deadline, until, applied>>

\* The derived context is done: it ends the wait for a connection, the attempt (whose
\* statement may have been sent) or the sleep.
CtxDone(c) ==
    /\ \/ pc[c] = "acquire" /\ AfterError(c, CtxError) /\ UNCHANGED <<inUse, applied>>
       \/ /\ pc[c] = "attempt" /\ AfterError(c, CtxError) /\ inUse' = inUse - 1
          /\ \E n \in {0, 1} : (n = 1 => now >= WakeAt /\ op[c] # "begin") /\ Effects(c, n)
       \/ pc[c] = "backoff" /\ Finish(c, "exhausted") /\ UNCHANGED <<inUse, applied, until>>
    /\ UNCHANGED <<now, op, attempt, deadline, backoff>>

\* Mutant: the budget does not reach the attempt itself.
ExpireSleepOnly(c) ==
    pc[c] = "backoff" /\ now >= deadline[c] /\ CtxDone(c) /\ UNCHANGED faults

\* totalBudget is over.
Expire(c) ==
    pc[c] \in {"acquire", "attempt", "backoff"} /\ now >= deadline[c] /\ CtxDone(c)
        /\ UNCHANGED faults

\* The caller's own context is cancelled (client gone, shutdown).
Cancel(c) == Fault /\ CtxDone(c)

\* retryRow.Scan: reads what has arrived and closes the rows.  The context of the
\* query ended when retry returned, so rows still on the way are an error.
Scan(c) ==
    /\ pc[c] = "rows"
    /\ inUse' = inUse - 1
    /\ Finish(c, "ok") \/ Finish(c, "error")
    /\ UNCHANGED <<now, faults, op, attempt, deadline, backoff, until, applied>>

\* The caller of Begin commits or rolls back.
EndTx(c) ==
    /\ pc[c] = "tx"
    /\ inUse' = inUse - 1
    /\ \/ Finish(c, "ok") /\ Effects(c, 1)
       \/ Finish(c, "rolledback") /\ Effects(c, 0)
    /\ UNCHANGED <<now, faults, op, attempt, deadline, backoff, until>>

\* Time passes; timers that are due go first.
Tick ==
    /\ \A c \in Callers : pc[c] \in {"acquire", "attempt", "backoff"} => now < deadline[c]
    /\ \A c \in Callers : pc[c] = "backoff" => now < until[c]
    /\ now < MaxStart + Budget
    /\ now' = now + 1
    /\ UNCHANGED <<faults, inUse, pc, op, attempt, deadline, backoff, until, result, applied>>

Step(c) ==
    \/ \E o \in Ops : Call(c, o)
    \/ Acquire(c) \/ Succeed(c) \/ FailAsleep(c) \/ FailAwake(c)
    \/ WakeUp(c) \/ Expire(c) \/ Cancel(c) \/ Scan(c) \/ EndTx(c)

Next == Tick \/ \E c \in Callers : Step(c)

Spec == Init /\ [][Next]_vars

\* Timers fire, callers use up what they were given; a dial or a statement may hang
\* for as long as its context lives.
Fairness ==
    /\ WF_vars(Tick)
    /\ \A c \in Callers :
          WF_vars(WakeUp(c)) /\ WF_vars(Expire(c)) /\ WF_vars(Scan(c) \/ EndTx(c))

FairSpec == Spec /\ Fairness

-----------------------------------------------------------------------------
(* Properties.                                                             *)

TypeOK ==
    /\ now \in Nat /\ faults \in 0..MaxFaults /\ inUse \in Nat
    /\ pc \in [Callers -> Places] /\ op \in [Callers -> Ops]
    /\ attempt \in [Callers -> 0..MaxAttempts]
    /\ deadline \in [Callers -> Nat] /\ backoff \in [Callers -> Nat]
    /\ until \in [Callers -> Nat]
    /\ result \in [Callers -> Results] /\ applied \in [Callers -> Nat]

Holders == {c \in Callers : pc[c] \in {"attempt", "rows", "tx"}}

\* Retrying never applies a statement twice, never reports success for one that had no
\* effect, and gives up or goes on trying only when no attempt had any: the caller of an
\* exhausted call may start over.
AppliedOnce ==
    \A c \in Callers :
        /\ applied[c] <= 1
        /\ result[c] = "ok" => applied[c] = 1
        /\ pc[c] = "backoff" \/ result[c] = "exhausted" => applied[c] = 0

\* Every connection out of the pool is with a caller that will release it: a failed,
\* cancelled or sleeping call holds none, and no more than MaxConns are out.
ConnectionsAccounted == inUse = Cardinality(Holders) /\ inUse <= MaxConns

\* Every call ends, also while the compute stays asleep, dials hang, and more callers
\* than connections wait for each other.
EveryCallEnds == \A c \in Callers : pc[c] = "acquire" ~> pc[c] = "done"
=============================================================================
