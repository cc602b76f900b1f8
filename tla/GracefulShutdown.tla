--------------------------- MODULE GracefulShutdown ---------------------------
(***************************************************************************)
(* How the API process ends (cmd/api/main.go: run, gracefulShutdown,       *)
(* closePoolWithGrace): on SIGTERM it drains HTTP requests for at most     *)
(* DrainBudget, then closes the pool for at most CloseBudget, and exits;   *)
(* when ListenAndServe fails it closes the pool for at most ErrorGrace.    *)
(* The platform kills it Grace after the signal.                           *)
(*                                                                         *)
(* http.Server.Shutdown and pgxpool (external): Shutdown refuses new       *)
(* requests and returns when none is active or its context ends;           *)
(* Pool.Close refuses further acquires and returns when every connection   *)
(* is back.                                                                *)
(***************************************************************************)
EXTENDS Naturals

CONSTANTS
    Requests,
    DrainBudget, CloseBudget, ErrorGrace,   \* httpDrainBudget, poolCloseBudget,
    Grace,                                  \* errorPathPoolCloseGrace, cloudRunGracePeriod
    MaxClock     \* bound: the last tick at which shutdown may begin

\* main.go and TestShutdownBudgetFitsGracePeriod ask for drain + close <= grace, and of the
\* error path's grace nothing.  At equality the last timer races SIGKILL, so more is assumed;
\* the constants have it (5 s + 2 s and 5 s, within 10 s).
ASSUME BudgetAssumption ==
    /\ {DrainBudget, CloseBudget, ErrorGrace, Grace, MaxClock} \subseteq Nat
    /\ DrainBudget + CloseBudget < Grace /\ ErrorGrace < Grace

VARIABLES
    now,
    phase,       \* where run is
    deadline,    \* of the wait it is in
    killAt,      \* Never, or Grace after SIGTERM
    drainUntil,  \* Never, or the end of the drain budget
    req          \* the requests

vars == <<now, phase, deadline, killAt, drainUntil, req>>

Never == MaxClock + 2 * (DrainBudget + CloseBudget + ErrorGrace + Grace) + 1
Running == phase \in {"serving", "draining", "closing"}
InQuery == {r \in Requests : req[r] = "query"}
Active == {r \in Requests : req[r] \in {"handler", "waiting", "query"}}

Init ==
    /\ now = 0 /\ phase = "serving"
    /\ deadline = Never /\ killAt = Never /\ drainUntil = Never
    /\ req = [r \in Requests |-> "none"]

-----------------------------------------------------------------------------
(* The requests.                                                           *)

Become(r, state) ==
    req' = [req EXCEPT ![r] = state] /\ UNCHANGED <<now, phase, deadline, killAt, drainUntil>>

Accept(r) == phase = "serving" /\ req[r] = "none" /\ Become(r, "handler")

\* A call of the pool; "waiting" has no connection: it queues for one or backs off.
Call(r) == Running /\ req[r] = "handler" /\ Become(r, "waiting")

\* A connection, or the error of a closed pool, answered with a 500.
Acquire(r) ==
    /\ Running /\ req[r] = "waiting"
    /\ Become(r, IF phase = "closing" THEN "failed" ELSE "query")

\* The attempt fails before its statement was sent and is tried again, or the call
\* gives up without a connection.
AttemptFails(r) == Running /\ req[r] = "query" /\ Become(r, "waiting")
GiveUp(r) == Running /\ req[r] = "waiting" /\ Become(r, "handler")

Release(r) == Running /\ req[r] = "query" /\ Become(r, "handler")

Answer(r) == Running /\ req[r] = "handler" /\ Become(r, "answered")

-----------------------------------------------------------------------------
(* The process.                                                            *)

\* Mutant: the close may take the whole grace period, as if nothing came before it.
ClosePoolWholeGrace(grace) == phase' = "closing" /\ deadline' = now + Grace

\* closePoolWithGrace: Close in a goroutine of its own, and a timer.
ClosePoolWithGrace(grace) == phase' = "closing" /\ deadline' = now + grace

\* Mutant: the requests go on without the process.
EndKeepingRequests ==
    phase' = "exited" /\ UNCHANGED <<now, deadline, killAt, drainUntil, req>>

\* The process ends, and what it still served with it.
End ==
    /\ phase' = "exited"
    /\ req' = [r \in Requests |-> IF r \in Active THEN "cut" ELSE req[r]]
    /\ UNCHANGED <<now, deadline, killAt, drainUntil>>

\* SIGTERM: run leaves its select, gracefulShutdown begins to drain.
Signal ==
    /\ phase = "serving" /\ now <= MaxClock
    /\ phase' = "draining"
    /\ deadline' = now + DrainBudget /\ drainUntil' = now + DrainBudget
    /\ killAt' = now + Grace
    /\ UNCHANGED <<now, req>>

\* ListenAndServe fails: straight to the pool.
ListenFails ==
    /\ phase = "serving" /\ now <= MaxClock
    /\ ClosePoolWithGrace(ErrorGrace)
    /\ UNCHANGED <<now, killAt, drainUntil, req>>

\* SIGTERM during that close: nothing listens to it any more.
SignalUnheard ==
    /\ phase = "closing" /\ killAt = Never
    /\ killAt' = now + Grace
    /\ UNCHANGED <<now, phase, deadline, drainUntil, req>>

\* Mutant: Shutdown is started and not waited for.
DrainedAtOnce ==
    /\ phase = "draining"
    /\ ClosePoolWithGrace(CloseBudget)
    /\ UNCHANGED <<now, killAt, drainUntil, req>>

\* srv.Shutdown returns, with every request answered or its context at an end; its
\* error is kept for the exit, the pool is closed either way.
Drained ==
    /\ phase = "draining"
    /\ Active = {} \/ now >= deadline
    /\ ClosePoolWithGrace(CloseBudget)
    /\ UNCHANGED <<now, killAt, drainUntil, req>>

\* Mutant: a plain pool.Close(), with no timer beside it.
ExitWhenClosed == phase = "closing" /\ InQuery = {} /\ End

\* Close returns because all connections are back, or the timer fires.
Exit == phase = "closing" /\ (InQuery = {} \/ now >= deadline) /\ End

\* Time passes; a timer that is due fires first.
Tick ==
    /\ Running /\ now < deadline
    /\ phase = "serving" => now < MaxClock
    /\ now' = now + 1
    /\ UNCHANGED <<phase, deadline, killAt, drainUntil, req>>

Next ==
    \/ \E r \in Requests :
          \/ Accept(r) \/ Call(r) \/ Acquire(r) \/ AttemptFails(r)
          \/ GiveUp(r) \/ Release(r) \/ Answer(r)
    \/ Signal \/ ListenFails \/ SignalUnheard \/ Drained \/ Exit \/ Tick

Spec == Init /\ [][Next]_vars

-----------------------------------------------------------------------------
(* Properties.                                                             *)

TypeOK ==
    /\ now \in Nat
    /\ phase \in {"serving", "draining", "closing", "exited"}
    /\ {deadline, killAt, drainUntil} \subseteq 0..Never
    /\ req \in [Requests -> {"none", "handler", "waiting", "query",
                            "answered", "failed", "cut"}]
    /\ ~Running => Active = {}

\* The process is gone before the platform kills it, whatever requests and connections
\* hang, and also when the signal comes in the middle of the error path's close.
NeverKilled == Running => now < killAt

\* After SIGTERM the whole drain budget belongs to the requests: none is cut off, or
\* refused by a pool that is already closed, before it is spent (FR9/E6).
DrainBeforeClose ==
    drainUntil # Never
        => \A r \in Requests : req[r] \in {"failed", "cut"} => now >= drainUntil

\* Once shutdown has begun, the process ends by itself.
ShutdownEnds == phase \in {"draining", "closing"} ~> phase = "exited"
=============================================================================
