---------------------------- MODULE HttpServing ----------------------------
(***************************************************************************)
(* One instance serving requests: the middleware chain of                  *)
(* internal/http/middleware.go around handlers that use the retrying pool, *)
(* under the write timeout of cmd/api/main.go, while the process of        *)
(* GracefulShutdown drains and exits around them.                          *)
(*                                                                         *)
(* net/http (external): the write deadline starts when the request is read *)
(* and does not stop the handler; a response that is finished after it     *)
(* reaches nobody; a handler that wrote nothing sends 200.                 *)
(***************************************************************************)
EXTENDS GracefulShutdown

CONSTANTS
    WriteTimeout,   \* http.Server.WriteTimeout
    CallBudget,     \* totalBudget of one pool call
    HandlerStatuses,   \* what handlers answer with
    MaxCalls        \* bound: pool calls of one handler

ASSUME TimeoutAssumption ==
    /\ {WriteTimeout, CallBudget, MaxCalls} \subseteq Nat
    /\ CallBudget < WriteTimeout
    /\ HandlerStatuses \subseteq Nat \ {0}

VARIABLES
    writeBy,     \* each request: its write deadline while it is served
    callUntil,   \* the end of the budget of its pool call, or Never
    resp,        \* its statusRecorder, and how many bodies were written
    log,         \* the status of its access-log line, 0 before
    got,         \* the status its client received, 0 for none
    calls, inTx, \* history: its pool calls; did it open a transaction
    own          \* history: time outside the pool, up to Slack

serving == <<writeBy, callUntil, resp, log, got, calls, inTx, own>>
allvars == <<vars, serving>>

Statuses == HandlerStatuses \union {200, 500}
Slack == WriteTimeout - CallBudget
NoTime == Never + WriteTimeout + CallBudget

ServingInit ==
    /\ Init
    /\ writeBy = [r \in Requests |-> NoTime] /\ callUntil = [r \in Requests |-> NoTime]
    /\ resp = [r \in Requests |-> [status |-> 0, bodies |-> 0]]
    /\ log = [r \in Requests |-> 0] /\ got = [r \in Requests |-> 0]
    /\ calls = [r \in Requests |-> 0] /\ inTx = [r \in Requests |-> FALSE]
    /\ own = [r \in Requests |-> 0]

-----------------------------------------------------------------------------
(* The middleware chain.                                                   *)

\* statusRecorder: the first WriteHeader counts, every body goes through.
Written(rec, status) ==
    [status |-> IF rec.status = 0 THEN status ELSE rec.status, bodies |-> rec.bodies + 1]

\* accessLogMiddleware, in a defer: the committed status, or what is about to be sent.
AccessLogStatus(rec, panics) ==
    IF rec.status # 0 THEN rec.status ELSE IF panics THEN 500 ELSE 200

\* Mutant: the envelope is written after any panic.
RecoveredAlways(rec, panics) == IF panics THEN Written(rec, 500) ELSE rec

\* recoverMiddleware: the 500 envelope, unless the response has begun.
Recovered(rec, panics) ==
    IF panics /\ rec.status = 0 THEN Written(rec, 500) ELSE rec

\* What net/http puts on the wire.
StatusSent(rec) == IF rec.status = 0 THEN 200 ELSE rec.status

\* The handler is over: access log, recover and net/http finish the response.
Respond(r, rec, panics) ==
    LET final == Recovered(rec, panics) IN
    /\ resp' = [resp EXCEPT ![r] = final]
    /\ log' = [log EXCEPT ![r] = AccessLogStatus(rec, panics)]
    /\ got' = [got EXCEPT ![r] = IF now < writeBy[r] THEN StatusSent(final) ELSE 0]
    /\ writeBy' = [writeBy EXCEPT ![r] = NoTime]

-----------------------------------------------------------------------------
(* The requests.                                                           *)

ServeHTTP(r) ==
    /\ Accept(r)
    /\ writeBy' = [writeBy EXCEPT ![r] = now + WriteTimeout]
    /\ UNCHANGED <<callUntil, resp, log, got, calls, inTx, own>>

\* Exec, QueryRow or Begin of the retrying pool: one budget for the whole call.
PoolCall(r) ==
    /\ calls[r] < MaxCalls /\ resp[r].status = 0
    /\ Call(r)
    /\ callUntil' = [callUntil EXCEPT ![r] = now + CallBudget]
    /\ calls' = [calls EXCEPT ![r] = @ + 1]
    /\ UNCHANGED <<writeBy, resp, log, got, inTx, own>>

\* A closed pool is an error the handler answers at once.
PoolAcquire(r) ==
    /\ Acquire(r)
    /\ IF phase = "closing"
       THEN Respond(r, Written(resp[r], 500), FALSE)
       ELSE UNCHANGED <<writeBy, resp, log, got>>
    /\ callUntil' = [callUntil EXCEPT ![r] = IF phase = "closing" THEN NoTime ELSE @]
    /\ UNCHANGED <<calls, inTx, own>>

\* Mutant: every attempt has the budget to itself.
PoolRetryAfresh(r) ==
    /\ callUntil[r] # NoTime /\ AttemptFails(r)
    /\ callUntil' = [callUntil EXCEPT ![r] = now + CallBudget]
    /\ UNCHANGED <<writeBy, resp, log, got, calls, inTx, own>>

\* A transient error: back to the queue, with what is left of the budget.
PoolRetry(r) ==
    /\ callUntil[r] # NoTime /\ AttemptFails(r)
    /\ UNCHANGED serving

\* Begin has returned: what follows runs on the transaction, under the request's
\* own context, which has no deadline.
InTransaction(r) ==
    /\ Running /\ req[r] = "query" /\ callUntil[r] # NoTime
    /\ callUntil' = [callUntil EXCEPT ![r] = NoTime]
    /\ inTx' = [inTx EXCEPT ![r] = TRUE]
    /\ UNCHANGED <<vars, writeBy, resp, log, got, calls, own>>

\* The call returns, or the transaction ends (also when it panics: the deferred
\* rollback comes before the recover).
PoolReturns(r) ==
    /\ Release(r) \/ GiveUp(r)
    /\ callUntil' = [callUntil EXCEPT ![r] = NoTime]
    /\ UNCHANGED <<writeBy, resp, log, got, calls, inTx, own>>

\* The handler begins its response; it may still fail after that.
WriteResponse(r, status) ==
    /\ Running /\ req[r] = "handler" /\ resp[r].status = 0
    /\ resp' = [resp EXCEPT ![r] = Written(@, status)]
    /\ UNCHANGED <<vars, writeBy, callUntil, log, got, calls, inTx, own>>

\* The handler returns or panics.
HandlerEnds(r, panics) ==
    /\ Answer(r)
    /\ Respond(r, resp[r], panics)
    /\ UNCHANGED <<callUntil, calls, inTx, own>>

ServingTick ==
    /\ \A r \in Requests : req[r] \in {"waiting", "query"} => now < callUntil[r]
    /\ Tick
    /\ own' = [r \in Requests |->
                 IF req[r] = "handler" /\ own[r] < Slack THEN own[r] + 1 ELSE own[r]]
    /\ UNCHANGED <<writeBy, callUntil, resp, log, got, calls, inTx>>

ProcessStep ==
    /\ Signal \/ ListenFails \/ SignalUnheard \/ Drained \/ Exit
    /\ UNCHANGED serving

ServingNext ==
    \/ \E r \in Requests :
          \/ ServeHTTP(r) \/ PoolCall(r) \/ PoolAcquire(r) \/ PoolRetry(r)
          \/ InTransaction(r) \/ PoolReturns(r)
          \/ \E status \in HandlerStatuses : WriteResponse(r, status)
          \/ \E panics \in BOOLEAN : HandlerEnds(r, panics)
    \/ ProcessStep \/ ServingTick

ServingSpec == ServingInit /\ [][ServingNext]_allvars

\* A budget that is spent ends its call; timers fire and time passes.
ServingFairSpec ==
    /\ ServingSpec
    /\ WF_allvars(ProcessStep /\ ~(phase = "serving"))
    /\ WF_allvars(ServingTick)
    /\ \A r \in Requests : WF_allvars(PoolReturns(r) /\ now >= callUntil[r])

-----------------------------------------------------------------------------
(* Properties.                                                             *)

ServingTypeOK ==
    /\ TypeOK
    /\ writeBy \in [Requests -> Nat] /\ callUntil \in [Requests -> Nat]
    /\ resp \in [Requests -> [status : Statuses \union {0}, bodies : Nat]]
    /\ log \in [Requests -> Statuses \union {0}] /\ got \in [Requests -> Statuses \union {0}]
    /\ calls \in [Requests -> 0..MaxCalls] /\ inTx \in [Requests -> BOOLEAN]
    /\ own \in [Requests -> 0..Slack]

\* However a handler ends (it returns, it panics before or after it began to answer,
\* the pool is gone), one response is written, the access log names its status, and the
\* client gets that status or nothing.  A response lost to the write deadline is still logged
\* as it was written; when that may happen is OneCallFits.
LoggedAsSent ==
    \A r \in Requests :
        log[r] # 0 =>
            /\ resp[r].bodies <= 1 /\ log[r] = StatusSent(resp[r])
            /\ got[r] \in {0, log[r]}

\* A response is lost to the write timeout only if the handler made a second pool call,
\* opened a transaction, or took Slack outside the pool: one retried call fits.
OneCallFits ==
    \A r \in Requests :
        log[r] # 0 /\ got[r] = 0 => calls[r] >= 2 \/ inTx[r] \/ own[r] >= Slack
=============================================================================
