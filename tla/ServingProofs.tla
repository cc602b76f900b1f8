--------------------------- MODULE ServingProofs ---------------------------
(***************************************************************************)
(* Proofs about GracefulShutdown and HttpServing, for every number of      *)
(* requests and every choice of the budgets that BudgetAssumption and      *)
(* TimeoutAssumption admit.                                                *)
(***************************************************************************)
EXTENDS HttpServing, TLAPS

-----------------------------------------------------------------------------
(* The clocks of the process: which timer run waits for, by phase, and how *)
(* far it is from the platform's deadline.                                 *)

DrainClock ==
    /\ now <= deadline /\ deadline <= MaxClock + DrainBudget
    /\ killAt + DrainBudget = deadline + Grace
    /\ drainUntil = deadline

\* Either SIGTERM has come and its drain is over, or the listener failed; the latter may
\* hear of SIGTERM only through killAt.
CloseClock ==
    /\ now <= deadline /\ deadline < killAt
    /\ deadline <= MaxClock + DrainBudget + CloseBudget + ErrorGrace
    /\ killAt = Never => deadline <= now + ErrorGrace

ClockInv ==
    /\ phase = "serving" =>
          now <= MaxClock /\ deadline = Never /\ killAt = Never /\ drainUntil = Never
    /\ phase = "draining" => DrainClock
    /\ phase = "closing" => CloseClock

\* Until the pool is closed nothing fails; afterwards only what outlasted the drain budget.
RequestInv ==
    /\ phase \in {"serving", "draining"} => \A r \in Requests : req[r] \notin {"failed", "cut"}
    /\ phase \in {"closing", "exited"} /\ drainUntil # Never => Active = {} \/ now >= drainUntil

ShutdownInv == TypeOK /\ ClockInv /\ RequestInv /\ DrainBeforeClose

\* A process that starts is in order.
LEMMA ShutdownInit == Init => ShutdownInv
BY BudgetAssumption
   DEF Init, ShutdownInv, TypeOK, ClockInv, RequestInv, DrainBeforeClose, Never, Running, Active

\* The steps of the requests, as the process sees them.
RequestStep(r) ==
    \/ Accept(r) \/ Call(r) \/ Acquire(r) \/ AttemptFails(r)
    \/ GiveUp(r) \/ Release(r) \/ Answer(r)

\* No request moves a timer of the process, and none fails before the pool is closing.
LEMMA RequestKeeps ==
    ASSUME ShutdownInv, NEW r \in Requests, RequestStep(r) PROVE ShutdownInv'
<1> USE DEF ShutdownInv, Become
<1>1. UNCHANGED <<now, phase, deadline, killAt, drainUntil>> /\ Running
  BY DEF RequestStep, Accept, Call, Acquire, AttemptFails, GiveUp, Release, Answer, Running
<1>2. PICK s \in {"handler", "waiting", "query", "answered", "failed"} :
         /\ req' = [req EXCEPT ![r] = s]
         /\ s = "failed" => phase = "closing" /\ r \in Active
         /\ phase # "serving" => r \in Active
  BY DEF RequestStep, Accept, Call, Acquire, AttemptFails, GiveUp, Release, Answer, Active, TypeOK
<1>3. TypeOK' /\ ClockInv'
  BY <1>1, <1>2 DEF TypeOK, ClockInv, DrainClock, CloseClock, Running, Never
<1>4. RequestInv' /\ DrainBeforeClose'
  <2>1. CASE phase \in {"serving", "draining"}
    BY <1>1, <1>2, <2>1 DEF RequestInv, DrainBeforeClose, TypeOK, Never
  <2>2. CASE phase = "closing"
    <3>1. drainUntil # Never => now >= drainUntil
      BY <1>2, <2>2 DEF RequestInv
    <3> QED
      BY <1>1, <2>2, <3>1 DEF RequestInv, DrainBeforeClose, Never
  <2> QED
    BY <1>1, <2>1, <2>2 DEF Running
<1> QED
  BY <1>3, <1>4

\* The steps of run, of its two budgets and of the platform.
LEMMA ProcessKeeps ==
    ASSUME ShutdownInv, Signal \/ ListenFails \/ SignalUnheard \/ Drained \/ Exit \/ Tick
    PROVE  ShutdownInv'
<1> USE BudgetAssumption
    DEF ShutdownInv, TypeOK, ClockInv, RequestInv, DrainBeforeClose, Never, Running, Active
<1>1. CASE Signal
  BY <1>1 DEF Signal, DrainClock
<1>2. CASE ListenFails
  BY <1>2 DEF ListenFails, ClosePoolWithGrace, CloseClock
<1>3. CASE SignalUnheard
  BY <1>3 DEF SignalUnheard, CloseClock
<1>4. CASE Drained
  BY <1>4 DEF Drained, ClosePoolWithGrace, DrainClock, CloseClock
<1>5. CASE Exit
  BY <1>5 DEF Exit, End, CloseClock, InQuery
<1>6. CASE Tick
  BY <1>6 DEF Tick, DrainClock, CloseClock
<1> QED
  BY <1>1, <1>2, <1>3, <1>4, <1>5, <1>6

\* Every step of the life cycle keeps the invariant.
LEMMA ShutdownStep == ShutdownInv /\ [Next]_vars => ShutdownInv'
<1> SUFFICES ASSUME ShutdownInv, [Next]_vars PROVE ShutdownInv'
  OBVIOUS
<1>1. CASE \E r \in Requests : RequestStep(r)
  BY <1>1, RequestKeeps
<1>2. CASE Signal \/ ListenFails \/ SignalUnheard \/ Drained \/ Exit \/ Tick
  BY <1>2, ProcessKeeps
<1>3. CASE UNCHANGED vars
  BY <1>3 DEF vars, ShutdownInv, TypeOK, ClockInv, DrainClock, CloseClock, RequestInv,
              DrainBeforeClose, Never, Running, Active
<1> QED
  BY <1>1, <1>2, <1>3 DEF Next, RequestStep

\* The timers of run and what they mean for the requests, always.
THEOREM ShutdownInvariant == Spec => []ShutdownInv
BY ShutdownInit, ShutdownStep, PTL DEF Spec

\* While the process runs, the timer it waits for comes before SIGKILL.
LEMMA ClockBeatsKill == ShutdownInv => NeverKilled
BY BudgetAssumption
   DEF ShutdownInv, TypeOK, ClockInv, DrainClock, CloseClock, NeverKilled, Running, Never

-----------------------------------------------------------------------------
(* Serving requests is one of the behaviours of the process.               *)

\* Each step around a response is a step of the life cycle, or none.
LEMMA ServingMoves == ServingNext => [Next]_vars
BY DEF ServingNext, ServeHTTP, PoolCall, PoolAcquire, PoolRetry, InTransaction, PoolReturns,
       WriteResponse, HandlerEnds, ProcessStep, ServingTick, Next

\* Middleware, pool calls, panics and the write timeout add nothing to what the requests
\* of GracefulShutdown may do: the detailed process implements the plain one.
THEOREM ServingImplementsShutdown == ServingSpec => Spec
<1>1. ServingInit => Init
  BY DEF ServingInit
<1>2. [ServingNext]_allvars => [Next]_vars
  BY ServingMoves DEF allvars
<1> QED
  BY <1>1, <1>2, PTL DEF ServingSpec, Spec

\* The process is gone before SIGKILL, whatever its requests and connections do.
THEOREM ExitsBeforeKill == ServingSpec => []NeverKilled
BY ServingImplementsShutdown, ShutdownInvariant, ClockBeatsKill, PTL

\* After SIGTERM no request fails or is cut before the drain budget is spent.
THEOREM DrainComesFirst == ServingSpec => []DrainBeforeClose
<1>1. ShutdownInv => DrainBeforeClose
  BY DEF ShutdownInv
<1> QED
  BY <1>1, ServingImplementsShutdown, ShutdownInvariant, PTL

-----------------------------------------------------------------------------
(* The response.                                                           *)

Excused(r) == calls[r] >= 2 \/ inTx[r] \/ own[r] >= Slack

\* At most one body was written, none before the pool is done with; the log line is the
\* end of the request, and a client has the logged status or nothing.
ResponseInv(r) ==
    /\ resp[r].bodies = IF resp[r].status = 0 THEN 0 ELSE 1
    /\ req[r] \in {"waiting", "query"} => resp[r].status = 0
    /\ log[r] # 0 => req[r] \in {"answered", "failed"} /\ log[r] = StatusSent(resp[r])
    /\ got[r] \in {0, log[r]}

\* The time of a request is what its handler took, and one call's budget.
TimeInv(r) ==
    /\ log[r] # 0 /\ got[r] = 0 => Excused(r)
    /\ req[r] = "none" => calls[r] = 0
    /\ req[r] \in {"waiting", "query"} => calls[r] >= 1
    /\ ~Excused(r) =>
          /\ req[r] = "handler" =>
                now + WriteTimeout <=
                    writeBy[r] + own[r] + IF calls[r] = 0 THEN 0 ELSE CallBudget
          /\ req[r] \in {"waiting", "query"} =>
                /\ now <= callUntil[r]
                /\ callUntil[r] + WriteTimeout <= writeBy[r] + own[r] + CallBudget

ServingInv ==
    /\ ShutdownInv /\ ServingTypeOK
    /\ \A r \in Requests : ResponseInv(r) /\ TimeInv(r)

\* No request has a response before it arrives.
LEMMA ServingInitInv == ServingInit => ServingInv
BY BudgetAssumption, TimeoutAssumption, ShutdownInit
   DEF ServingInit, Init, ServingInv, ServingTypeOK, ShutdownInv, ResponseInv, TimeInv, Excused,
       Slack, NoTime, Never, Statuses

\* The response of r is finished: one body at most, logged with its status, which the client
\* has got or, after the write deadline, not.
Responded(r) ==
    /\ writeBy' \in [Requests -> Nat]
    /\ resp' \in [Requests -> [status : Statuses \union {0}, bodies : Nat]]
    /\ log' \in [Requests -> Statuses \union {0}]
    /\ got' \in [Requests -> Statuses \union {0}]
    /\ resp'[r].bodies = IF resp'[r].status = 0 THEN 0 ELSE 1
    /\ log'[r] = StatusSent(resp'[r]) /\ log'[r] # 0
    /\ got'[r] \in {0, log'[r]}
    /\ got'[r] = 0 => now >= writeBy[r]
    /\ \A s \in Requests \ {r} :
          /\ resp'[s] = resp[s] /\ log'[s] = log[s]
          /\ got'[s] = got[s] /\ writeBy'[s] = writeBy[s]

\* What the end of a request does to a response that has at most one body.
LEMMA RespondOnce ==
    ASSUME ServingTypeOK, NEW r \in Requests,
           NEW rec \in [status : Statuses \union {0}, bodies : Nat],
           rec.bodies = IF rec.status = 0 THEN 0 ELSE 1,
           NEW panics \in BOOLEAN, Respond(r, rec, panics)
    PROVE  Responded(r)
<1> USE BudgetAssumption, TimeoutAssumption DEF Statuses
<1>1. Never \in Nat /\ NoTime \in Nat
  BY DEF Never, NoTime
<1>2. now \in Nat /\ writeBy[r] \in Nat
  BY DEF ServingTypeOK, TypeOK
<1> DEFINE final == Recovered(rec, panics)
<1> HIDE DEF final
<1>3. /\ final \in [status : Statuses \union {0}, bodies : Nat]
      /\ final.bodies = IF final.status = 0 THEN 0 ELSE 1
      /\ AccessLogStatus(rec, panics) = StatusSent(final)
  <2>1. CASE panics /\ rec.status = 0
    <3>1. final = Written(rec, 500)
      BY <2>1 DEF Recovered, final
    <3>2. Written(rec, 500) = [status |-> 500, bodies |-> rec.bodies + 1] /\ rec.bodies = 0
      BY <2>1 DEF Written
    <3>3. final = [status |-> 500, bodies |-> 1]
      BY <3>1, <3>2
    <3> QED
      BY <2>1, <3>3 DEF AccessLogStatus, StatusSent
  <2>2. CASE ~(panics /\ rec.status = 0)
    <3>1. final = rec
      BY <2>2 DEF Recovered, final
    <3> QED
      BY <2>2, <3>1 DEF AccessLogStatus, StatusSent
  <2> QED
    BY <2>1, <2>2
<1>4. StatusSent(final) \in Statuses /\ StatusSent(final) # 0
  BY <1>3 DEF StatusSent
<1>5. /\ resp' = [resp EXCEPT ![r] = final]
      /\ log' = [log EXCEPT ![r] = StatusSent(final)]
      /\ got' = [got EXCEPT ![r] = IF now < writeBy[r] THEN StatusSent(final) ELSE 0]
      /\ writeBy' = [writeBy EXCEPT ![r] = NoTime]
  BY <1>3 DEF Respond, final
<1> QED
  BY <1>1, <1>2, <1>3, <1>4, <1>5 DEF ServingTypeOK, Responded

\* Every step of a serving process keeps the invariant.
LEMMA ServingStep == ServingInv /\ [ServingNext]_allvars => ServingInv'
<1> SUFFICES ASSUME ServingInv, [ServingNext]_allvars PROVE ServingInv'
  OBVIOUS
<1> USE BudgetAssumption, TimeoutAssumption
<1>0. ShutdownInv' /\ TypeOK'
  <2>1. [Next]_vars
    BY ServingMoves DEF allvars
  <2> QED
    BY <2>1, ShutdownStep DEF ServingInv, ShutdownInv
<1>a. /\ Never \in Nat /\ NoTime \in Nat /\ Slack \in Nat /\ CallBudget + Slack = WriteTimeout
      /\ {200, 500} \subseteq Statuses /\ 0 \notin Statuses
      /\ now \in Nat /\ now' \in Nat
  BY <1>0 DEF Never, NoTime, Slack, Statuses, ServingInv, ServingTypeOK, TypeOK
<1> DEFINE Types == /\ writeBy \in [Requests -> Nat] /\ callUntil \in [Requests -> Nat]
                    /\ resp \in [Requests -> [status : Statuses \union {0}, bodies : Nat]]
                    /\ log \in [Requests -> Statuses \union {0}]
                    /\ got \in [Requests -> Statuses \union {0}]
                    /\ calls \in [Requests -> 0..MaxCalls] /\ inTx \in [Requests -> BOOLEAN]
                    /\ own \in [Requests -> 0..Slack]
           Shares == \A s \in Requests : ResponseInv(s) /\ TimeInv(s)
<1>b. Types /\ req \in [Requests -> {"none", "handler", "waiting", "query",
                                     "answered", "failed", "cut"}]
  BY DEF ServingInv, ServingTypeOK, TypeOK
<1>c. Shares
  BY DEF ServingInv
<1> SUFFICES Types' /\ Shares'
  BY <1>0 DEF ServingInv, ServingTypeOK
<1> USE <1>a, <1>b, <1>c DEF ResponseInv, TimeInv, Excused
<1>1. ASSUME NEW r \in Requests, ServeHTTP(r) PROVE Types' /\ Shares'
  BY <1>1 DEF ServeHTTP, Accept, Become
<1>2. ASSUME NEW r \in Requests, PoolCall(r) PROVE Types' /\ Shares'
  BY <1>2 DEF PoolCall, Call, Become
<1>3. ASSUME NEW r \in Requests, PoolRetry(r) PROVE Types' /\ Shares'
  BY <1>3 DEF PoolRetry, AttemptFails, Become, serving
<1>4. ASSUME NEW r \in Requests, InTransaction(r) PROVE Types' /\ Shares'
  BY <1>4 DEF InTransaction, vars
<1>5. ASSUME NEW r \in Requests, PoolReturns(r) PROVE Types' /\ Shares'
  BY <1>5 DEF PoolReturns, Release, GiveUp, Become
<1>6. ASSUME NEW r \in Requests, NEW status \in HandlerStatuses, WriteResponse(r, status)
      PROVE  Types' /\ Shares'
  BY <1>6 DEF WriteResponse, Written, vars, Statuses
<1>7. CASE ServingTick
  BY <1>7 DEF ServingTick, Tick
<1>8. CASE ProcessStep
  BY <1>8 DEF ProcessStep, Signal, ListenFails, SignalUnheard, Drained, Exit, End, Active,
     ClosePoolWithGrace, serving
<1>9. CASE UNCHANGED allvars
  BY <1>9 DEF allvars, vars, serving
<1>10. ASSUME NEW r \in Requests, NEW rec \in [status : Statuses \union {0}, bodies : Nat],
              rec.bodies = IF rec.status = 0 THEN 0 ELSE 1,
              NEW panics \in BOOLEAN, Respond(r, rec, panics),
              NEW end \in {"answered", "failed"}, req' = [req EXCEPT ![r] = end],
              req[r] \in {"handler", "waiting"}, now' = now,
              NEW until \in Nat, callUntil' = [callUntil EXCEPT ![r] = until],
              UNCHANGED <<calls, inTx, own>>
       PROVE  Types' /\ Shares'
  <2>0. ServingTypeOK
    BY DEF ServingInv
  <2>1. Responded(r)
    BY ONLY <1>10, <2>0, RespondOnce, Zenon
  <2>2. got'[r] = 0 => Excused(r)
    BY <1>10, <2>1 DEF Responded
  <2>5. Types'
    BY <1>10, <2>1 DEF Responded
  <2>3. ResponseInv(r)' /\ TimeInv(r)'
    BY <1>10, <2>1, <2>2 DEF Responded
  <2>4. ASSUME NEW s \in Requests \ {r} PROVE ResponseInv(s)' /\ TimeInv(s)'
    BY <1>10, <2>1, <2>4 DEF Responded, StatusSent
  <2> QED
    BY <2>3, <2>4, <2>5
<1>11. ASSUME NEW r \in Requests, PoolAcquire(r) PROVE Types' /\ Shares'
  <2>1. CASE phase # "closing"
    BY <1>11, <2>1 DEF PoolAcquire, Acquire, Become
  <2>2. CASE phase = "closing"
    <3> DEFINE rec == Written(resp[r], 500)
    <3>1. rec = [status |-> 500, bodies |-> 1]
      BY <1>11 DEF Written, PoolAcquire, Acquire
    <3>2. /\ Respond(r, rec, FALSE) /\ req' = [req EXCEPT ![r] = "failed"] /\ req[r] = "waiting"
          /\ callUntil' = [callUntil EXCEPT ![r] = NoTime] /\ now' = now
          /\ UNCHANGED <<calls, inTx, own>>
      BY <1>11, <2>2 DEF PoolAcquire, Acquire, Become
    <3> HIDE DEF rec
    <3> QED
      BY <1>10, <3>1, <3>2
  <2> QED
    BY <2>1, <2>2
<1>12. ASSUME NEW r \in Requests, NEW panics \in BOOLEAN, HandlerEnds(r, panics)
       PROVE  Types' /\ Shares'
  <2>1. /\ Respond(r, resp[r], panics) /\ req' = [req EXCEPT ![r] = "answered"]
        /\ req[r] = "handler" /\ now' = now
        /\ callUntil' = [callUntil EXCEPT ![r] = callUntil[r]]
        /\ UNCHANGED <<calls, inTx, own>>
    BY <1>12 DEF HandlerEnds, Answer, Become
  <2>2. /\ resp[r] \in [status : Statuses \union {0}, bodies : Nat] /\ callUntil[r] \in Nat
        /\ resp[r].bodies = IF resp[r].status = 0 THEN 0 ELSE 1
    OBVIOUS
  <2> HIDE DEF Types, Shares
  <2> QED
    BY ONLY <1>10, <1>12, <2>1, <2>2, Zenon
<1> QED
  BY <1>1, <1>2, <1>3, <1>4, <1>5, <1>6, <1>7, <1>8, <1>9, <1>11, <1>12 DEF ServingNext

\* The inductive invariant of an instance that serves requests and shuts down.
THEOREM ServingInvariant == ServingSpec => []ServingInv
BY ServingInitInv, ServingStep, PTL DEF ServingSpec

\* Every variable of the serving process keeps its type.
THEOREM ServingTypeCorrect == ServingSpec => []ServingTypeOK
<1>1. ServingInv => ServingTypeOK
  BY DEF ServingInv
<1> QED
  BY <1>1, ServingInvariant, PTL

\* One response is written per request, with the status the access log names, under panics
\* before and after the first byte and a closed pool.  Its client gets that status or, when the
\* write deadline is past, nothing; never another one.
THEOREM ResponsesAreLogged == ServingSpec => []LoggedAsSent
<1>1. ServingInv => LoggedAsSent
  BY DEF ServingInv, ResponseInv, LoggedAsSent
<1> QED
  BY <1>1, ServingInvariant, PTL

\* The budget of one pool call leaves room for the answer, for every pair of timeouts with
\* CallBudget < WriteTimeout.
THEOREM OneCallAlwaysFits == ServingSpec => []OneCallFits
<1>1. ServingInv => OneCallFits
  BY DEF ServingInv, TimeInv, Excused, OneCallFits
<1> QED
  BY <1>1, ServingInvariant, PTL
=============================================================================
