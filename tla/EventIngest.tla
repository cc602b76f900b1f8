---------------------------- MODULE EventIngest ----------------------------
(***************************************************************************)
(* POST /v1/events (internal/http/ingest_auth.go and                       *)
(* internal/modules/observability/events.go, store.go, sql/events.sql):    *)
(* the ingest token is verified, a batch is validated as a whole, then     *)
(* inserted row by row in one transaction, INSERT ... ON CONFLICT          *)
(* (source, event_id) DO NOTHING.  Its client holds a batch and sends it   *)
(* again after a 5xx or no answer, drops it after a 400 or 413, and after  *)
(* a 401 sends it again a few times before it drops it; so one batch may   *)
(* be in several handlers at once.  Batches may share events.              *)
(*                                                                         *)
(* PostgreSQL (external): an INSERT whose key another open transaction has *)
(* inserted waits for that transaction; the deadlock detector aborts one   *)
(* of a circle of waiters.                                                 *)
(***************************************************************************)
EXTENDS Naturals, Sequences, FiniteSets

CONSTANTS
    Batches,     \* batches of the clients, one uploader each
    Events,      \* idempotency keys (source, event_id)
    Content,     \* [Batches -> Seq(Events)]
    Defect,      \* [Batches -> Defects]: what validation finds wrong with it
    Presented,   \* [Batches -> Hashes]: HashIngestToken of the header sent with it
    Hashes, AcceptedHashes,   \* the set captured when the routes are assembled
    Unstorable,  \* events the schema accepts and PostgreSQL does not
    Handlers,    \* requests in flight at once
    MaxFaults    \* bound: failures, lost answers, client timeouts, holds after a 401

Defects == {"none", "oversize", "malformed", "overcount", "shape", "event", "lexical"}

ASSUME ContentAssumption ==
    /\ Batches # {}
    /\ Content \in [Batches -> Seq(Events)]
    /\ Defect \in [Batches -> Defects]
    /\ Presented \in [Batches -> Hashes] /\ AcceptedHashes \subseteq Hashes
    /\ Unstorable \subseteq Events /\ MaxFaults \in Nat

VARIABLES
    table,       \* committed rows of events
    client,      \* where each batch is, seen from its uploader
    sent,        \* the handlers whose answer a waiting uploader would accept
    pc, job, pos,        \* each handler: its stage, its batch, the next row
    mine,                \* its uncommitted rows
    faults,
    accepts      \* history: how often a row was counted as accepted by a commit

vars == <<table, client, sent, pc, job, pos, mine, faults, accepts>>

Keys(b) == {Content[b][i] : i \in 1..Len(Content[b])}
Positions == UNION {1..Len(Content[b]) : b \in Batches}
NoJob == CHOOSE b \in Batches : TRUE   \* the job of an idle handler means nothing
NextKey(h) == Content[job[h]][pos[h]]

\* Mutant: an uncommitted key of another transaction does not block.
FreeOfEarlierCommits(h, e) == TRUE

\* The unique index admits e for h: no other open transaction has inserted it.
IndexFree(h, e) == \A g \in Handlers \ {h} : e \notin mine[g]

\* h waits for g's transaction to end.
WaitsFor(h, g) ==
    /\ pc[h] = "insert" /\ pos[h] <= Len(Content[job[h]])
    /\ g # h /\ NextKey(h) \in mine[g] /\ NextKey(h) \notin table

\* h is on a circle of waiters.  (Every waiter waits for one transaction only.)
InCycle(h) ==
    \E S \in SUBSET Handlers :
        /\ h \in S
        /\ \A g \in S : \E k \in S : WaitsFor(g, k)
        /\ \A g \in S : \E k \in S : WaitsFor(k, g)

-----------------------------------------------------------------------------

Init ==
    /\ table = {}
    /\ client = [b \in Batches |-> "held"]
    /\ sent = [b \in Batches |-> {}]
    /\ pc = [h \in Handlers |-> "idle"]
    /\ job = [h \in Handlers |-> NoJob]
    /\ pos = [h \in Handlers |-> 1]
    /\ mine = [h \in Handlers |-> {}]
    /\ faults = 0
    /\ accepts = [e \in Events |-> 0]

\* The uploader sends the batch it holds.
Send(b, h) ==
    /\ client[b] = "held" /\ pc[h] = "idle"
    /\ client' = [client EXCEPT ![b] = "waiting"]
    /\ sent' = [sent EXCEPT ![b] = {h}]
    /\ pc' = [pc EXCEPT ![h] = "validate"]
    /\ job' = [job EXCEPT ![h] = b]
    /\ pos' = [pos EXCEPT ![h] = 1]
    /\ UNCHANGED <<table, mine, faults, accepts>>

\* It stops waiting; the handler goes on, and its answer will find nobody.
Timeout(b) ==
    /\ client[b] = "waiting" /\ faults < MaxFaults
    /\ faults' = faults + 1
    /\ client' = [client EXCEPT ![b] = "held"]
    /\ sent' = [sent EXCEPT ![b] = {}]
    /\ UNCHANGED <<table, pc, job, pos, mine, accepts>>

\* Mutant: the transaction is left open.
AnswerKeepingRows(h, outcome) ==
    LET b == job[h] IN
    /\ pc' = [pc EXCEPT ![h] = "idle"]
    /\ pos' = [pos EXCEPT ![h] = 1]
    /\ client' = IF h \in sent[b] THEN [client EXCEPT ![b] = outcome] ELSE client
    /\ sent' = [sent EXCEPT ![b] = @ \ {h}]
    /\ job' = [job EXCEPT ![h] = NoJob]
    /\ UNCHANGED mine

\* The answer of h ends its request and leaves the batch, if its uploader still listens,
\* acked (200), dropped or held.
Answer(h, outcome) ==
    LET b == job[h] IN
    /\ pc' = [pc EXCEPT ![h] = "idle"]
    /\ pos' = [pos EXCEPT ![h] = 1]
    /\ mine' = [mine EXCEPT ![h] = {}]
    /\ client' = IF h \in sent[b] THEN [client EXCEPT ![b] = outcome] ELSE client
    /\ sent' = [sent EXCEPT ![b] = @ \ {h}]
    /\ job' = [job EXCEPT ![h] = NoJob]

\* ingestTokenMatches: the current hash or the previous one.
IngestTokenMatches(b) == Presented[b] \in AcceptedHashes

\* What gets past IngestVerifier and the checks of ingest.
Admissible(b) == IngestTokenMatches(b) /\ Defect[b] = "none"

\* Mutant: only the rejected count is reported, the batch goes on.
ValidateLeniently(h) ==
    /\ pc[h] = "validate"
    /\ \/ ~(Defect[job[h]] \in {"none", "event"} /\ IngestTokenMatches(job[h]))
          /\ Answer(h, "dropped")
       \/ /\ Defect[job[h]] \in {"none", "event"} /\ IngestTokenMatches(job[h])
          /\ pc' = [pc EXCEPT ![h] = "insert"]
          /\ UNCHANGED <<client, sent, job, pos, mine>>
    /\ UNCHANGED <<table, faults, accepts>>

\* IngestVerifier answers 401 before it lets ingest read the body; the uploader holds the
\* batch a bounded number of times.  In ingest, step (0) is a limiter that always allows.
\* Steps (1)-(4): body cap and count cap (413), JSON, batch schema, every event's schema, the
\* decode into rows (400).  All of them come before any write.
Validate(h) ==
    /\ pc[h] = "validate"
    /\ \/ ~Admissible(job[h]) /\ Answer(h, "dropped") /\ UNCHANGED faults
       \/ /\ ~IngestTokenMatches(job[h])
          /\ faults < MaxFaults /\ faults' = faults + 1
          /\ Answer(h, "held")
       \/ /\ Admissible(job[h])
          /\ pc' = [pc EXCEPT ![h] = "insert"]
          /\ UNCHANGED <<client, sent, job, pos, mine, faults>>
    /\ UNCHANGED <<table, accepts>>

\* Mutant: a conflict with an uncommitted row is taken for a duplicate at once.
InsertEventNoWait(h) ==
    /\ pc[h] = "insert" /\ pos[h] <= Len(Content[job[h]])
    /\ NextKey(h) \notin Unstorable
    /\ mine' = [mine EXCEPT ![h] =
          IF NextKey(h) \in table \/ ~IndexFree(h, NextKey(h)) THEN @
          ELSE @ \union {NextKey(h)}]
    /\ pos' = [pos EXCEPT ![h] = @ + 1]
    /\ UNCHANGED <<table, client, sent, pc, job, faults, accepts>>

\* InsertEvent: a committed row, or one of its own, is skipped; otherwise it waits
\* until the index is free of the key and inserts.
InsertEvent(h) ==
    /\ pc[h] = "insert" /\ pos[h] <= Len(Content[job[h]])
    /\ NextKey(h) \notin Unstorable
    /\ NextKey(h) \in table \/ IndexFree(h, NextKey(h))
    /\ mine' = [mine EXCEPT ![h] = IF NextKey(h) \in table THEN @ ELSE @ \union {NextKey(h)}]
    /\ pos' = [pos EXCEPT ![h] = @ + 1]
    /\ UNCHANGED <<table, client, sent, pc, job, faults, accepts>>

\* Mutant: a failed row is skipped, the rest of the batch is kept.
InsertFailsPartly(h) ==
    /\ pc[h] = "insert" /\ pos[h] <= Len(Content[job[h]])
    /\ faults < MaxFaults /\ faults' = faults + 1
    /\ pos' = [pos EXCEPT ![h] = @ + 1]
    /\ UNCHANGED <<table, client, sent, pc, job, mine, accepts>>

\* Begin or a row fails for a passing reason (connection, instance, the request's
\* context): rollback, 500.
InsertFails(h) ==
    /\ pc[h] = "insert" /\ pos[h] <= Len(Content[job[h]])
    /\ faults < MaxFaults /\ faults' = faults + 1
    /\ Answer(h, "held")
    /\ UNCHANGED <<table, accepts>>

\* A row PostgreSQL refuses by its value: rollback, 500.
InsertRefused(h) ==
    /\ pc[h] = "insert" /\ pos[h] <= Len(Content[job[h]])
    /\ NextKey(h) \in Unstorable
    /\ Answer(h, "held")
    /\ UNCHANGED <<table, faults, accepts>>

\* Mutant: nothing breaks a circle of waiters.
DeadlockIgnored(h) == InCycle(h) /\ UNCHANGED vars

\* The deadlock detector chooses h (40P01): rollback, 500.
DeadlockVictim(h) ==
    /\ InCycle(h)
    /\ Answer(h, "held")
    /\ UNCHANGED <<table, faults, accepts>>

\* Commit, then the 200 with the counts: accepted are the rows of this commit.
Commit(h) ==
    /\ pc[h] = "insert" /\ pos[h] > Len(Content[job[h]])
    /\ table' = table \union mine[h]
    /\ accepts' = [e \in Events |-> accepts[e] + IF e \in mine[h] THEN 1 ELSE 0]
    /\ Answer(h, "acked")
    /\ UNCHANGED faults

\* Mutant: a failed commit is answered with a 4xx.
CommitUnclearDropped(h, applied) ==
    /\ pc[h] = "insert" /\ pos[h] > Len(Content[job[h]])
    /\ faults < MaxFaults /\ faults' = faults + 1
    /\ Answer(h, "dropped")
    /\ UNCHANGED <<table, accepts>>

\* The reply to COMMIT is lost, with or without effect: 500.
CommitUnclear(h, applied) ==
    /\ pc[h] = "insert" /\ pos[h] > Len(Content[job[h]])
    /\ faults < MaxFaults /\ faults' = faults + 1
    /\ table' = IF applied THEN table \union mine[h] ELSE table
    /\ accepts' = [e \in Events |->
                      accepts[e] + IF applied /\ e \in mine[h] THEN 1 ELSE 0]
    /\ Answer(h, "held")

Step(h) ==
    \/ Validate(h) \/ InsertEvent(h) \/ InsertRefused(h) \/ DeadlockVictim(h) \/ Commit(h)
Fault(h) ==
    InsertFails(h) \/ \E applied \in BOOLEAN : CommitUnclear(h, applied)

Next ==
    \/ \E b \in Batches : Timeout(b) \/ \E h \in Handlers : Send(b, h)
    \/ \E h \in Handlers : Step(h) \/ Fault(h)

Spec == Init /\ [][Next]_vars

\* A handler keeps running, the deadlock detector acts, an uploader keeps sending
\* what it holds.  A waiter is woken when the transaction it waits for ends, while
\* the victim's batch first travels to its uploader and back: a handler that may
\* insert its i-th row again and again does so in the end.
Fairness ==
    /\ \A h \in Handlers :
          /\ WF_vars(Step(h))
          /\ \A i \in Positions : SF_vars(pos[h] = i /\ InsertEvent(h))
    /\ \A b \in Batches : SF_vars(\E h \in Handlers : Send(b, h))

FairSpec == Spec /\ Fairness

-----------------------------------------------------------------------------
(* Properties.                                                             *)

TypeOK ==
    /\ table \subseteq Events
    /\ client \in [Batches -> {"held", "waiting", "acked", "dropped"}]
    /\ sent \in [Batches -> SUBSET Handlers]
    /\ pc \in [Handlers -> {"idle", "validate", "insert"}]
    /\ job \in [Handlers -> Batches]
    /\ pos \in [Handlers -> Nat]
    /\ mine \in [Handlers -> SUBSET Events]
    /\ faults \in 0..MaxFaults
    /\ accepts \in [Events -> Nat]

\* A 200 is durable: every event of an acknowledged batch is committed, also the
\* ones counted as duplicates of a batch that was still in flight at the time.
AckedIsStored == \A b \in Batches : client[b] = "acked" => Keys(b) \subseteq table

\* An event is counted as accepted by one commit only, whatever retries and
\* overlapping batches carried it.
AcceptedOnce == \A e \in Events : accepts[e] = IF e \in table THEN 1 ELSE 0

\* One bad event keeps the whole batch out (FR10), and so does a token that is not
\* accepted: what only such batches carry is never stored.
RejectedIsNotStored == \A e \in table : \E b \in Batches : e \in Keys(b) /\ Admissible(b)

\* A batch is stored whole or not at all (FR4): an event is stored only together
\* with the rest of a batch that carries it.
WholeBatches == \A e \in table : \E b \in Batches : e \in Keys(b) /\ Keys(b) \subseteq table

Settled(b) == client[b] \in {"acked", "dropped"}

\* A batch that PostgreSQL can store, or that is refused before, is settled in the
\* end, also beside batches in the opposite row order and beside one that fails on
\* every attempt.
GoodBatchesSettle ==
    \A b \in Batches :
        ~Admissible(b) \/ Keys(b) \intersect Unstorable = {} => <>Settled(b)

\* Every batch is settled in the end: no batch is held and sent again for ever
\* (the comment on step (4) of ingest).
EveryBatchSettles == \A b \in Batches : <>Settled(b)

\* One handler's transaction: it has dealt with every row before its position, and its
\* uncommitted rows are in no table and in no other transaction.
HandlerInv(h) ==
    /\ pc[h] # "insert" => mine[h] = {} /\ pos[h] = 1
    /\ pc[h] = "insert" =>
          /\ Admissible(job[h])
          /\ mine[h] \subseteq Keys(job[h])
          /\ pos[h] \in 1..(Len(Content[job[h]]) + 1)
          /\ \A i \in 1..(pos[h] - 1) : Content[job[h]][i] \in table \union mine[h]
    /\ mine[h] \intersect table = {}
    /\ \A g \in Handlers \ {h} : mine[g] \intersect mine[h] = {}

\* An uploader listens to one handler at most, and only while it waits.
UploaderInv(b) == sent[b] # {} => client[b] = "waiting" /\ \E h \in Handlers : sent[b] = {h}

\* The inductive invariant.
IngestInv ==
    /\ TypeOK /\ AckedIsStored /\ AcceptedOnce /\ RejectedIsNotStored /\ WholeBatches
    /\ \A h \in Handlers : HandlerInv(h)
    /\ \A b \in Batches : UploaderInv(b)

\* What the endpoint promises: the abstract store of EventStore.
Store == INSTANCE EventStore WITH
    Payload <- [b \in Batches |-> Keys(b)],
    Valid <- {b \in Batches : Admissible(b)},
    stored <- table,
    outcome <- [b \in Batches |-> IF Settled(b) THEN client[b] ELSE "open"]

\* The endpoint implements that store: batches appear whole, only valid ones, no uploader is
\* made to drop a valid one, and what it was told no late answer to an earlier attempt changes.
ImplementsStore == Store!Spec
=============================================================================
