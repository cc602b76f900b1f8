# Verification of server-infra-toolkit in TLA+

A Go API server: username/password login with account lockout, opaque access
tokens, rotating refresh tokens with replay detection, batch ingestion of
telemetry events, all on PostgreSQL (Neon, scale to zero) behind Cloud Run. This
directory holds TLA+ models of the parts of it in which several requests, several
instances, a database and clocks meet, and of the credentials that are rolled out to
its clients; TLC configurations that check them on small
instances; and TLAPS proofs, for every value of the constants, of what matters most.

    tlc -config MCRefresh.cfg MCRefresh      # likewise for the other runs of PROJECT.json
    tlapm RefreshRotationProofs.tla          # likewise RefreshGuarantees, LoginProofs,
                                             # IngestProofs, RetryProofs, ServingProofs,
                                             # AccessProofs, RolloutProofs

`PROJECT.json` lists, for machines, what this file says for readers: components,
runs, the mutant that shows each property can fail, the source lines of every
definition, findings, hazards and theorems.

## 1. Inventory

| Component | Source | State | Operations | Hard because | Correct when |
|---|---|---|---|---|---|
| Refresh rotation | `internal/modules/auth/refresh.go`, `token.go`, `sql/auth.sql` | rows of `refresh_tokens` and `access_tokens`; per call one transaction, its advisory lock, row locks, connection | `POST /v1/auth/refresh` | one transaction of many statements, racing itself on several instances; commit replies get lost; SQL `now()` is the start of the transaction while expiry is judged by the instance's clock | a chain has one live token; a replay kills the whole chain and nothing else does; a failure consumes nothing; no deadlock |
| Login and lockout | `login.go`, `store.go`, `lockout.go`, `sql/auth.sql` | `users.failed_attempts`, `users.locked_until` | `POST /v1/auth/login` | gate, argon2, counting and reset are separate autocommit statements: the gate's answer is stale when the failure is counted | no failure lost, guesses bounded, a live lock stands, one announcement per lock, equal work on every refusal |
| Unlock command | `cmd/api/main.go` `runUnlock` | the same row | `-unlock` | at any moment of a login | as above |
| Event ingestion | `internal/modules/observability/events.go`, `store.go`, `sql/events.sql` | rows of `events`, unique on (source, event_id) | `POST /v1/events` | clients resend; batches overlap; inserts wait for uncommitted keys and can deadlock | acknowledged means stored; a batch is stored whole or not; counted once; settled in the end |
| Ingest token verifier | `internal/http/ingest_auth.go` | the accepted hashes, fixed at start | before the handler | - | a batch without an accepted token stores nothing |
| Retrying pool | `internal/platform/db/retry.go`, `pool.go` | connections; attempt, backoff and deadline of each call | `Exec`, `Query`, `QueryRow`, `Begin` | timers, contexts and errors race; a retry may repeat what was done | applied at most once; connections come back; every call ends inside its budget |
| Process life cycle | `cmd/api/main.go` `run`, `gracefulShutdown`, `closePoolWithGrace` | the server, the pool, requests in flight | SIGTERM, listener failure | hung requests and connections against three budgets and SIGKILL | exits by itself in time; does not cut requests early |
| Bearer middleware | `internal/modules/auth/middleware.go`, `access_tokens` | rows of `access_tokens`, `users.status` | before a protected route | token and user are read one after the other; access tokens outlive the revocation of their chain; clocks differ | a revoked or expired token, or a disabled user, does not get in; a killed chain dies within one token life |
| HTTP middleware chain | `internal/http/middleware.go`, `server.go`, `errors.go` | one response, one log line | around every request | panics before and after the response has begun; several pool calls under one write timeout | one response, logged as it was sent; one retried call fits the timeout |
| Configuration | `internal/platform/config/config.go` | fixed at start | `Load` | operators mistype; two revisions serve at once during a rollout | no app in use is locked out by a mistake that can be seen, a missing header never matches |
| Active-marker signing | `internal/platform/offlinesig`, `cmd/api/signactive.go` | `active.json` | `-sign-active` | the order of shipping and activating a key; canonical bytes | what is emitted is verified by an app in use; signed bytes determine the fields |
| Password hashing | `password.go`, `dummy.go`, `credential.go` | none | hash, verify, decode | cryptography | outcomes only, in `LoginLockout` |
| Seed and smoke commands, rate-limiter seams, generated queries, logging | see PROJECT.json | none, or one statement | - | - | not modelled |

How they interact. A login that succeeds inserts the first row of a chain, which
rotation then extends: `PersistSession` of `RefreshRotation` is the last step of
`LoginLockout`. Login, rotation and ingestion all reach PostgreSQL through the
retrying pool; the process life cycle closes that pool under them. Nothing in the
process is shared between requests except the pool: everything else meets in
PostgreSQL. A rotation also writes the access token that the bearer middleware reads
later (`AccessTokens` on `SessionChain`); the middleware chain and the pool calls of a
handler run inside the process that drains and exits (`HttpServing` on
`GracefulShutdown`); the configuration decides whom the ingest verifier admits
(`CredentialRollout` on `Configuration`). As requests meet in PostgreSQL, the models of
login, rotation and ingestion are about statements, snapshots and locks. The rate
limiters' only implementation always allows; the models take that branch.

## 2. The modules

| Module | Models | Checked by | Proved in |
|---|---|---|---|
| `RefreshRotation` | one action per SQL statement of `rotateRefresh` | `MCRefresh` | `RefreshRotationProofs`, `RefreshGuarantees` |
| `SessionChain` | abstract: what a chain of sessions promises | as `ImplementsChain`; used by `AccessTokens` | `RefreshGuarantees` |
| `RefreshClaims` | a statement of a comment, against the code | `MCRefreshClaims` | - |
| `LoginLockout` | `verifyCredentials`, the SQL of `RecordLoginFailure`, `-unlock` | `MCLogin` | `LoginProofs` |
| `LoginClaims` | a statement of a comment, against the code | `MCLoginClaims` | - |
| `EventIngest` | token check, validation, `insertBatch`, the resending client | `MCIngest` | `IngestProofs` |
| `EventStore` | abstract: what `POST /v1/events` promises its uploaders | as `ImplementsStore` | `IngestProofs` |
| `RetryPool` | `retry`, `sleepWithBudget`, `isTransientConnError`, the pool methods | `MCRetry` | `RetryProofs` |
| `GracefulShutdown` | `run`, `gracefulShutdown`, `closePoolWithGrace` | within `MCServing` | `ServingProofs` |
| `HttpServing` | extends it: middleware chain, handlers, their pool calls, the write timeout | `MCServing` | `ServingProofs` |
| `AccessTokens` | access tokens, `BearerMiddleware`, over the chains of `SessionChain` | `MCAccess` | `AccessProofs` |
| `Configuration` | `Load`, `parseIngestTokenHashes`, `IngestVerifier` | within `MCRollout` | `RolloutProofs` |
| `OfflineSigning` | canonical payload, `SignActive`, `runSignActive`, the app's check | within `MCRollout` | `RolloutProofs` |
| `CredentialRollout` | composes the two over releases, revisions and operators | `MCRollout` | `RolloutProofs` |

Definitions called "Mutant" stand before the definition they distort. They are used
nowhere in the specifications; PROJECT.json says which property each one breaks.

### RefreshRotation

`inserted`, `family`, `used`, `usedAt`, `revoked`, `mintedAt` are the committed
table; `parent` is history. A request slot has its place `pc` (the next statement),
what it presented, and a transaction: start time, the row it read, locks, and the
writes that only its commit publishes. The actions are steps (1) to (9) of
`rotateRefresh` in order: `Begin`, `Preread`, `LockTokenFamily`, `LockRow`,
`Decide` (4)-(7), then `RevokeScan`/`RevokeRow`/`RevokeDone`/`CommitRevoke` or
`GateUser`/`MarkUsed`/`Insert`/`CommitRotate`. `RevokeTokenFamily` is one UPDATE but
not one step: PostgreSQL fixes its snapshot first and then locks row after row,
re-checking each. `Abort` may end a call anywhere (error, client gone, instance
dead); a commit may take effect and still be answered 500.

Time: `db_now` and `used_at` are the START of a transaction (`txStart`); expiry is
judged by the instance's clock, `clock + Skew[r]`. A selector is a token's name; the
verifier is right or wrong; users come and go at `GateUser`. `access_tokens` rows
are inserted and committed together with the refresh row and are not separate state.
Nothing in the program deletes a row, so the FOR UPDATE read of step (3) finds the row that
step (1) found; its 401 for a row that vanished (a user deleted by hand, which cascades) is
left out.

A remark the model gives for free: since every transaction that reads or writes a
family's rows holds the family's advisory lock first, the row lock of FOR UPDATE
never waits. It is not what makes rotation safe.

### LoginLockout

One account. `Lookup` (with gate A), `Verify` (one argon2 run), `SendRecord` and
`RecordLoginFailure` (the statement's `now()` is fixed when it starts, the row is
read when its lock is granted), `ResetLoginFailures`, `TouchUserTiming`,
`LogAccountLocked`, `IssueSession`. The CASE expressions of the SQL are the operators
`Counted`, `LockAfter`, `JustLocked`. `argons` and `writes` count the work of a call,
`guesses` the failures recorded since the count last restarted. `active` and
`hashOK` are fixed in a behaviour and arbitrary at its start, as nothing in the
program writes them for an existing account.

### EventIngest

A batch is a sequence of idempotency keys with one label for what validation finds
(`Defect`), the hash of the token it is sent with, and possibly keys PostgreSQL
refuses. A handler checks token and batch (nothing of that touches shared state, so
it is one step), inserts row by row, waits on keys of other open transactions, and
commits; `DeadlockVictim` is PostgreSQL's. The client is external: it keeps one
batch at a time in flight, may stop waiting and send again while the first handler
still runs, drops on 400 and 413, holds on 5xx - as the comments of `events.go` describe it -
and on 401 holds a few times before it drops, as section 5 of the client handoff document
has it; each such hold counts against `MaxFaults`.

`EventStore` is what all that amounts to for an uploader: a set of events, what each
uploader was told, and two moves. `Store` puts a valid batch in whole, any number of
times, and may tell its uploader; `Drop` tells the uploader of a batch that is not valid.
An answer is given once. Rows, transactions, retries and late answers are not in it.

### RetryPool

A call has an operation, an attempt number, a deadline, a backoff. An attempt takes
a connection and ends in success or in an error, described by exactly what
`isTransientConnError` looks at, and by whether the statement may have taken effect.
The compute is asleep until `WakeAt`. `Query` keeps its connection until the rows
are scanned; because `retry` cancels its context when it returns, `Scan` may find
that context dead and fail although the statement took effect. `Begin` keeps it
until the transaction ends. External assumption: an attempt that fails with one of
the whitelisted SQLSTATEs had no effect (57P01 aborts the statement it interrupts);
this is what the comment on `retryableSQLSTATEs` says, and the code rests on it.

### GracefulShutdown

`phase` is where `run` is; a request is in its handler, waiting for a connection, in a
query, answered, refused by a closed pool (`failed`) or `cut` by the exit. A call under
way gets no connection once the pool is closing, also between two attempts. `Pool.Close` refuses acquires at
once and waits for connections. `SignalUnheard` is a SIGTERM during the error path's
close, when nobody listens to the signal context any more. The branch for
`ErrServerClosed` in `run` cannot be reached (only `gracefulShutdown` calls
`Shutdown`) and is not modelled.

### HttpServing

Every request action of `GracefulShutdown` gets the state of the response around it.
`resp` is the `statusRecorder` with a count of the bodies written; `Respond` is what the
deferred access log, the deferred recover and net/http do in that order when a handler
returns or panics, before or after it began to answer. A pool call starts one budget,
which its retries share. A transaction, once begun, runs under the request's context,
which has no deadline (so `inTx` excuses a late answer). The write deadline does not stop
a handler; its late response is lost. `own` counts the time a handler spends outside the
pool, up to the slack between the two timeouts. Header order, body-size limit and
request ids are not state of interest.

### AccessTokens

The chain moves are those of `SessionChain`, so this module needs none of the SQL of a
rotation: that `RefreshRotation` implements those moves is proved. Each issue of a session
has two steps, as the user's status and the clock are read before the commit: a user may
be disabled in between. `BearerMiddleware` is `Present` (headers that do not parse are
`NoToken`), `Lookup` and `ReadUser`, each a statement of its own. `arrival` remembers what
held when the request came. `SetStatus` and `RevokeAccessToken` are the operators': the
status has no writer in the repository, and the query has no caller yet. The middleware is not mounted on any route
yet either (`main.go` only pins that it compiles).

Token and user need not both have been good at one instant: a token revoked after
`Lookup` and a user enabled before `ReadUser` let the request in. `RevocationImmediate`
therefore speaks of what held when the request came, and of the user at some moment of it.

### Configuration, OfflineSigning, CredentialRollout

The first two are operators. A hash is the token it is the hash of, with a `form` that
tells 64 lower-case digits from the rest; SHA-256 is injective. A payload is a sequence of
symbols in which the line feed is one, so that joining does what it does in the code.
Ed25519 is ideal. A private key is a seed and a public key behind it, as in the code: a seed
of 32 bytes is expanded, 64 bytes are taken as they are, the gate compares the second half,
and a signature made with halves of two pairs verifies under no key.

`CredentialRollout` runs them: app releases 1, 2, ... each ship their own token and key;
operators follow the documented order and make mistakes. `Load` and `SignActive` refuse most
of these. The ones they cannot see are in the model too, and the properties name them:

- a well-formed hash of a wrong token (`Foreign`: a wrong digit, a newline hashed along);
  `OnlyFleetGetsIn` exempts the revision that was given one;
- an expected public key that is not the one published under the id, an id made active before
  an app ships it, a 64-byte key of two halves; `slips` remembers which of them the last
  `active.json` was made with, and `EmittedVerifies` speaks of those made with none. The first
  two are the operator's records, which the code can only take as given; the third is one that
  `sign.go` claims to exclude (see the observations in section 3).

A rollback to a retired revision and the emergency procedure of DEPLOY.md are outside. A
release drops the old public key, as the contract says, so a manifest is owed to some app in
use and not to all.

## 3. The runs

Passing runs:

| Run | Instance | Shows |
|---|---|---|
| `refresh` | 2 requests, 3 tokens, 1 family, clock 0..2, leeway 1, TTL 2, skew 1, 2 connections; symmetry in requests and tokens | `OneLiveToken`, `RevocationComplete`, `AtomicRotation`, `NoDeadlock`, `ReplayKillsFamily`, `OnlyReplayRevokes`, the refinement `ImplementsChain`, and that `RotationInv` holds before it is proved inductive |
| `refresh_live` | 2 requests, 2 tokens, 2 connections, clock 0..1, leeway 0 | `EveryCallAnswered`, with rotations and replays that contend for the locks |
| `login` | 3 calls, threshold 2, window 2, clock 1..4; symmetry in calls | `NoLostFailure`, `GuessBudget`, `ConstantWork`, `LiveLockStands`, `AnnouncedByTheLocker`, `LockoutInv` |
| `ingest` | 5 batches, 2 handlers, 2 faults | `AckedIsStored`, `AcceptedOnce`, `RejectedIsNotStored`, `WholeBatches`, `IngestInv` (with the type invariant in it), `GoodBatchesSettle`, the refinement `ImplementsStore` |
| `retry` | 2 callers, 1 connection, 3 attempts, base 1, budget 4, wake at 2, 2 faults | `AppliedOnce`, `ConnectionsAccounted`, `EveryCallEnds` |
| `serving` | 2 requests, 2 pool calls each, tick of 5 s: write timeout 3, call budget 2, drain 1, close 1, error close 1, grace 3 | `NeverKilled`, `DrainBeforeClose`, `LoggedAsSent`, `OneCallFits`, `ShutdownEnds` |
| `access` | 1 user, 1 chain, 3 refresh and 3 access tokens, 1 request at a time, TTL 2, skew 1, clock 0..4; symmetry in tokens | `RevocationImmediate`, `KilledChainDies` |
| `rollout` | 2 releases, up to 2 revisions, 3 texts, 3 digests, every pair of halves | `OnlyFleetGetsIn`, `EmittedVerifies`, `SignatureFixesFields` |

Why the bounds suffice. Rotation: two transactions meet at every pair of statements;
three tokens give a login, a rotation, and a rotation that races a replay of the
first token; a clock to 2 lets a use age past a leeway of 1 and a token with TTL 2
expire after its use; the skew makes an age measured by the wrong clock visible. One
family is enough because families share nothing but the pool, and the proofs cover
the rest. In `refresh_live` two transactions are open at once, so that one waits for the other's
advisory lock, and the clock lets one be a replay of what the other used. Nobody waits for the
pool in it: with a third request, and without symmetry, which liveness does not admit, the
instance is out of reach. That a wait for a connection is no deadlock is in `NoDeadlock`,
which is proved for every pool size. Login: three calls let two pass the gate before the third locks; the clock
reaches two lapses. Ingestion: two batches with the same two keys in opposite order
deadlock, each may be in both handlers at once, and two faults combine a client
timeout with a lost commit reply; a poison batch, a defective one and one with a
foreign token run beside them. Retry: one connection makes one caller wait for the
other's attempt, so that its second backoff is cut to its deadline. Serving: the real
budgets in ticks of 5 s, the close of 2 s rounded up to a tick and the grace of 10 s with
it, which keeps drain + close < grace, the order the constants of `main.go` have; two
requests let one hang while the other is answered or refused, two calls let the second
one miss the write timeout. Access: three access tokens are a login and two rotations,
of which the last may outlive the kill; the clock passes every expiry; requests
only read, so one at a time meets everything that two would. Rollout: with two
releases in use and a third wanted, the list is one longer than the hashes that fit; a key is
the right one, the other one, not shipped yet, or half of each; a text is empty, printable or a line feed, a
digest in lower case, in upper case or not hex.

Deadlock checking is off where the system really may stop: all batches are settled
(`ingest`), every caller is done (`retry`), the process has exited (`serving`).

Fairness.
- `refresh_live`: a request's goroutine keeps running, and PostgreSQL's lock
  queues and the pool's queue serve in arrival order, so that a waiter is not
  overtaken for ever (strong on `Step` of each request, which is at one statement at a
  time). `Abort` and the clock are not fair.
- `ingest`: handlers run, the deadlock detector acts; the uploader keeps sending what
  it holds (strong, as a handler may not always be free); a waiter that is woken when
  a transaction ends inserts before the victim's batch has travelled to its client
  and back (strong, per row).
- `retry`: timers and contexts fire, time passes, callers scan their rows or end their
  transactions. Dials and statements are not fair: they may hang.
- `serving`: timers fire, time passes, and a pool call whose budget is spent returns. No
  handler and no transaction has to finish.

Runs that find what the code does against what its comments say:

| Run | Property | Finding |
|---|---|---|
| `refresh_loser` | `ConcurrentLoserKeepsFamily` | `used_at` and `db_now` are start times: if the winner's transaction stays open longer than the leeway, a request that overlaps it revokes the family, where the file comment promises a clean 401 |
| `login_reset` | `ResetKeepsLiveLock` | a correct login that passed the gate earlier lifts a live lock, and the guess budget starts again; the comment says the worst case is a count of 1 |
| `ingest_poison` | `EveryBatchSettles` | a value the schema admits and PostgreSQL refuses is a 500 each time, and the batch is sent for ever, which the comment on step (4) means to exclude |
| `signing_hex` | `EmittedVerifiesAnyCase` | `-sign-active` signs the digest in lower case and emits it as it was given; the app's documented check takes the emitted digest verbatim and refuses an upper-case one |

Observations that the models contain and no run is about: `SignActive` holds only the second
half of a 64-byte private key against the published one (`sign.go:155`), so that a key whose
seed is of another pair signs an `active.json` that no app verifies, where `sign.go:6-8` and
138 say it is refused; an account whose stored hash
does not decode is refused without the equalising UPDATE (`login.go:289`, against 217-218);
each rotation starts a new `refreshTokenTTL` (`refresh.go:338`), which `login.go:49-53`
calls the absolute ceiling of a chain; refused dials use the three attempts up within
300 ms of backoff (`retry.go:281`), so a compute that wakes within the budget of 10 s may
still fail the call; a handler with two pool calls, or with a transaction, may exceed the
WriteTimeout (the exceptions of `OneCallFits`); one call's budget exceeds the drain budget
of 5 s, so a call that waits for a waking compute is cut by a shutdown.

## 4. The proofs

`tlapm` checks every step. Every safety property that a passing run checks is also a
theorem, for every value of the constants. No assumption is made but the named `ASSUME`s
of the modules, which TLC evaluates on the instances:

| Module | Assumed of the constants |
|---|---|
| `RefreshRotation` | natural times and skews, finitely many requests, a non-empty pool |
| `LoginLockout` | positive threshold and window, finitely many calls |
| `EventIngest` | at least one batch; a batch is a sequence of events |
| `RetryPool` | positive pool size, attempts, backoff and budget; finitely many callers |
| `GracefulShutdown` | drain + close < grace, error close < grace (the constants have it: 5 s + 2 s and 5 s, within 10 s; `main.go` and its test ask for <= of the first and nothing of the second, but at equality the timer races SIGKILL) |
| `HttpServing` | call budget < write timeout (10 s and 15 s in the code) |
| `AccessTokens` | every chain has one owner; natural times |
| `OfflineSigning`, `CredentialRollout` | the line feed is among the unprintable bytes; fields are sequences; at least one release |

**Rotation** (any number of requests, tokens, families, any clock skew).
`TypeCorrect`, then `RotationInvariant`: Spec => []RotationInv. The safety properties are
not inductive alone: that a rotation may consume a token depends on what its
transaction read many statements ago. `RotationInv` adds what makes that reading
good: a transaction past step (2) holds its family's advisory lock and nobody else
does (`LocksOK`, `Exclusive`); hence the row it read is still the committed one, the
token it is about to consume is unused and unrevoked, the rows it is about to revoke
are the whole family (`WorkOK`); and parents exist in the same family (`TableInv`).
The proof has a frame lemma for the slots a step does not touch, one lemma for
the steps that leave the table alone, and one for each step that writes it
(`PersistSession`, `CommitRevoke`, `CommitRotate`). From it follow
`OneLiveTokenAlways`, `RevocationIsComplete`, `RotationIsAtomic`; in
`RefreshGuarantees` also `DeadlockFree` (a holder of the advisory lock waits for
nobody, and whoever waits, waits for a holder or for the pool, whose connections
are with transactions that can move), the action properties `ReplayAlwaysKills` and
`OnlyReplaysRevoke`, and `RotationImplementsChain`: logins, committed rotations and
committed revocations are `Open`, `Rotate` and `Kill` of `SessionChain`, every other
step stutters.

**Login** (any number of calls, any threshold and window). `LoginTypeCorrect`,
`LockoutInvariant`, and from it `FailuresAreCounted`, `GuessesAreBounded`,
`WorkIsConstant`, `LiveLocksStand`, `TheLockerAnnounces`. The bound on guesses is not
inductive as it stands: a lock does not stop the calls that passed the gate before
it. The invariant therefore counts them (`Pending`): recorded guesses plus pending
calls stay within the threshold plus the other slots, and a call that records leaves
`Pending`.

**Ingestion** (any batches, however they overlap, any number of handlers and faults).
`IngestInvariant`: Spec => []IngestInv, from which `AcknowledgedIsStored`, `CountedOnce`,
`RejectedLeavesNothing` and `BatchesAreWhole` follow. That a 200 is durable is not
inductive: the handler that commits found some rows present when it reached them, and
inserted others. `HandlerInv` therefore says of an open transaction that every row before
its position is in the table or in its own hands, and that what it has in hand is in no
table and in no other transaction, which is why a commit counts each row once. At the last
position this is the whole batch (`WholeBatchInHand`). `UploaderInv` says who still listens.
`HandlerMoves` reduces the handlers' seven actions to three kinds of step, the last being
the end of a request with an answer and perhaps a commit.
`IngestImplementsStore` shows the refinement of `EventStore`: an end with a commit is
`Store`, told or untold; an end with a 4xx to an uploader that listens is `Drop`; all else
stutters. That no late answer changes what an uploader was told comes from `UploaderInv`.

**Pool** (any number of callers and connections, any budgets). `RetryInvariant`, then
`RetryTypeCorrect`, `StatementsApplyOnce`, `ConnectionsComeBack`. The invariant ties how
often a statement took effect to the place of its call: not before the last attempt ended.
It is kept because no error that may hide an effect counts as transient
(`TransientHasNoEffect`, over the errors of the model); connections are counted by the
cardinality of the set of callers that hold one.

**Life of the process** (any number of requests, any budgets that fit). `ShutdownInvariant`
for `GracefulShutdown`: in every phase, where the timer stands to the time of SIGKILL
(`DrainClock`, `CloseClock`), and that before the pool closes no request fails.
`ServingImplementsShutdown` shows that `HttpServing` implements `GracefulShutdown`, so
`ExitsBeforeKill` and `DrainComesFirst` hold of the detailed process. `ServingInvariant`
adds the response (`ResponseInv`: one body at most, nothing written while a pool call is
under way, and a client that has the logged status or none) and an account of time (`TimeInv`: as long as a request has made one call and no
transaction, its age is what its handler took plus at most one budget), from which
`ResponsesAreLogged` and `OneCallAlwaysFits` follow, beside `ServingTypeCorrect`.

**Access tokens** (any users, chains, tokens, requests, any lifetime and skew).
`AccessInvariant`, then `AccessTypeCorrect`, `RevocationsHold`, `KilledChainsDie`. A killed
chain has no live token, so no issue on it can commit after the kill (`ChainInv`); every row
expires within lifetime and skew of now (`MintInv`), and of the kill if its chain is dead
(`KillInv`). `RequestInv` carries what held on arrival through the two reads.

**Rollout** (any number of releases, any texts and digests). `RotationKeepsFleetIn` is by
the invariant `FleetInv`; the work is in `AcceptedListIsRight`: a list of one entry per
wanted token that `parseIngestTokenHashes` accepts, and that has no hash of a foreign token in
it, has the right hash for every one of them, since every other mistyped entry is malformed or
the hash of the empty input.
`EmittedIsVerified` and `SignatureBindsFields` are by `ManifestInv`: a manifest is signed
over its own fields, which passed the checks, and, if it was made without a slip, by the key
pair it names. That a payload determines
its fields needs no induction over the texts: two texts that agree are cut at their last
line feed (`CutAtLast`, by comparing positions), which gives the last field, and so on for
each of the fixed number of fields (`JoinFixesFields`).

Only model-checked: liveness, which is out of the prover's reach (`EveryCallAnswered`,
`GoodBatchesSettle`, `EveryCallEnds`, `ShutdownEnds`), and the four runs that end in a
counterexample.

## 5. Plan

Modelled: rotation, login, ingestion, pool, the handlers with their middleware inside the
life of the process, access tokens over the chains, and the rollout of credentials. Proved:
the safety properties of all of them, and three refinements (`SessionChain`, `EventStore`,
`GracefulShutdown`). What is left:

1. An abstract account lock (a counter, a lock, atomic guesses) that `LoginLockout`
   implements, up to the calls past the gate.
2. That the chain moves of `AccessTokens` are those of `SessionChain`, as a refinement, so
   that its theorems carry over to `RefreshRotation` by composition.
3. That a pool call of `HttpServing` is a call of `RetryPool` with the details left out.

## 6. Not modelled, and why

- Cryptography, token encoding, JSON Schema contents, log lines: data without
  interleavings; the models keep their outcomes.
- Isolation anomalies beyond READ COMMITTED statements on the rows concerned: every
  statement here reads or writes rows by key or under the family lock.
- Generated query code: the SQL it is generated from is modelled.
- Password hashing and decoding (`password.go`): the outcomes are in `LoginLockout`.
- The seed and smoke commands, `contract.go`'s pin, secret redaction, `dsnHasMaxConns`,
  request ids, the rate limiters (whose only implementation allows everything): sequential,
  with no state that another part reads.
- Loss of committed data by PostgreSQL.
