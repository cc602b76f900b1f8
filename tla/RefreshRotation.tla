--------------------------- MODULE RefreshRotation ---------------------------
(***************************************************************************)
(* POST /v1/auth/refresh (internal/modules/auth/refresh.go, sql/auth.sql): *)
(* refresh-token rotation with replay detection.  Every request runs one   *)
(* READ COMMITTED transaction on one pooled connection.  The model has one *)
(* action per statement of that transaction; what a transaction writes     *)
(* stays private to it until Commit publishes it, and its locks and its    *)
(* connection are released when it ends.                                   *)
(*                                                                         *)
(* Time: `clock' is the database's clock.  SQL now() is the time at which  *)
(* the transaction STARTED, so db_now and used_at are start times.  The    *)
(* application's time.Now() is the database's clock plus the Skew of the   *)
(* instance serving the request.                                           *)
(***************************************************************************)
EXTENDS Naturals, FiniteSets

CONSTANTS
    Requests,    \* request slots: how many calls may be in flight at once
    Tokens,      \* refresh tokens (rows of refresh_tokens, named by selector)
    Families,    \* rotation chains (token_family)
    Skew,        \* [Requests -> Nat]: app clock ahead of the database's
    Leeway,      \* refreshReuseLeeway
    RefreshTTL,  \* refreshTokenTTL
    PoolSize,    \* MaxConns of the connection pool
    MaxClock,    \* bound: the last tick of the database's clock
    NoToken      \* "no row"

ASSUME SkewAssumption == Skew \in [Requests -> Nat]
ASSUME TimeAssumption == Leeway \in Nat /\ RefreshTTL \in Nat /\ MaxClock \in Nat
ASSUME PoolAssumption == PoolSize \in Nat \ {0} /\ IsFiniteSet(Requests)
ASSUME NoTokenAssumption == NoToken \notin Tokens
ASSUME FamilyAssumption == Families # {}

VARIABLES
    clock,
    \* committed tables: refresh_tokens (access_tokens rows come in pairs with them)
    inserted,    \* tokens with a row
    family,      \* token_family of a row
    parent,      \* history: the token whose rotation made this one (itself at login)
    used, usedAt,        \* used_at IS NOT NULL, and its value
    revoked,             \* revoked_at IS NOT NULL
    mintedAt,            \* app time of issue; expires_at = mintedAt + RefreshTTL
    \* the requests
    pc,          \* the next statement
    tok,         \* the selector presented
    verifier,    \* the verifier presented matches the stored hash
    reply,       \* the last answer given on this slot
    \* their transactions
    txStart,     \* SQL now()
    row,         \* the row as read FOR UPDATE
    appNow,      \* time.Now(), taken between steps (4) and (5)
    advisory,    \* advisory locks held (LockTokenFamily)
    held,        \* row locks held
    marked,      \* uncommitted MarkRefreshTokenUsed
    newTok,      \* uncommitted InsertRefreshToken (and InsertAccessToken)
    toRevoke,    \* rows RevokeTokenFamily has still to update
    touched      \* rows it has updated, uncommitted

table == <<inserted, family, parent, used, usedAt, revoked, mintedAt>>
call  == <<tok, verifier>>
locks == <<advisory, held>>
work  == <<txStart, row, appNow, marked, newTok, toRevoke, touched>>
vars  == <<clock, table, pc, call, reply, locks, work>>

-----------------------------------------------------------------------------
(* State predicates and helpers.                                           *)

Statements == {"preread", "lockFamily", "lockRow", "decide", "revokeScan",
               "revokeRows", "commitRevoke", "gateUser", "markUsed", "insert",
               "commitRotate"}

Rows == [used : BOOLEAN, usedAt : Nat, revoked : BOOLEAN, mintedAt : Nat]
NoRow == [used |-> FALSE, usedAt |-> 0, revoked |-> FALSE, mintedAt |-> 0]

\* The committed row of t, as a statement reads it now.
CurrentRow(t) == [used |-> t \in used, usedAt |-> usedAt[t],
                  revoked |-> t \in revoked, mintedAt |-> mintedAt[t]]

InTx(r) == pc[r] \in Statements
AppNow(r) == clock + Skew[r]
Members(f) == {t \in inserted : family[t] = f}
Live(f) == {t \in Members(f) : t \notin used /\ t \notin revoked}
Fresh(t) == t \notin inserted /\ \A r \in Requests : newTok[r] # t

\* Mutant: no family lock, as before it was introduced.
AdvisoryIgnored(r, f) == TRUE

\* A lock is granted when no other transaction holds it.
AdvisoryFree(r, f) == \A s \in Requests \ {r} : f \notin advisory[s]
RowFree(r, t) == \A s \in Requests \ {r} : t \notin held[s]

\* pool.Acquire: a connection is idle or may still be opened.
ConnAvailable == Cardinality({s \in Requests : InTx(s)}) < PoolSize

\* Mutant: the age of the use is measured by the app's clock.
WithinLeewayByAppClock(r) == AppNow(r) <= row[r].usedAt + Leeway

\* row.DbNow - row.UsedAt <= refreshReuseLeeway, both start times in DB time.
WithinLeeway(r) == txStart[r] <= row[r].usedAt + Leeway

\* !row.ExpiresAt.After(now), both app times.
Expired(r) == row[r].mintedAt + RefreshTTL <= AppNow(r)

\* Steps (4) and (5): a wrong or undecodable verifier, a revoked row.
Acceptable(r) == verifier[r] /\ ~row[r].revoked

\* Mutant: an expired token is not looked at as a replay, step (7) before (6).
ReplayedUnexpired(r) ==
    Acceptable(r) /\ row[r].used /\ ~WithinLeeway(r) /\ ~Expired(r)

\* Step (6): used, and not as the loser of a race; asked before step (7), so
\* that an expired token is still a replay.
Replayed(r) == Acceptable(r) /\ row[r].used /\ ~WithinLeeway(r)

\* Mutant: a reuse within the leeway is served instead of refused.
RotatableAgain(r) ==
    Acceptable(r) /\ (row[r].used => WithinLeeway(r)) /\ ~Expired(r)

\* Steps (6) and (7) passed: neither used nor expired.
Rotatable(r) == Acceptable(r) /\ ~row[r].used /\ ~Expired(r)

-----------------------------------------------------------------------------
(* Initial state: empty tables, idle requests.                             *)

Init ==
    /\ clock = 0
    /\ inserted = {} /\ used = {} /\ revoked = {}
    /\ family = [t \in Tokens |-> CHOOSE f \in Families : TRUE]  \* no row yet
    /\ parent = [t \in Tokens |-> t]
    /\ usedAt = [t \in Tokens |-> 0]
    /\ mintedAt = [t \in Tokens |-> 0]
    /\ pc = [r \in Requests |-> "idle"]
    /\ tok = [r \in Requests |-> NoToken]
    /\ verifier = [r \in Requests |-> FALSE]
    /\ reply = [r \in Requests |-> "none"]
    /\ txStart = [r \in Requests |-> 0]
    /\ row = [r \in Requests |-> NoRow]
    /\ appNow = [r \in Requests |-> 0]
    /\ advisory = [r \in Requests |-> {}]
    /\ held = [r \in Requests |-> {}]
    /\ marked = [r \in Requests |-> {}]
    /\ newTok = [r \in Requests |-> NoToken]
    /\ toRevoke = [r \in Requests |-> {}]
    /\ touched = [r \in Requests |-> {}]

-----------------------------------------------------------------------------
(* The environment.                                                        *)

Tick == /\ clock < MaxClock
        /\ clock' = clock + 1
        /\ UNCHANGED <<table, pc, call, reply, locks, work>>

\* A successful login starts a chain: persistSession commits its first row.
PersistSession(f, t, r) ==
    /\ Members(f) = {}
    /\ Fresh(t)
    /\ inserted' = inserted \union {t}
    /\ family' = [family EXCEPT ![t] = f]
    /\ mintedAt' = [mintedAt EXCEPT ![t] = AppNow(r)]
    /\ UNCHANGED <<clock, parent, used, usedAt, revoked, pc, call,
                   reply, locks, work>>

\* A request arrives: any selector, known or not, with a right or wrong verifier.
Arrive(r, t, v) ==
    /\ pc[r] = "idle"
    /\ tok' = [tok EXCEPT ![r] = t]
    /\ verifier' = [verifier EXCEPT ![r] = v]
    /\ reply' = [reply EXCEPT ![r] = "none"]
    /\ pc' = [pc EXCEPT ![r] = "begin"]
    /\ UNCHANGED <<clock, table, locks, work>>

\* A body that does not decode is a 400, a token without separator a 401; neither
\* reaches the database.
RejectMalformed(r, code) ==
    /\ pc[r] = "idle"
    /\ reply' = [reply EXCEPT ![r] = code]
    /\ UNCHANGED <<clock, table, pc, call, locks, work>>

-----------------------------------------------------------------------------
(* Mutant: a session-level advisory lock, which the end of the transaction  *)
(* does not release.                                                       *)
FinishKeepingAdvisory(r, code) ==
    /\ pc' = [pc EXCEPT ![r] = "idle"]
    /\ reply' = [reply EXCEPT ![r] = code]
    /\ tok' = [tok EXCEPT ![r] = NoToken]
    /\ held' = [held EXCEPT ![r] = {}]
    /\ marked' = [marked EXCEPT ![r] = {}]
    /\ newTok' = [newTok EXCEPT ![r] = NoToken]
    /\ toRevoke' = [toRevoke EXCEPT ![r] = {}]
    /\ touched' = [touched EXCEPT ![r] = {}]
    /\ UNCHANGED <<verifier, txStart, row, appNow, advisory>>

(* The end of a call: the transaction's locks, its connection and its      *)
(* private writes go; only what Commit published stays.                    *)

Finish(r, code) ==
    /\ pc' = [pc EXCEPT ![r] = "idle"]
    /\ reply' = [reply EXCEPT ![r] = code]
    /\ tok' = [tok EXCEPT ![r] = NoToken]
    /\ verifier' = [verifier EXCEPT ![r] = FALSE]
    /\ txStart' = [txStart EXCEPT ![r] = 0]
    /\ row' = [row EXCEPT ![r] = NoRow]
    /\ appNow' = [appNow EXCEPT ![r] = 0]
    /\ advisory' = [advisory EXCEPT ![r] = {}]
    /\ held' = [held EXCEPT ![r] = {}]
    /\ marked' = [marked EXCEPT ![r] = {}]
    /\ newTok' = [newTok EXCEPT ![r] = NoToken]
    /\ toRevoke' = [toRevoke EXCEPT ![r] = {}]
    /\ touched' = [touched EXCEPT ![r] = {}]

\* A credential failure: deferred Rollback, 401.
Reject(r) == Finish(r, "401") /\ UNCHANGED <<clock, table>>

\* Any statement, the CSPRNG or Commit fails, the caller goes away or the
\* instance dies: rollback, 500 (or nobody left to answer).
Abort(r) ==
    /\ pc[r] # "idle"
    /\ Finish(r, "500")
    /\ UNCHANGED <<clock, table>>

Goto(r, stmt) == pc' = [pc EXCEPT ![r] = stmt]

-----------------------------------------------------------------------------
(* rotateRefresh, statement by statement.                                  *)

\* h.db.Begin: waits for a connection; SQL now() is fixed here.
Begin(r) ==
    /\ pc[r] = "begin"
    /\ ConnAvailable
    /\ txStart' = [txStart EXCEPT ![r] = clock]
    /\ Goto(r, "preread")
    /\ UNCHANGED <<clock, table, call, reply, locks, row, appNow,
                   marked, newTok, toRevoke, touched>>

\* (1) GetRefreshTokenBySelector: only the immutable token_family is kept.
Preread(r) ==
    /\ pc[r] = "preread"
    /\ \/ tok[r] \notin inserted /\ Reject(r)
       \/ /\ tok[r] \in inserted
          /\ Goto(r, "lockFamily")
          /\ UNCHANGED <<clock, table, call, reply, locks, work>>

\* (2) LockTokenFamily: waits for the family's advisory lock.
LockTokenFamily(r) ==
    /\ pc[r] = "lockFamily"
    /\ AdvisoryFree(r, family[tok[r]])
    /\ advisory' = [advisory EXCEPT ![r] = {family[tok[r]]}]
    /\ Goto(r, "lockRow")
    /\ UNCHANGED <<clock, table, call, reply, held, work>>

\* (3) GetRefreshTokenBySelectorForUpdate: waits for the row lock, then reads
\* the latest committed row.  There is one: nothing in the program deletes a row, so the
\* branch for ErrNoRows (a user deleted by hand, which cascades) is left out.
LockRow(r) ==
    /\ pc[r] = "lockRow"
    /\ RowFree(r, tok[r])
    /\ held' = [held EXCEPT ![r] = {tok[r]}]
    /\ row' = [row EXCEPT ![r] = CurrentRow(tok[r])]
    /\ Goto(r, "decide")
    /\ UNCHANGED <<clock, table, call, reply, advisory, txStart, appNow,
                   marked, newTok, toRevoke, touched>>

\* (4)-(7) on the row read under the lock.
Decide(r) ==
    /\ pc[r] = "decide"
    /\ \/ ~Replayed(r) /\ ~Rotatable(r) /\ Reject(r)
       \/ /\ Replayed(r)
          /\ Goto(r, "revokeScan")
          /\ UNCHANGED <<clock, table, call, reply, locks, work>>
       \/ /\ Rotatable(r)
          /\ appNow' = [appNow EXCEPT ![r] = AppNow(r)]
          /\ Goto(r, "gateUser")
          /\ UNCHANGED <<clock, table, call, reply, locks, txStart, row,
                         marked, newTok, toRevoke, touched>>

\* Mutant: the UPDATE also asks for used_at IS NULL.
RevokeScanUnused(r) ==
    /\ pc[r] = "revokeScan"
    /\ toRevoke' = [toRevoke EXCEPT ![r] = Live(family[tok[r]])]
    /\ Goto(r, "revokeRows")
    /\ UNCHANGED <<clock, table, call, reply, locks, txStart, row,
                   appNow, marked, newTok, touched>>

\* RevokeTokenFamily: the UPDATE's snapshot selects the committed unrevoked
\* rows of the family ...
RevokeScan(r) ==
    /\ pc[r] = "revokeScan"
    /\ toRevoke' = [toRevoke EXCEPT ![r] = Members(family[tok[r]]) \ revoked]
    /\ Goto(r, "revokeRows")
    /\ UNCHANGED <<clock, table, call, reply, locks, txStart, row,
                   appNow, marked, newTok, touched>>

\* ... then locks and updates them one by one, skipping a row that another
\* transaction has revoked while this one waited for its lock.
RevokeRow(r, t) ==
    /\ pc[r] = "revokeRows"
    /\ t \in toRevoke[r]
    /\ RowFree(r, t)
    /\ toRevoke' = [toRevoke EXCEPT ![r] = @ \ {t}]
    /\ IF t \in revoked
       THEN UNCHANGED <<held, touched>>
       ELSE /\ held' = [held EXCEPT ![r] = @ \union {t}]
            /\ touched' = [touched EXCEPT ![r] = @ \union {t}]
    /\ UNCHANGED <<clock, table, pc, call, reply, advisory, txStart,
                   row, appNow, marked, newTok>>

RevokeDone(r) ==
    /\ pc[r] = "revokeRows"
    /\ toRevoke[r] = {}
    /\ Goto(r, "commitRevoke")
    /\ UNCHANGED <<clock, table, call, reply, locks, work>>

\* Mutant: only the presented token is revoked.
CommitRevokeOne(r, code) ==
    /\ pc[r] = "commitRevoke"
    /\ revoked' = revoked \union {tok[r]}
    /\ Finish(r, code)
    /\ UNCHANGED <<clock, inserted, family, parent, used, usedAt, mintedAt>>

\* Commit of the revocation.  The answer is 401, or 500 when the reply to
\* COMMIT is lost after it took effect.
CommitRevoke(r, code) ==
    /\ pc[r] = "commitRevoke"
    /\ revoked' = revoked \union touched[r]
    /\ Finish(r, code)
    /\ UNCHANGED <<clock, inserted, family, parent, used, usedAt, mintedAt>>

\* (8) GetUserByID: a vanished or disabled user is a 401.  Operators change users
\* at any time, so the statement may find either.
GateUser(r) ==
    /\ pc[r] = "gateUser"
    /\ \/ Reject(r)
       \/ /\ Goto(r, "markUsed")
          /\ UNCHANGED <<clock, table, call, reply, locks, work>>

\* Mutant: the mark is written outside the transaction (h.q instead of qtx).
MarkUsedOutsideTx(r) ==
    /\ pc[r] = "markUsed"
    /\ used' = used \union {tok[r]}
    /\ usedAt' = [usedAt EXCEPT ![tok[r]] = txStart[r]]
    /\ Goto(r, "insert")
    /\ UNCHANGED <<clock, inserted, family, parent, revoked, mintedAt, call, reply,
                   locks, work>>

\* (9) MarkRefreshTokenUsed: uncommitted, on the row whose lock is held.
MarkUsed(r) ==
    /\ pc[r] = "markUsed"
    /\ marked' = [marked EXCEPT ![r] = {tok[r]}]
    /\ Goto(r, "insert")
    /\ UNCHANGED <<clock, table, call, reply, locks, txStart, row, appNow,
                   newTok, toRevoke, touched>>

\* Mutant: the transaction commits without the new row.
InsertForgotten(r, t) ==
    /\ pc[r] = "insert"
    /\ Goto(r, "commitRotate")
    /\ UNCHANGED <<clock, table, call, reply, locks, work>>

\* newAccessToken, newRefreshToken, InsertRefreshToken, InsertAccessToken.
Insert(r, t) ==
    /\ pc[r] = "insert"
    /\ Fresh(t)
    /\ newTok' = [newTok EXCEPT ![r] = t]
    /\ Goto(r, "commitRotate")
    /\ UNCHANGED <<clock, table, call, reply, locks, txStart, row,
                   appNow, marked, toRevoke, touched>>

\* Bound: when Tokens is used up, newRefreshToken fails (its CSPRNG error path).
MintFails(r) ==
    /\ pc[r] = "insert"
    /\ \A t \in Tokens : ~Fresh(t)
    /\ Abort(r)

\* Commit of the rotation: the mark and the new rows appear together.
CommitRotate(r, code) ==
    /\ pc[r] = "commitRotate"
    /\ used' = used \union marked[r]
    /\ usedAt' = [t \in Tokens |-> IF t \in marked[r] THEN txStart[r] ELSE usedAt[t]]
    /\ inserted' = inserted \union {newTok[r]}
    /\ family' = [family EXCEPT ![newTok[r]] = family[tok[r]]]
    /\ parent' = [parent EXCEPT ![newTok[r]] = tok[r]]
    /\ mintedAt' = [mintedAt EXCEPT ![newTok[r]] = appNow[r]]
    /\ Finish(r, code)
    /\ UNCHANGED <<clock, revoked>>

-----------------------------------------------------------------------------
(* The specification.                                                      *)

Step(r) ==
    \/ Begin(r) \/ Preread(r) \/ LockTokenFamily(r) \/ LockRow(r) \/ Decide(r)
    \/ RevokeScan(r) \/ (\E t \in Tokens : RevokeRow(r, t)) \/ RevokeDone(r)
    \/ \E code \in {"401", "500"} : CommitRevoke(r, code)
    \/ GateUser(r) \/ MarkUsed(r) \/ (\E t \in Tokens : Insert(r, t)) \/ MintFails(r)
    \/ \E code \in {"200", "500"} : CommitRotate(r, code)

Environment ==
    \/ Tick
    \/ \E f \in Families, t \in Tokens, r \in Requests : PersistSession(f, t, r)
    \/ \E r \in Requests :
          \/ \E t \in Tokens, v \in BOOLEAN : Arrive(r, t, v)
          \/ \E code \in {"400", "401"} : RejectMalformed(r, code)
          \/ Abort(r)

Next == Environment \/ \E r \in Requests : Step(r)

Spec == Init /\ [][Next]_vars

-----------------------------------------------------------------------------
(* Properties.                                                             *)

TypeOK ==
    /\ clock \in Nat
    /\ inserted \in SUBSET Tokens /\ used \in SUBSET Tokens /\ revoked \in SUBSET Tokens
    /\ family \in [Tokens -> Families]
    /\ parent \in [Tokens -> Tokens]
    /\ usedAt \in [Tokens -> Nat] /\ mintedAt \in [Tokens -> Nat]
    /\ pc \in [Requests -> Statements \union {"idle", "begin"}]
    /\ tok \in [Requests -> Tokens \union {NoToken}]
    /\ \A r \in Requests : pc[r] # "idle" => tok[r] \in Tokens
    /\ verifier \in [Requests -> BOOLEAN]
    /\ reply \in [Requests -> {"none", "200", "400", "401", "500"}]
    /\ txStart \in [Requests -> Nat] /\ row \in [Requests -> Rows]
    /\ appNow \in [Requests -> Nat]
    /\ advisory \in [Requests -> SUBSET Families]
    /\ held \in [Requests -> SUBSET Tokens]
    /\ marked \in [Requests -> SUBSET Tokens]
    /\ newTok \in [Requests -> Tokens \union {NoToken}]
    /\ \A r \in Requests : pc[r] = "commitRotate" => newTok[r] \in Tokens
    /\ toRevoke \in [Requests -> SUBSET Tokens]
    /\ touched \in [Requests -> SUBSET Tokens]

\* A chain that was never revoked has exactly one live (unused, unrevoked) token,
\* whatever rotations of it were in flight, failed or raced: no double spend
\* forks it (AC6), no failed rotation leaves it without a token (AC15).
OneLiveToken ==
    \A f \in Families :
        Members(f) # {} /\ Members(f) \intersect revoked = {}
            => \E t \in Tokens : Live(f) = {t}

\* A revocation leaves no token of the chain behind: a rotation that commits
\* around a family-wide revoke never inserts a row that escapes it (AC5/E3).
RevocationComplete ==
    \A s, t \in inserted : family[s] = family[t] /\ s \in revoked => t \in revoked

\* A token is consumed exactly when it has its one committed successor in its
\* own family: never half-consumed, never rotated twice (AC15/AC6).
AtomicRotation ==
    \A t \in inserted :
        LET children == {c \in inserted \ {t} : parent[c] = t}
        IN  /\ t \in used <=> children # {}
            /\ \A c, d \in children : c = d /\ family[c] = family[t]

\* r cannot move before some request of S does.
WaitsOn(r, S) ==
    \/ pc[r] = "begin" /\ ~ConnAvailable /\ \A s \in Requests : InTx(s) => s \in S
    \/ pc[r] = "lockFamily" /\ \E s \in S \ {r} : family[tok[r]] \in advisory[s]
    \/ pc[r] = "lockRow" /\ \E s \in S \ {r} : tok[r] \in held[s]
    \/ /\ pc[r] = "revokeRows" /\ toRevoke[r] # {}
       /\ \A t \in toRevoke[r] : \E s \in S \ {r} : t \in held[s]

\* No set of requests is waiting on itself, through advisory locks, row locks and
\* pooled connections together: two replays of one family never deadlock.
NoDeadlock ==
    \A S \in SUBSET Requests : S # {} => \E r \in S : ~WaitsOn(r, S)

\* r presents, with the right verifier, a token consumed more than the leeway
\* before its own transaction began.
IsReplay(r) ==
    /\ verifier[r]
    /\ tok[r] \in used
    /\ txStart[r] > usedAt[tok[r]] + Leeway

\* Every replay that is answered 401 has killed its family, even when the
\* token has expired meanwhile (step (6) comes before step (7)).
ReplayKillsFamily ==
    [][\A r \in Requests :
          InTx(r) /\ IsReplay(r) /\ pc'[r] = "idle" /\ reply'[r] = "401"
              => Members(family[tok[r]]) \subseteq revoked']_vars

\* Nothing but a replay revokes a token: a loser whose transaction began within
\* the leeway of the winner's never does, however long it waited for locks
\* and whatever the app's clock says (AC6).
OnlyReplayRevokes ==
    [][\A t \in revoked' \ revoked :
          \E r \in Requests : InTx(r) /\ IsReplay(r) /\ family[tok[r]] = family[t]]_vars

\* The stages in which a transaction holds its family's advisory lock, and those
\* in which it has passed the verdict one way or the other.
FamilyLocked == Statements \ {"preread", "lockFamily"}
Rotating == {"gateUser", "markUsed", "insert", "commitRotate"}
Revoking == {"revokeScan", "revokeRows", "commitRevoke"}

\* Advisory lock first, row locks inside the locked family only.
LocksOK(r) ==
    /\ InTx(r) /\ pc[r] # "preread" => tok[r] \in inserted
    /\ advisory[r] = IF pc[r] \in FamilyLocked THEN {family[tok[r]]} ELSE {}
    /\ held[r] # {} => pc[r] \in FamilyLocked \ {"lockRow"}
    /\ \A t \in held[r] : t \in inserted /\ family[t] = family[tok[r]]

\* What was read under the family lock is still true, and what a transaction is
\* about to publish fits the tables it will be published into.
WorkOK(r) ==
    /\ pc[r] = "decide" => row[r] = CurrentRow(tok[r])
    /\ pc[r] \in Rotating \union Revoking => tok[r] \notin revoked
    /\ pc[r] \in Rotating => tok[r] \notin used
    /\ pc[r] \in Revoking => IsReplay(r)
    /\ marked[r] = IF pc[r] \in {"insert", "commitRotate"} THEN {tok[r]} ELSE {}
    /\ newTok[r] # NoToken => pc[r] = "commitRotate" /\ newTok[r] \notin inserted
    /\ toRevoke[r] \union touched[r] =
          IF pc[r] \in {"revokeRows", "commitRevoke"}
          THEN Members(family[tok[r]]) ELSE {}
    /\ pc[r] = "commitRevoke" => toRevoke[r] = {}

\* One transaction at a time per family, one uncommitted row per fresh token.
Exclusive ==
    \A r, s \in Requests : r # s =>
        /\ pc[r] \in FamilyLocked /\ pc[s] \in FamilyLocked
              => family[tok[r]] # family[tok[s]]
        /\ newTok[r] # NoToken => newTok[s] # newTok[r]

\* Rows that are referred to exist, and a successor stays in its family.
TableInv ==
    /\ used \subseteq inserted /\ revoked \subseteq inserted
    /\ \A t \in Tokens :
          IF t \in inserted
          THEN parent[t] \in inserted /\ family[parent[t]] = family[t]
          ELSE parent[t] = t

\* The inductive invariant: what a transaction knows about its family holds
\* until it ends, because it holds the family's advisory lock.
RotationInv ==
    /\ TypeOK /\ TableInv /\ Exclusive
    /\ \A r \in Requests : LocksOK(r) /\ WorkOK(r)
    /\ OneLiveToken /\ RevocationComplete /\ AtomicRotation

\* What the endpoint promises: the abstract chain of SessionChain.
Chain == INSTANCE SessionChain WITH
    live <- [f \in Families |-> Live(f)],
    spent <- inserted \intersect (used \union revoked),
    killed <- {f \in Families : Members(f) \intersect revoked # {}}
ImplementsChain == Chain!Spec

\* Fairness: a request's goroutine keeps running, and what its next statement may wait for
\* (a connection, the advisory lock, a row lock) is granted in arrival order, so that no
\* waiter is passed by for ever.  A request is at one statement at a time, so strong fairness
\* of Step is strong fairness of each statement.
Fairness == \A r \in Requests : SF_vars(Step(r))

FairSpec == Spec /\ Fairness

\* Every call is answered, though rotations and replays of one family contend for its advisory
\* lock.
EveryCallAnswered == \A r \in Requests : pc[r] = "begin" ~> pc[r] = "idle"
=============================================================================
