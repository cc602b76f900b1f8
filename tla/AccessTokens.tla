---------------------------- MODULE AccessTokens ----------------------------
(***************************************************************************)
(* The access tokens and BearerMiddleware, which checks one on every       *)
(* request to a protected route (internal/modules/auth/middleware.go).     *)
(* The rotation chains the tokens are issued along are those of            *)
(* SessionChain, which RefreshRotation implements; here each move of a     *)
(* chain also writes its access_tokens row.  Logins and rotations read the *)
(* user's status and the clock some time before they commit; a rotation    *)
(* and a replay of one family exclude each other (LockTokenFamily).        *)
(*                                                                         *)
(* `now' is the clock of the instance furthest behind; time.Now() of an    *)
(* instance is up to Skew ahead of it.                                     *)
(***************************************************************************)
EXTENDS Naturals

CONSTANTS
    Users, Families, Tokens,   \* Tokens: refresh tokens
    Owner,       \* [Families -> Users]: refresh_tokens.user_id
    Access,      \* access tokens (rows of access_tokens, named by hash)
    Requests,    \* request slots
    AccessTTL,   \* accessTokenTTL
    Skew,        \* how far two instances' clocks are apart
    MaxClock,    \* bound: the last tick
    NoToken,     \* a credential that is the hash of no row, or no credential
    NotMinting   \* no session of this family is being issued

ASSUME OwnerAssumption == Owner \in [Families -> Users]
ASSUME ClockAssumption == {AccessTTL, Skew, MaxClock} \subseteq Nat
ASSUME NoneAssumption == NoToken \notin Access /\ NotMinting \notin Nat

VARIABLES
    now,
    active,      \* users.status = 'active'
    live, spent, killed,   \* the chains (SessionChain)
    killedAt,    \* history: when a chain was killed
    mintAt,      \* the time.Now() of the login or rotation under way
    inserted, famOf, expires, revoked,   \* access_tokens; famOf is history
    pc, tok,     \* the requests: next step, token presented
    arrival      \* history: the time, and what held of the token and its user

chains == <<live, spent, killed>>
rows == <<inserted, famOf, expires, revoked>>
requests == <<pc, tok, arrival>>
vars == <<now, active, chains, killedAt, mintAt, rows, requests>>

Chain == INSTANCE SessionChain

AppClock == now..(now + Skew)
UserOf(a) == Owner[famOf[a]]

Init ==
    /\ now = 0
    /\ active = Users
    /\ Chain!Init
    /\ killedAt = [f \in Families |-> 0]
    /\ mintAt = [f \in Families |-> NotMinting]
    /\ inserted = {} /\ revoked = {}
    /\ famOf \in {[a \in Access |-> f] : f \in Families}
    /\ expires = [a \in Access |-> 0]
    /\ pc = [r \in Requests |-> "idle"]
    /\ tok = [r \in Requests |-> NoToken]
    /\ arrival = [r \in Requests |-> [at |-> 0, revoked |-> FALSE, active |-> FALSE]]

-----------------------------------------------------------------------------
(* Sessions are issued.                                                    *)

\* Mutant: the token expires with the chain, not on its own short clock.
InsertLongAccessToken(a, f) ==
    /\ a \notin inserted
    /\ inserted' = inserted \union {a}
    /\ famOf' = [famOf EXCEPT ![a] = f]
    /\ expires' = [expires EXCEPT ![a] = mintAt[f] + 2 * AccessTTL]
    /\ UNCHANGED revoked

InsertAccessToken(a, f) ==
    /\ a \notin inserted
    /\ inserted' = inserted \union {a}
    /\ famOf' = [famOf EXCEPT ![a] = f]
    /\ expires' = [expires EXCEPT ![a] = mintAt[f] + AccessTTL]
    /\ UNCHANGED revoked

\* The password and the status of a login have been checked; issueSession begins.
LoginPasses(f, clk) ==
    /\ mintAt[f] = NotMinting /\ live[f] = {} /\ f \notin killed
    /\ Owner[f] \in active
    /\ mintAt' = [mintAt EXCEPT ![f] = clk]
    /\ UNCHANGED <<now, active, chains, killedAt, rows, requests>>

\* persistSession: both rows in one transaction.
IssueSession(f, t, a) ==
    /\ mintAt[f] # NotMinting
    /\ Chain!Open(f, t)
    /\ InsertAccessToken(a, f)
    /\ mintAt' = [mintAt EXCEPT ![f] = NotMinting]
    /\ UNCHANGED <<now, active, killedAt, requests>>

\* rotateRefresh holds the family's lock and has checked its live token and the user.
RotateBegins(f, clk) ==
    /\ mintAt[f] = NotMinting /\ live[f] # {}
    /\ Owner[f] \in active
    /\ mintAt' = [mintAt EXCEPT ![f] = clk]
    /\ UNCHANGED <<now, active, chains, killedAt, rows, requests>>

\* The rotation commits: used_at, the new refresh row and the new access row.
RotateCommits(f, t, a) ==
    /\ mintAt[f] # NotMinting
    /\ \E s \in live[f] : Chain!Rotate(f, s, t)
    /\ InsertAccessToken(a, f)
    /\ mintAt' = [mintAt EXCEPT ![f] = NotMinting]
    /\ UNCHANGED <<now, active, killedAt, requests>>

\* The login or the rotation fails and is rolled back.
MintFails(f) ==
    /\ mintAt[f] # NotMinting
    /\ mintAt' = [mintAt EXCEPT ![f] = NotMinting]
    /\ UNCHANGED <<now, active, chains, killedAt, rows, requests>>

\* A used token is replayed: RevokeTokenFamily, which leaves access_tokens alone.
Replay(f) ==
    /\ mintAt[f] = NotMinting
    /\ \E a, b \in inserted : a # b /\ famOf[a] = f /\ famOf[b] = f
    /\ Chain!Kill(f)
    /\ killedAt' = [killedAt EXCEPT ![f] = now]
    /\ UNCHANGED <<now, active, mintAt, rows, requests>>

-----------------------------------------------------------------------------
(* Operators withdraw access.                                              *)

\* Mutant: whatever the id names is marked.
RevokeUnissued(a) ==
    /\ revoked' = revoked \union {a}
    /\ UNCHANGED <<now, active, chains, killedAt, mintAt, inserted, famOf, expires, requests>>

RevokeAccessToken(a) ==
    /\ a \in inserted
    /\ revoked' = revoked \union {a}
    /\ UNCHANGED <<now, active, chains, killedAt, mintAt, inserted, famOf, expires, requests>>

\* users.status is edited by hand; requests in flight have now seen the user active.
SetStatus(u) ==
    /\ active' = IF u \in active THEN active \ {u} ELSE active \union {u}
    /\ arrival' = [r \in Requests |->
         IF tok[r] # NoToken /\ UserOf(tok[r]) \in active'
         THEN [arrival[r] EXCEPT !.active = TRUE] ELSE arrival[r]]
    /\ UNCHANGED <<now, chains, killedAt, mintAt, rows, pc, tok>>

-----------------------------------------------------------------------------
(* BearerMiddleware.  Every refusal is the same 401.                       *)

\* A request comes in with an issued token or with anything else.
Present(r, t) ==
    /\ pc[r] = "idle"
    /\ pc' = [pc EXCEPT ![r] = IF t = NoToken THEN "refused" ELSE "lookup"]
    /\ tok' = [tok EXCEPT ![r] = t]
    /\ arrival' = [arrival EXCEPT ![r] =
         [at |-> now, revoked |-> t \in revoked,
          active |-> t # NoToken /\ UserOf(t) \in active]]
    /\ UNCHANGED <<now, active, chains, killedAt, mintAt, rows>>

\* (3) and (4): the row, its revoked_at and its expires_at.  An error reading it refuses.
Lookup(r, clk, fails) ==
    /\ pc[r] = "lookup"
    /\ pc' = [pc EXCEPT ![r] =
         IF fails \/ tok[r] \in revoked \/ clk >= expires[tok[r]] THEN "refused" ELSE "user"]
    /\ UNCHANGED <<now, active, chains, killedAt, mintAt, rows, tok, arrival>>

\* Mutant: only a missing user is refused.
ReadUserUnchecked(r, fails) ==
    /\ pc[r] = "user"
    /\ pc' = [pc EXCEPT ![r] = IF fails THEN "refused" ELSE "in"]
    /\ UNCHANGED <<now, active, chains, killedAt, mintAt, rows, tok, arrival>>

\* (5): a second read, of the owning user's status.
ReadUser(r, fails) ==
    /\ pc[r] = "user"
    /\ pc' = [pc EXCEPT ![r] =
         IF fails \/ UserOf(tok[r]) \notin active THEN "refused" ELSE "in"]
    /\ UNCHANGED <<now, active, chains, killedAt, mintAt, rows, tok, arrival>>

\* The handler behind the middleware, or the 401, has been served.
Served(r) ==
    /\ pc[r] \in {"in", "refused"}
    /\ pc' = [pc EXCEPT ![r] = "idle"]
    /\ tok' = [tok EXCEPT ![r] = NoToken]
    /\ arrival' = [arrival EXCEPT ![r] = [at |-> 0, revoked |-> FALSE, active |-> FALSE]]
    /\ UNCHANGED <<now, active, chains, killedAt, mintAt, rows>>

Tick ==
    /\ now < MaxClock
    /\ now' = now + 1
    /\ UNCHANGED <<active, chains, killedAt, mintAt, rows, requests>>

Next ==
    \/ \E f \in Families :
          \/ \E clk \in AppClock : LoginPasses(f, clk) \/ RotateBegins(f, clk)
          \/ \E t \in Tokens, a \in Access : IssueSession(f, t, a) \/ RotateCommits(f, t, a)
          \/ MintFails(f) \/ Replay(f)
    \/ \E a \in Access : RevokeAccessToken(a)
    \/ \E u \in Users : SetStatus(u)
    \/ \E r \in Requests :
          \/ \E t \in inserted \union {NoToken} : Present(r, t)
          \/ \E clk \in AppClock, fails \in BOOLEAN : Lookup(r, clk, fails)
          \/ \E fails \in BOOLEAN : ReadUser(r, fails)
          \/ Served(r)
    \/ Tick

Spec == Init /\ [][Next]_vars

-----------------------------------------------------------------------------
(* Properties.                                                             *)

TypeOK ==
    /\ now \in 0..MaxClock /\ active \subseteq Users
    /\ live \in [Families -> SUBSET Tokens] /\ spent \subseteq Tokens /\ killed \subseteq Families
    /\ killedAt \in [Families -> 0..MaxClock]
    /\ mintAt \in [Families -> Nat \union {NotMinting}]
    /\ inserted \subseteq Access /\ revoked \subseteq inserted
    /\ famOf \in [Access -> Families] /\ expires \in [Access -> Nat]
    /\ pc \in [Requests -> {"idle", "lookup", "user", "in", "refused"}]
    /\ tok \in [Requests -> inserted \union {NoToken}]
    /\ arrival \in [Requests -> [at : 0..MaxClock, revoked : BOOLEAN, active : BOOLEAN]]

\* A request that comes in after its token was revoked or has expired, or whose user is
\* disabled for as long as it runs, does not get through, although the token and the
\* user are read one after the other.
RevocationImmediate ==
    \A r \in Requests : pc[r] = "in" =>
        /\ ~arrival[r].revoked
        /\ arrival[r].active
        /\ arrival[r].at < expires[tok[r]]

\* A chain that was killed by a replay keeps its access tokens, but lets no request in
\* that arrives a full AccessTTL (and the clock skew) after the kill.
KilledChainDies ==
    \A r \in Requests : pc[r] = "in" /\ famOf[tok[r]] \in killed =>
        arrival[r].at < killedAt[famOf[tok[r]]] + AccessTTL + Skew
=============================================================================
