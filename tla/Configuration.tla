--------------------------- MODULE Configuration ---------------------------
(***************************************************************************)
(* What a process accepts as its configuration when it starts              *)
(* (internal/platform/config/config.go), and how the verifier of           *)
(* POST /v1/events uses it.  A token is a number, 0 the empty string that  *)
(* a missing header reads as; SHA-256 is taken to be injective.  `form'    *)
(* tells the 64 lower-case hex digits from everything else an operator may *)
(* write: upper case, a wrong length, nothing after a comma.               *)
(***************************************************************************)
EXTENDS Naturals, Sequences, Functions

NoHeader == 0

HashIngestToken(token) == [sha256 |-> token, form |-> "lower64"]
emptyInputSHA256 == HashIngestToken(NoHeader)
MatchesRe(h) == h.form = "lower64"

Refused == [ok |-> FALSE, hashes |-> {}]

\* Mutant: the hash of the empty input passes.
ParseAnyWellFormed(raw) ==
    IF Len(raw) <= 2 /\ \A h \in Range(raw) : MatchesRe(h)
    THEN [ok |-> TRUE, hashes |-> Range(raw)]
    ELSE Refused

\* The entries of EVENTS_INGEST_TOKEN_SHA256S; none for a blank value.
ParseIngestTokenHashes(raw) ==
    IF Len(raw) <= 2 /\ \A h \in Range(raw) : MatchesRe(h) /\ h # emptyInputSHA256
    THEN [ok |-> TRUE, hashes |-> Range(raw)]
    ELSE Refused

\* Load: a process with a bad configuration does not start.
Load(env) ==
    LET ingest == ParseIngestTokenHashes(env.raw)
    IN  [ok |-> env.dsn /\ ingest.ok /\ (env.enabled => ingest.hashes # {}),
         enabled |-> env.enabled, hashes |-> ingest.hashes]

\* IngestVerifier, over the hashes captured when the routes are assembled.
IngestTokenMatches(config, token) == HashIngestToken(token) \in config.hashes

\* run mounts POST /v1/events behind that verifier, if at all.
Admits(config, token) == config.enabled /\ IngestTokenMatches(config, token)
=============================================================================
