------------------------- MODULE CredentialRollout -------------------------
(***************************************************************************)
(* Rolling new credentials out to apps already in the field.  Release v of *)
(* the app ships the ingest token v and the public key v and drops the old *)
(* ones.  Operators follow docs/DEPLOY.md 15.3 and the order of            *)
(* offlinesig/contract/v2-signature-contract.md, section 3: a token is     *)
(* accepted by every revision that takes traffic before an app ships it    *)
(* and until no app uses it, and a key is active only once an app ships    *)
(* it.  They make mistakes all the same: they mistype hashes, hash an      *)
(* unset variable or a line with its newline, list too many, run           *)
(* -sign-active with the wrong key, a key put together from two, a wrong   *)
(* record of what was published, or bad fields.  What the code refuses     *)
(* then, and what it cannot see, is what is checked here.                  *)
(*                                                                         *)
(* Cloud Run (external): a revision that does not start gets no traffic;   *)
(* during a rollout the new revision and the old one both have some.       *)
(***************************************************************************)
EXTENDS Configuration, OfflineSigning, FiniteSets, SequencesExt

CONSTANTS
    MaxRelease,  \* bound: releases of the app
    Texts,       \* values of the free-text fields
    Digests      \* values of the digest flag

ASSUME ReleaseAssumption == MaxRelease \in Nat \ {0}
ASSUME FieldAssumption == \A s \in Texts \union Digests : s \in Seq(Range(s))

VARIABLES
    release,     \* the newest app
    installs,    \* the releases still in use
    serving,     \* the configurations of the revisions with traffic
    manifest,    \* the last active.json emitted, or NoManifest
    audience,    \* history: installs when it was emitted
    slips        \* history: what was wrong with the keys it was made from

vars == <<release, installs, serving, manifest, audience, slips>>
signed == <<manifest, audience, slips>>

Releases == 1..MaxRelease
AppKeys(v) == {v}

Init ==
    /\ release = 1 /\ installs = {1}
    /\ serving = {[ok |-> TRUE, enabled |-> FALSE, hashes |-> {}]}
    /\ manifest = NoManifest /\ audience = {} /\ slips = {}

-----------------------------------------------------------------------------
(* The fleet.                                                              *)

\* A new app ships once every revision accepts its token.
Release ==
    /\ release < MaxRelease
    /\ \A c \in serving : IngestTokenMatches(c, release + 1)
    /\ release' = release + 1
    /\ installs' = installs \union {release + 1}
    /\ UNCHANGED <<serving, signed>>

\* The last user of an old release updates.
Migrate(v) ==
    /\ v \in installs /\ v < release
    /\ installs' = installs \ {v}
    /\ UNCHANGED <<release, serving, signed>>

-----------------------------------------------------------------------------
(* The service.                                                            *)

\* A token no app has: what a hash with a wrong digit in it, or one taken of the token and a
\* newline, is the hash of.
Foreign == MaxRelease + 2

\* What an operator writes for the hash of token t, rightly or wrongly.
Typed(t) ==
    {HashIngestToken(t), HashIngestToken(Foreign), emptyInputSHA256,
     [sha256 |-> t, form |-> "other"]}

\* The lists for a set of tokens, a blank value among them.
TypedLists(tokens) ==
    LET s == SetToSeq(tokens) IN
    {<<>>} \union {l \in [DOMAIN s -> UNION {Typed(t) : t \in tokens}] :
                      \A i \in DOMAIN s : l[i] \in Typed(s[i])}

\* The tokens an operator wants accepted: those in use and, at times, the next.
Wanted == {installs, installs \union {release + 1}}

\* The environment is edited and a revision is started with it.
Redeploy(env) ==
    /\ Cardinality(serving) = 1
    /\ serving' = IF Load(env).ok THEN serving \union {Load(env)} ELSE serving
    /\ UNCHANGED <<release, installs, signed>>

\* The rollout is finished, or undone.
Retire(c) ==
    /\ c \in serving /\ serving # {c}
    /\ serving' = serving \ {c}
    /\ UNCHANGED <<release, installs, signed>>

-----------------------------------------------------------------------------
(* -sign-active.                                                           *)

\* A seed, a key in full, perhaps with halves of different pairs, or anything else.
Secrets ==
    [form : {"full"}, seed : Releases, pub : Releases]
    \union [form : {"seed", "other"}, seed : Releases]

\* Any key id and expected key; the ids taken for active may be those of apps to come.
SigningEnvs ==
    [secret : Secrets,
     keyId : Releases \union {NoKey}, expectedPublicKey : Releases \union {NoKey},
     activeIds : {{}, installs, Releases}]

\* The expected key is not the one published under the id; an active id is not shipped;
\* the two halves of the key are not of one pair.
Slips(env) ==
    (IF env.expectedPublicKey = env.keyId THEN {} ELSE {"expected key"})
    \union (IF env.activeIds \subseteq installs THEN {} ELSE {"active id"})
    \union (IF env.secret.form = "full" /\ env.secret.seed # env.secret.pub
            THEN {"halves"} ELSE {})

Flags == [version : Texts, digest : Digests, minAppVersion : Texts]

\* A run that writes an active.json; one that fails writes nothing.
SignRun(env) ==
    /\ SigningKeyLoads(env)
    /\ \E flags \in Flags :
          /\ manifest' = RunSignActive(env, flags)
          /\ manifest' # NoManifest
    /\ audience' = installs /\ slips' = Slips(env)
    /\ UNCHANGED <<release, installs, serving>>

Next ==
    \/ Release
    \/ \E v \in Releases : Migrate(v)
    \/ \E tokens \in Wanted : \E raw \in TypedLists(tokens), dsn, enabled \in BOOLEAN :
          Redeploy([dsn |-> dsn, enabled |-> enabled, raw |-> raw])
    \/ \E c \in serving : Retire(c)
    \/ \E env \in SigningEnvs : SignRun(env)

Spec == Init /\ [][Next]_vars

-----------------------------------------------------------------------------
(* Properties.                                                             *)

\* Where POST /v1/events is open, every app in use gets in through a whole rotation of the
\* token, unless the revision was given a well-formed hash of a wrong token: the one mistake
\* parseIngestTokenHashes lets pass.  A request without the header never gets in.
OnlyFleetGetsIn ==
    \A c \in serving :
        /\ c.enabled /\ HashIngestToken(Foreign) \notin c.hashes
              => \A v \in installs : Admits(c, v)
        /\ ~Admits(c, NoHeader)

EmittedAccepted == \E v \in audience : AppVerifies(AppKeys(v), manifest)
LowerHex == manifest.digest = Lower(manifest.digest)

\* An active.json made from a lower-hex digest, by an operator whose expected key and active
\* ids say what apps in use ship and whose key is a pair, is one that such an app verifies,
\* whichever private key, form of it, key id and fields were given.
EmittedVerifies == manifest # NoManifest /\ slips = {} /\ LowerHex => EmittedAccepted

\* The same whatever the case of the digest.
EmittedVerifiesAnyCase == manifest # NoManifest /\ slips = {} => EmittedAccepted

SignableTuples ==
    {f \in [version : Texts, digest : Digests, minAppVersion : Texts,
            fileManifestHash : Texts, rollbackFloor : Texts] : Signable(f)}

\* The bytes an emitted signature is over are those of no other tuple of fields, the
\* reserved ones included, than the manifest's own, up to the case of the digest.
SignatureFixesFields ==
    manifest # NoManifest =>
        \A f \in SignableTuples :
            BuildCanonicalPayload(f) = manifest.signatureV2.over =>
                /\ f.version = manifest.version /\ f.minAppVersion = manifest.minAppVersion
                /\ Lower(f.digest) = Lower(manifest.digest)
                /\ f.fileManifestHash = <<>> /\ f.rollbackFloor = <<>>
=============================================================================
