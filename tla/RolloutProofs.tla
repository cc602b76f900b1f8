--------------------------- MODULE RolloutProofs ---------------------------
(***************************************************************************)
(* Proofs about CredentialRollout, and with it about Configuration and     *)
(* OfflineSigning: for any number of releases, any field values and any    *)
(* set of bytes that counts as unprintable.                                *)
(***************************************************************************)
EXTENDS CredentialRollout, TLAPS, FiniteSetTheorems, SequenceTheorems

-----------------------------------------------------------------------------
(* The ingest token.                                                       *)

\* A list of one entry per token has an entry for every token.
LEMMA EveryTokenListed ==
    ASSUME NEW S, IsFiniteSet(S)
    PROVE  /\ SetToSeq(S) \in [1..Cardinality(S) -> S]
           /\ \A t \in S : \E i \in DOMAIN SetToSeq(S) : SetToSeq(S)[i] = t
<1> DEFINE D == 1..Cardinality(S)
<1>1. Cardinality(S) \in Nat /\ ExistsBijection(D, S)
  BY FS_CardinalityType
<1>2. IsFiniteSet(D) /\ Cardinality(D) = Cardinality(S)
  BY <1>1, FS_Interval
<1>3. \E f \in [D -> S] : IsInjective(f)
  BY <1>1 DEF ExistsBijection, Bijection, Injection
<1>4. SetToSeq(S) \in Injection(D, S)
  BY <1>3 DEF SetToSeq, Injection
<1>5. SetToSeq(S) \in Surjection(D, S)
  BY <1>2, <1>4, FS_Injection
<1> QED
  BY <1>4, <1>5 DEF Injection, Surjection

\* Every mistyped entry but a well-formed hash of a foreign token is refused: an accepted list
\* without such a hash has the hash of every token it was meant for.
LEMMA AcceptedListIsRight ==
    ASSUME NEW tokens, IsFiniteSet(tokens), NEW raw \in TypedLists(tokens),
           ParseIngestTokenHashes(raw).ok, ParseIngestTokenHashes(raw).hashes # {},
           HashIngestToken(Foreign) \notin ParseIngestTokenHashes(raw).hashes
    PROVE  \A t \in tokens : HashIngestToken(t) \in ParseIngestTokenHashes(raw).hashes
<1> DEFINE s == SetToSeq(tokens)
<1>1. /\ ParseIngestTokenHashes(raw).hashes = Range(raw)
      /\ \A h \in Range(raw) : MatchesRe(h) /\ h # emptyInputSHA256
  BY DEF ParseIngestTokenHashes, Refused
<1>2. raw # <<>>
  BY <1>1 DEF Range
<1>3. DOMAIN raw = DOMAIN s /\ \A i \in DOMAIN s : raw[i] \in Typed(s[i])
  BY <1>2 DEF TypedLists
<1>4. SUFFICES ASSUME NEW t \in tokens PROVE HashIngestToken(t) \in Range(raw)
  BY <1>1
<1>5. PICK i \in DOMAIN s : s[i] = t
  BY EveryTokenListed
<1>6. raw[i] \in Range(raw) /\ raw[i] \in Typed(t)
  BY <1>3, <1>5 DEF Range
<1>7. raw[i] = HashIngestToken(t)
  BY <1>1, <1>6 DEF Typed, MatchesRe
<1> QED
  BY <1>6, <1>7

\* No process starts with the hash of the empty token.
LEMMA NoEmptyTokenLoaded ==
    ASSUME NEW raw PROVE emptyInputSHA256 \notin ParseIngestTokenHashes(raw).hashes
BY DEF ParseIngestTokenHashes, Refused

\* The inductive invariant of a rollout: the releases in use are finitely many, and every
\* revision with traffic, if it has no foreign hash, has their tokens; none has the empty one.
FleetInv ==
    /\ release \in Nat /\ installs \subseteq 1..release
    /\ \A c \in serving :
          /\ c.enabled /\ HashIngestToken(Foreign) \notin c.hashes
                => \A v \in installs : HashIngestToken(v) \in c.hashes
          /\ emptyInputSHA256 \notin c.hashes

\* A revision that starts admits what its operator wanted admitted, or it is closed, or it was
\* given a foreign hash.
LEMMA RedeployKeeps ==
    ASSUME FleetInv, NEW tokens \in Wanted, NEW raw \in TypedLists(tokens),
           NEW dsn \in BOOLEAN, NEW enabled \in BOOLEAN,
           Redeploy([dsn |-> dsn, enabled |-> enabled, raw |-> raw])
    PROVE  FleetInv'
<1> DEFINE env == [dsn |-> dsn, enabled |-> enabled, raw |-> raw]
           c == Load(env)
<1>1. installs \subseteq tokens /\ IsFiniteSet(tokens)
  <2>1. tokens \subseteq 1..(release + 1) /\ release + 1 \in Int /\ 1 \in Int
    BY DEF Wanted, FleetInv
  <2>2. IsFiniteSet(1..(release + 1))
    BY <2>1, FS_Interval
  <2> QED
    BY <2>1, <2>2, FS_Subset DEF Wanted
<1>2. c.hashes = ParseIngestTokenHashes(raw).hashes
  BY DEF Load
<1>3. c.ok /\ c.enabled => /\ ParseIngestTokenHashes(raw).ok
                           /\ ParseIngestTokenHashes(raw).hashes # {}
  BY DEF Load
<1>4. c.ok /\ c.enabled /\ HashIngestToken(Foreign) \notin c.hashes
         => \A v \in installs : HashIngestToken(v) \in c.hashes
  BY <1>1, <1>2, <1>3, AcceptedListIsRight
<1>5. emptyInputSHA256 \notin c.hashes
  BY <1>2, NoEmptyTokenLoaded
<1>6. /\ serving' = IF c.ok THEN serving \union {c} ELSE serving
      /\ release' = release /\ installs' = installs
  BY DEF Redeploy
<1> HIDE DEF c
<1> QED
  BY <1>4, <1>5, <1>6 DEF FleetInv, HashIngestToken, emptyInputSHA256, NoHeader

\* Every step of a rollout keeps the invariant.
LEMMA FleetStep == FleetInv /\ [Next]_vars => FleetInv'
<1> SUFFICES ASSUME FleetInv, [Next]_vars PROVE FleetInv'
  OBVIOUS
<1> USE DEF FleetInv, HashIngestToken, emptyInputSHA256, NoHeader
<1>1. CASE UNCHANGED <<release, installs, serving>>
  BY <1>1
<1>2. CASE Release
  BY <1>2 DEF Release, IngestTokenMatches
<1>3. ASSUME NEW v \in Releases, Migrate(v) PROVE FleetInv'
  BY <1>3 DEF Migrate
<1>4. ASSUME NEW c \in serving, Retire(c) PROVE FleetInv'
  BY <1>4 DEF Retire
<1>5. ASSUME NEW env \in SigningEnvs, SignRun(env) PROVE FleetInv'
  BY <1>1, <1>5 DEF SignRun
<1> QED
  BY <1>1, <1>2, <1>3, <1>4, <1>5, RedeployKeeps DEF Next, vars

\* Through every rotation of the ingest token, the apps in use get in at every revision where
\* POST /v1/events is open, unless that revision was given a well-formed hash of a foreign
\* token; every other mistyped value is refused at start.  And no request without the header
\* gets in anywhere.
THEOREM RotationKeepsFleetIn == Spec => []OnlyFleetGetsIn
<1>1. Init => FleetInv
  BY DEF Init, FleetInv
<1>2. FleetInv => OnlyFleetGetsIn
  BY DEF FleetInv, OnlyFleetGetsIn, Admits, IngestTokenMatches, emptyInputSHA256
<1> QED
  BY <1>1, <1>2, FleetStep, PTL DEF Spec

-----------------------------------------------------------------------------
(* The signed payload.                                                     *)

\* The two parts of a text, by position.
LEMMA PartsOf ==
    ASSUME NEW S, NEW p \in Seq(S), NEW x \in Seq(S)
    PROVE  /\ Len(p \o x) = Len(p) + Len(x)
           /\ \A i \in 1..Len(p) : (p \o x)[i] = p[i]
           /\ \A i \in 1..Len(x) : (p \o x)[Len(p) + i] = x[i]
<1>1. Len(p) \in Nat /\ Len(x) \in Nat
  OBVIOUS
<1>2. ASSUME NEW i \in 1..Len(x) PROVE (p \o x)[Len(p) + i] = x[i]
  <2>1. /\ Len(p) + i \in 1..(Len(p) + Len(x)) /\ ~(Len(p) + i <= Len(p))
        /\ (Len(p) + i) - Len(p) = i
    BY <1>1
  <2> QED
    BY <2>1, ConcatProperties
<1>3. ASSUME NEW i \in 1..Len(p) PROVE (p \o x)[i] = p[i]
  <2>1. i \in 1..(Len(p) + Len(x)) /\ i <= Len(p)
    BY <1>1
  <2> QED
    BY <2>1, ConcatProperties
<1> QED
  BY <1>2, <1>3, ConcatProperties

\* Two texts cut after their last separator: what is left and what follows are the same.
LEMMA CutAtLast ==
    ASSUME NEW S, NEW sep, NEW p \in Seq(S), NEW q \in Seq(S), NEW x \in Seq(S), NEW y \in Seq(S),
           p # <<>>, p[Len(p)] = sep, q # <<>>, q[Len(q)] = sep,
           sep \notin Range(x), sep \notin Range(y), p \o x = q \o y
    PROVE  p = q /\ x = y
<1>1. /\ Len(p) \in Nat \ {0} /\ Len(q) \in Nat \ {0} /\ Len(x) \in Nat /\ Len(y) \in Nat
      /\ \A i \in 1..Len(x) : x[i] # sep
      /\ \A i \in 1..Len(y) : y[i] # sep
  BY DEF Range
<1> PICK s : s = p \o x /\ s = q \o y
  OBVIOUS
<1>3. /\ Len(s) = Len(p) + Len(x)
      /\ \A i \in 1..Len(p) : s[i] = p[i]
      /\ \A i \in 1..Len(x) : s[Len(p) + i] = x[i]
  BY ONLY s = p \o x, p \in Seq(S), x \in Seq(S), PartsOf
<1>4. /\ Len(s) = Len(q) + Len(y)
      /\ \A i \in 1..Len(q) : s[i] = q[i]
      /\ \A i \in 1..Len(y) : s[Len(q) + i] = y[i]
  BY ONLY s = q \o y, q \in Seq(S), y \in Seq(S), PartsOf
<1>5. ~(Len(p) > Len(q))
  <2> SUFFICES ASSUME Len(p) > Len(q) PROVE FALSE
    OBVIOUS
  <2>1. Len(p) - Len(q) \in 1..Len(y) /\ Len(q) + (Len(p) - Len(q)) = Len(p)
    BY <1>1, <1>3, <1>4
  <2>2. s[Len(p)] # sep
    BY ONLY <1>1, <1>4, <2>1
  <2>3. Len(p) \in 1..Len(p)
    BY <1>1
  <2> QED
    BY <1>3, <2>2, <2>3
<1>6. ~(Len(q) > Len(p))
  <2> SUFFICES ASSUME Len(q) > Len(p) PROVE FALSE
    OBVIOUS
  <2>1. Len(q) - Len(p) \in 1..Len(x) /\ Len(p) + (Len(q) - Len(p)) = Len(q)
    BY <1>1, <1>3, <1>4
  <2>2. s[Len(q)] # sep
    BY ONLY <1>1, <1>3, <2>1
  <2>3. Len(q) \in 1..Len(q)
    BY <1>1
  <2> QED
    BY <1>4, <2>2, <2>3
<1>7. Len(p) = Len(q) /\ Len(x) = Len(y)
  BY <1>1, <1>3, <1>4, <1>5, <1>6
<1>8. (\A i \in 1..Len(p) : p[i] = q[i]) /\ \A i \in 1..Len(x) : x[i] = y[i]
  BY <1>3, <1>4, <1>7
<1> QED
  BY <1>7, <1>8, SeqEqual

\* So two joins that agree have the same last field, and the same fields before it.
LEMMA LastField ==
    ASSUME NEW S, NEW sep \in S, NEW a \in Seq(S), NEW b \in Seq(S),
           NEW x \in Seq(S), NEW y \in Seq(S),
           sep \notin Range(x), sep \notin Range(y),
           a \o <<sep>> \o x = b \o <<sep>> \o y
    PROVE  a = b /\ x = y
<1>1. PICK p : p = a \o <<sep>>
  OBVIOUS
<1>2. PICK q : q = b \o <<sep>>
  OBVIOUS
<1>3. p \in Seq(S) /\ p # <<>> /\ p[Len(p)] = sep
  BY <1>1
<1>4. q \in Seq(S) /\ q # <<>> /\ q[Len(q)] = sep
  BY <1>2
<1>5. p = q /\ x = y
  BY <1>1, <1>2, <1>3, <1>4, CutAtLast, Zenon
<1>6. a = b
  BY <1>1, <1>2, <1>5
<1> QED
  BY <1>5, <1>6

\* The bytes of the fields, and those Join and Lower add.
Bytes == {"TAG", "LF", "a"} \union UNION {Range(s) : s \in Texts \union Digests}

\* A field that passes checkFieldHygiene, and a digest in lower case, have no separator.
LEMMA FieldsHaveNoLF ==
    ASSUME NEW s \in Texts \union Digests \union {<<>>}, CheckFieldHygiene(s)
    PROVE  /\ s \in Seq(Bytes) /\ "LF" \notin Range(s)
           /\ Lower(s) \in Seq(Bytes) /\ "LF" \notin Range(Lower(s))
<1>1. s \in Seq(Bytes)
  <2>1. CASE s = <<>>
    BY <2>1, EmptySeq
  <2>2. CASE s \in Texts \union Digests
    <3>1. s \in Seq(Range(s)) /\ Range(s) \subseteq Bytes
      BY <2>2, FieldAssumption DEF Bytes
    <3> QED
      BY <3>1, SeqMonotonic
  <2> QED
    BY <2>1, <2>2
<1>2. "LF" \notin Range(s)
  BY LFAssumption DEF CheckFieldHygiene
<1>3. DOMAIN s = 1..Len(s) /\ Len(s) \in Nat /\ \A i \in 1..Len(s) : s[i] \in Bytes /\ s[i] # "LF"
  BY <1>1, <1>2 DEF Range
<1>4. /\ DOMAIN Lower(s) = 1..Len(s)
      /\ \A i \in 1..Len(s) : Lower(s)[i] = "a" \/ Lower(s)[i] = s[i]
      /\ Lower(s) = [i \in 1..Len(s) |-> Lower(s)[i]]
  BY <1>3 DEF Lower, ToLower
<1>5. \A i \in 1..Len(s) : Lower(s)[i] \in Bytes /\ Lower(s)[i] # "LF"
  <2>1. "a" \in Bytes /\ "a" # "LF"
    BY DEF Bytes
  <2> QED
    BY <1>3, <1>4, <2>1
<1>6. Lower(s) \in [1..Len(s) -> Bytes]
  BY <1>4, <1>5
<1>7. Lower(s) \in Seq(Bytes)
  BY <1>3, <1>6
<1>8. "LF" \notin Range(Lower(s))
  BY <1>4, <1>5 DEF Range
<1> QED
  BY <1>1, <1>2, <1>7, <1>8

\* The payload determines its fields: no field has the separator in it.
LEMMA JoinFixesFields ==
    ASSUME NEW f, NEW g, NEW d \in Seq(Bytes), NEW e \in Seq(Bytes),
           \A name \in FreeText : f[name] \in Seq(Bytes) /\ "LF" \notin Range(f[name]),
           \A name \in FreeText : g[name] \in Seq(Bytes) /\ "LF" \notin Range(g[name]),
           "LF" \notin Range(d), "LF" \notin Range(e), Join(f, d) = Join(g, e)
    PROVE  d = e /\ \A name \in FreeText : f[name] = g[name]
<1> DEFINE LF == <<"LF">>
           f1 == <<"TAG">> \o LF \o f.version
           f2 == f1 \o LF \o d
           f3 == f2 \o LF \o f.minAppVersion
           f4 == f3 \o LF \o f.fileManifestHash
           f5 == f4 \o LF \o f.rollbackFloor
           g1 == <<"TAG">> \o LF \o g.version
           g2 == g1 \o LF \o e
           g3 == g2 \o LF \o g.minAppVersion
           g4 == g3 \o LF \o g.fileManifestHash
           g5 == g4 \o LF \o g.rollbackFloor
<1>1. "LF" \in Bytes /\ LF \in Seq(Bytes) /\ <<"TAG">> \in Seq(Bytes)
  BY DEF Bytes
<1>2. ASSUME NEW x \in Seq(Bytes), NEW y \in Seq(Bytes) PROVE x \o LF \o y \in Seq(Bytes)
  BY <1>1, ConcatProperties
<1>3. /\ f.version \in Seq(Bytes) /\ "LF" \notin Range(f.version)
      /\ f.minAppVersion \in Seq(Bytes) /\ "LF" \notin Range(f.minAppVersion)
      /\ f.fileManifestHash \in Seq(Bytes) /\ "LF" \notin Range(f.fileManifestHash)
      /\ f.rollbackFloor \in Seq(Bytes) /\ "LF" \notin Range(f.rollbackFloor)
  BY DEF FreeText
<1>4. /\ g.version \in Seq(Bytes) /\ "LF" \notin Range(g.version)
      /\ g.minAppVersion \in Seq(Bytes) /\ "LF" \notin Range(g.minAppVersion)
      /\ g.fileManifestHash \in Seq(Bytes) /\ "LF" \notin Range(g.fileManifestHash)
      /\ g.rollbackFloor \in Seq(Bytes) /\ "LF" \notin Range(g.rollbackFloor)
  BY DEF FreeText
<1>5. f1 \in Seq(Bytes) /\ g1 \in Seq(Bytes)
  BY <1>1, <1>2, <1>3, <1>4, Zenon
<1> HIDE DEF f1, g1
<1>6. f2 \in Seq(Bytes) /\ g2 \in Seq(Bytes)
  BY <1>2, <1>5, Zenon
<1> HIDE DEF f2, g2
<1>7. f3 \in Seq(Bytes) /\ g3 \in Seq(Bytes)
  BY <1>2, <1>3, <1>4, <1>6, Zenon
<1> HIDE DEF f3, g3
<1>8. f4 \in Seq(Bytes) /\ g4 \in Seq(Bytes)
  BY <1>2, <1>3, <1>4, <1>7, Zenon
<1> HIDE DEF f4, g4, f5, g5
<1>9. f5 = g5
  BY Zenon DEF Join, f1, f2, f3, f4, f5, g1, g2, g3, g4, g5
<1>10. f4 = g4 /\ f.rollbackFloor = g.rollbackFloor
  <2>1. /\ f.rollbackFloor \in Seq(Bytes) /\ "LF" \notin Range(f.rollbackFloor)
        /\ g.rollbackFloor \in Seq(Bytes) /\ "LF" \notin Range(g.rollbackFloor)
    BY <1>3, <1>4
  <2> QED
    BY ONLY <1>1, <1>8, <1>9, <2>1, LastField, Zenon DEF f5, g5, LF
<1>11. f3 = g3 /\ f.fileManifestHash = g.fileManifestHash
  BY <1>1, <1>3, <1>4, <1>7, <1>10, LastField, Zenon DEF f4, g4
<1>12. f2 = g2 /\ f.minAppVersion = g.minAppVersion
  BY <1>1, <1>3, <1>4, <1>6, <1>11, LastField, Zenon DEF f3, g3
<1>13. f1 = g1 /\ d = e
  BY <1>1, <1>5, <1>12, LastField, Zenon DEF f2, g2
<1>14. f.version = g.version
  BY <1>1, <1>3, <1>4, <1>13, LastField, Zenon DEF f1, g1
<1> QED
  BY <1>10, <1>11, <1>12, <1>13, <1>14 DEF FreeText

-----------------------------------------------------------------------------
(* Emitted manifests.                                                      *)

\* The fields that are signed for a manifest, or for the flags it is made from.
ActiveFields(m) ==
    [version |-> m.version, digest |-> m.digest, minAppVersion |-> m.minAppVersion,
     fileManifestHash |-> <<>>, rollbackFloor |-> <<>>]

\* The inductive invariant of -sign-active: a manifest was made from fields that pass the
\* checks and its signature is over these; made without a slip, it is signed by the key pair
\* it names, which an app in use then shipped.
ManifestInv ==
    manifest # NoManifest =>
        /\ manifest.version \in Texts /\ manifest.digest \in Digests
        /\ manifest.minAppVersion \in Texts
        /\ Signable(ActiveFields(manifest))
        /\ manifest.signatureV2.over = BuildCanonicalPayload(ActiveFields(manifest))
        /\ slips = {} =>
              /\ manifest.signatureV2 = [by |-> manifest.keyId,
                    over |-> BuildCanonicalPayload(ActiveFields(manifest))]
              /\ manifest.keyId \in audience

\* What a run of -sign-active emits is in order, whatever the manifest before it was.
LEMMA SignRunKeeps ==
    ASSUME NEW env \in SigningEnvs, SignRun(env)
    PROVE  ManifestInv'
<1>1. PICK flags \in Flags : manifest' = RunSignActive(env, flags) /\ manifest' # NoManifest
  BY DEF SignRun
<1> DEFINE f == ActiveFields(flags)
           priv == ParsePrivateKey(env.secret)
           sig == SignPayload(BuildCanonicalPayload(f), priv)
<1>2. /\ SigningKeyLoads(env) /\ Active(env.keyId, env) /\ priv.pub = env.expectedPublicKey
      /\ Signable(f)
      /\ manifest' = [[version |-> flags.version, digest |-> flags.digest,
                       minAppVersion |-> flags.minAppVersion, keyId |-> env.keyId,
                       signatureV2 |-> Unsigned] EXCEPT !.signatureV2 = sig]
  BY <1>1 DEF RunSignActive, SignActive, ActiveFields, SignRun
<1>3. Slips(env) = {} => env.keyId \in installs /\ priv.seed = priv.pub /\ priv.seed = env.keyId
  <2> SUFFICES ASSUME Slips(env) = {}
               PROVE  env.keyId \in installs /\ priv.seed = priv.pub /\ priv.seed = env.keyId
    OBVIOUS
  <2>1. /\ env.expectedPublicKey = env.keyId /\ env.activeIds \subseteq installs
        /\ env.secret.form = "full" => env.secret.seed = env.secret.pub
    BY DEF Slips
  <2>2. priv.seed = priv.pub
    BY <2>1 DEF ParsePrivateKey, NoPrivateKey
  <2> QED
    BY <1>2, <2>1, <2>2 DEF Active
<1>8. /\ sig.over = BuildCanonicalPayload(f)
      /\ Slips(env) = {} => sig = [by |-> env.keyId, over |-> BuildCanonicalPayload(f)]
  BY <1>3 DEF SignPayload
<1> HIDE DEF sig
<1>4. /\ manifest'.version = flags.version /\ manifest'.digest = flags.digest
      /\ manifest'.minAppVersion = flags.minAppVersion /\ manifest'.keyId = env.keyId
      /\ manifest'.signatureV2 = sig
  BY <1>2
<1>5. ActiveFields(manifest') = f
  BY <1>4 DEF ActiveFields
<1>6. flags.version \in Texts /\ flags.digest \in Digests /\ flags.minAppVersion \in Texts
  BY DEF Flags
<1>7. audience' = installs /\ slips' = Slips(env)
  BY DEF SignRun
<1> HIDE DEF f, priv
<1> QED
  BY <1>2, <1>3, <1>4, <1>5, <1>6, <1>7, <1>8 DEF ManifestInv

\* A manifest's signature is over a payload that no other signable tuple has.
LEMMA PayloadFixesFields ==
    ASSUME ManifestInv, manifest # NoManifest, NEW f \in SignableTuples,
           BuildCanonicalPayload(f) = manifest.signatureV2.over
    PROVE  /\ f.version = manifest.version /\ f.minAppVersion = manifest.minAppVersion
           /\ Lower(f.digest) = Lower(manifest.digest)
           /\ f.fileManifestHash = <<>> /\ f.rollbackFloor = <<>>
<1> DEFINE g == ActiveFields(manifest)
<1>1. /\ g.version = manifest.version /\ g.minAppVersion = manifest.minAppVersion
      /\ g.digest = manifest.digest /\ g.fileManifestHash = <<>> /\ g.rollbackFloor = <<>>
  BY DEF ActiveFields
<1>2. Signable(f) /\ Signable(g) /\ Join(f, Lower(f.digest)) = Join(g, Lower(g.digest))
  BY DEF ManifestInv, SignableTuples, BuildCanonicalPayload
<1>3. \A name \in FreeText : f[name] \in Texts \union Digests \union {<<>>}
  BY DEF SignableTuples, FreeText
<1>4. \A name \in FreeText : g[name] \in Texts \union Digests \union {<<>>}
  BY <1>1 DEF ManifestInv, FreeText
<1>5. f.digest \in Digests /\ g.digest \in Digests
  BY <1>1 DEF SignableTuples, ManifestInv
<1> HIDE DEF g
<1>6. \A name \in FreeText : f[name] \in Seq(Bytes) /\ "LF" \notin Range(f[name])
  BY <1>2, <1>3, FieldsHaveNoLF DEF Signable
<1>7. \A name \in FreeText : g[name] \in Seq(Bytes) /\ "LF" \notin Range(g[name])
  BY <1>2, <1>4, FieldsHaveNoLF DEF Signable
<1>8. /\ Lower(f.digest) \in Seq(Bytes) /\ "LF" \notin Range(Lower(f.digest))
      /\ Lower(g.digest) \in Seq(Bytes) /\ "LF" \notin Range(Lower(g.digest))
  BY <1>2, <1>5, FieldsHaveNoLF DEF Signable, DigestOK
<1>9. Lower(f.digest) = Lower(g.digest) /\ \A name \in FreeText : f[name] = g[name]
  BY ONLY <1>2, <1>6, <1>7, <1>8, JoinFixesFields, Zenon
<1> QED
  BY <1>1, <1>9 DEF FreeText

\* Only -sign-active writes a manifest.
LEMMA ManifestStep == ManifestInv /\ [Next]_vars => ManifestInv'
<1> SUFFICES ASSUME ManifestInv, [Next]_vars PROVE ManifestInv'
  OBVIOUS
<1>1. CASE UNCHANGED signed
  BY <1>1 DEF ManifestInv, signed
<1> QED
  BY <1>1, SignRunKeeps DEF Next, vars, signed, Release, Migrate, Redeploy, Retire

\* The manifest in the field, if there is one, is in order.
LEMMA ManifestInvariant == Spec => []ManifestInv
<1>1. Init => ManifestInv
  BY DEF Init, ManifestInv
<1> QED
  BY <1>1, ManifestStep, PTL DEF Spec

\* An active.json that -sign-active writes from a lower-hex digest is one that an app in use at
\* that time verifies, provided that the expected key and the active ids are what was
\* published and that the private key, if it is given in full, is one pair: whichever key, key
\* id and fields an operator gives then, the gates refuse the rest.
THEOREM EmittedIsVerified == Spec => []EmittedVerifies
<1>1. ManifestInv => EmittedVerifies
  <2> SUFFICES ASSUME ManifestInv, manifest # NoManifest, slips = {}, LowerHex
               PROVE  AppVerifies(AppKeys(manifest.keyId), manifest)
    BY DEF EmittedVerifies, EmittedAccepted, ManifestInv
  <2>1. /\ CheckFieldHygiene(manifest.version) /\ CheckFieldHygiene(manifest.digest)
        /\ CheckFieldHygiene(manifest.minAppVersion)
    BY DEF ManifestInv, Signable, ActiveFields, DigestOK, FreeText
  <2>2. \A s \in {manifest.version, manifest.digest, manifest.minAppVersion} :
           "LF" \notin Range(s)
    BY <2>1, LFAssumption DEF CheckFieldHygiene
  <2>3. manifest.signatureV2 = [by |-> manifest.keyId,
                                over |-> Join(ActiveFields(manifest), manifest.digest)]
    BY DEF ManifestInv, LowerHex, BuildCanonicalPayload, ActiveFields
  <2> QED
    BY <2>2, <2>3 DEF AppVerifies, AppKeys, Join, ActiveFields
<1> QED
  BY <1>1, ManifestInvariant, PTL

\* The signature of an emitted manifest is over its own fields and no others: no two tuples
\* that -sign-active would sign have the same payload, up to the case of the digest.
THEOREM SignatureBindsFields == Spec => []SignatureFixesFields
<1>1. ManifestInv => SignatureFixesFields
  BY PayloadFixesFields DEF SignatureFixesFields
<1> QED
  BY <1>1, ManifestInvariant, PTL
=============================================================================
