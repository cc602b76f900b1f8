--------------------------- MODULE OfflineSigning ---------------------------
(***************************************************************************)
(* The offline-package signature (internal/platform/offlinesig/payload.go, *)
(* sign.go; cmd/api/signactive.go).  A field is a sequence of bytes; the   *)
(* prefix "sha256:" is one symbol, "P", and a hex part has HexLen digits.  *)
(* Key pairs are numbered: seed k derives the public key k.  Ed25519       *)
(* (external) is ideal: a signature is over its bytes, by a key pair.      *)
(***************************************************************************)
EXTENDS Naturals, Sequences, Functions

CONSTANTS
    HexLen,      \* digestHexLen
    Unprintable, \* bytes outside 0x20..0x7E; "LF" is one of them
    NoManifest   \* nothing was emitted

ASSUME LFAssumption == HexLen \in Nat /\ "LF" \in Unprintable

Hex == {"1", "a"}
ToLower == [c \in {"A"} |-> "a"]
Lower(s) == [i \in DOMAIN s |-> IF s[i] \in DOMAIN ToLower THEN ToLower[s[i]] ELSE s[i]]

\* Mutant: fields are taken as they come.
NoHygiene(value) == TRUE

CheckFieldHygiene(value) == Range(value) \intersect Unprintable = {}

\* normalizeDigest accepts d, and returns Lower(d).
DigestOK(d) ==
    /\ CheckFieldHygiene(d)
    /\ Len(d) = 1 + HexLen /\ d[1] = "P"
    /\ \A i \in 2..Len(d) : Lower(d)[i] \in Hex

FreeText == {"version", "minAppVersion", "fileManifestHash", "rollbackFloor"}
Signable(f) == DigestOK(f.digest) /\ \A name \in FreeText : CheckFieldHygiene(f[name])

\* The six fields in their order, a single LF between two of them.
Join(f, digest) ==
    LET LF == <<"LF">> IN
    <<"TAG">> \o LF \o f.version \o LF \o digest \o LF \o f.minAppVersion
        \o LF \o f.fileManifestHash \o LF \o f.rollbackFloor

BuildCanonicalPayload(f) == Join(f, Lower(f.digest))

-----------------------------------------------------------------------------
(* Signing.                                                                *)

NoKey == 0   \* not set, undecodable, or of a wrong length

\* An ed25519.PrivateKey is a seed and, copied behind it, a public key.  It signs with both:
\* if they are of different pairs, the result verifies under no public key.
SignPayload(payload, priv) ==
    [by |-> IF priv.seed = priv.pub THEN priv.seed ELSE NoKey, over |-> payload]

NoPrivateKey == [seed |-> NoKey, pub |-> NoKey]

\* 32 bytes are a seed, which is expanded; 64 bytes are taken for a key as they are.
ParsePrivateKey(secret) ==
    CASE secret.form = "seed" -> [seed |-> secret.seed, pub |-> secret.seed]
      [] secret.form = "full" -> [seed |-> secret.seed, pub |-> secret.pub]
      [] OTHER -> NoPrivateKey

\* loadSigningKey returns no error.
SigningKeyLoads(env) ==
    /\ NoKey \notin {env.keyId, env.expectedPublicKey}
    /\ ParsePrivateKey(env.secret) # NoPrivateKey

\* activeStatusFor
Active(keyId, env) == keyId \in env.activeIds

\* Mutant: the private key is not held against the published one.
SignAnyKey(base, f, priv, pub, active) ==
    IF active /\ Signable(f)
    THEN [base EXCEPT !.signatureV2 = SignPayload(BuildCanonicalPayload(f), priv)]
    ELSE NoManifest

\* SignActive: an active key id, a key whose second half (priv.Public()) is the expected one,
\* and fields in order.
SignActive(base, f, priv, pub, active) ==
    IF active /\ priv.pub = pub /\ Signable(f)
    THEN [base EXCEPT !.signatureV2 = SignPayload(BuildCanonicalPayload(f), priv)]
    ELSE NoManifest

Unsigned == [by |-> NoKey, over |-> <<>>]

\* runSignActive: active.json carries the fields as they were given, the tail empty.
RunSignActive(env, flags) ==
    LET fields == [version |-> flags.version, digest |-> flags.digest,
                   minAppVersion |-> flags.minAppVersion,
                   fileManifestHash |-> <<>>, rollbackFloor |-> <<>>]
        base == [version |-> flags.version, digest |-> flags.digest,
                 minAppVersion |-> flags.minAppVersion, keyId |-> env.keyId,
                 signatureV2 |-> Unsigned]
    IN  IF SigningKeyLoads(env)
        THEN SignActive(base, fields, ParsePrivateKey(env.secret), env.expectedPublicKey,
                        Active(env.keyId, env))
        ELSE NoManifest

-----------------------------------------------------------------------------
(* The app (external).                                                     *)

\* verifyExtendedSignature: the app knows the key id, no field has an LF, and the
\* signature is one of the manifest's own fields, verbatim.
AppVerifies(publicKeys, m) ==
    /\ m.keyId \in publicKeys
    /\ \A s \in {m.version, m.digest, m.minAppVersion} : "LF" \notin Range(s)
    /\ m.signatureV2 = [by |-> m.keyId,
                        over |-> Join([version |-> m.version, minAppVersion |-> m.minAppVersion,
                                       fileManifestHash |-> <<>>, rollbackFloor |-> <<>>],
                                      m.digest)]
=============================================================================
