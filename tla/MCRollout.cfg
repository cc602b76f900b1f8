SPECIFICATION Spec
CONSTANTS
    HexLen = 1
    Unprintable = {"LF", "CR"}
    NoManifest = NoManifest
    MaxRelease = 2
    Texts <- MCTexts
    Digests <- MCDigests
INVARIANTS
    OnlyFleetGetsIn
    EmittedVerifies
    SignatureFixesFields
