SPECIFICATION Spec
CONSTANTS
    NoToken = NoToken
    Requests = {r1, r2}
    Tokens = {t1, t2, t3}
    Families = {f1}
    Skew <- MCSkew
    Leeway = 1
    RefreshTTL = 2
    PoolSize = 2
    MaxClock = 2
SYMMETRY Symmetry
INVARIANTS
    TypeOK
    OneLiveToken
    RevocationComplete
    AtomicRotation
    RotationInv
    NoDeadlock
PROPERTIES
    ReplayKillsFamily
    OnlyReplayRevokes
    ImplementsChain
