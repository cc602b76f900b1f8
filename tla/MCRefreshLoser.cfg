SPECIFICATION ClaimsSpec
CONSTANTS
    NoToken = NoToken
    Requests = {r1, r2}
    Tokens = {t1, t2}
    Families = {f1}
    Skew <- NoSkew
    Leeway = 1
    RefreshTTL = 3
    PoolSize = 2
    MaxClock = 3
SYMMETRY Symmetry
INVARIANT ConcurrentLoserKeepsFamily
