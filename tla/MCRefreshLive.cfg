SPECIFICATION FairSpec
CONSTANTS
    NoToken = NoToken
    Requests = {r1, r2}
    Tokens = {t1, t2}
    Families = {f1}
    Skew <- MCSkew
    Leeway = 0
    RefreshTTL = 2
    PoolSize = 2
    MaxClock = 1
PROPERTY EveryCallAnswered
