SPECIFICATION Spec
CONSTANTS
    Users = {u}
    Families = {f1}
    Tokens = {t1, t2, t3}
    Owner <- MCOwner
    Access = {a1, a2, a3}
    Requests = {r1}
    AccessTTL = 2
    Skew = 1
    MaxClock = 4
    NoToken = NoToken
    NotMinting = NotMinting
SYMMETRY Symmetry
INVARIANTS
    TypeOK
    RevocationImmediate
    KilledChainDies
