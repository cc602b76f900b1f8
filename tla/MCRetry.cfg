CONSTANTS
    Callers = {c1, c2}
    MaxConns = 1
    MaxAttempts = 3
    Base = 1
    Budget = 4
    WakeAt = 2
    MaxStart = 1
    MaxFaults = 2
SPECIFICATION FairSpec
CHECK_DEADLOCK FALSE
INVARIANTS TypeOK AppliedOnce ConnectionsAccounted
PROPERTIES EveryCallEnds
