CONSTANTS
    Requests = {r1, r2}
    DrainBudget = 1
    CloseBudget = 1
    ErrorGrace = 1
    Grace = 3
    MaxClock = 3
    WriteTimeout = 3
    CallBudget = 2
    MaxCalls = 2
    HandlerStatuses = {200}
SPECIFICATION ServingFairSpec
CHECK_DEADLOCK FALSE
INVARIANTS ServingTypeOK NeverKilled DrainBeforeClose LoggedAsSent OneCallFits
PROPERTIES ShutdownEnds
