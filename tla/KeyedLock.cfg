SPECIFICATION FairSpec
CONSTANTS
    Callers = {c1, c2, c3}
    Keys = {k1}
    Entries = {e1, e2}
    Nobody = nobody
    NoEntry = noentry
INVARIANTS
    Reclaims
PROPERTIES
    ImplementsMutex
    Served
    CanceledReturns
CHECK_DEADLOCK FALSE
