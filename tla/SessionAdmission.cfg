SPECIFICATION FairSpec
CONSTANTS
    Sessions = {s1}
    Calls = {q1}
    Conns = {c1}
    Renewals = {n1}
    MaxRevocations = 2
    Window = 1
    MaxClock = 1
INVARIANTS
    CallsAnswerTruly
    RevokedIsSilent
PROPERTIES
    DeadIsDisconnected
