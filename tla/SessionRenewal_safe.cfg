SPECIFICATION Spec
CONSTANTS
    Processes = {p1, p2}
    Nobody = nobody
    Builds = {TRUE}
    Inherited = {"unknown", "no"}
    MaxPairings = 2
    MaxSecrets = 3
    MaxLate = 1
SYMMETRY Alike
INVARIANTS
    OneHead
    AlwaysRenewable
    NoFalseReuse
PROPERTIES
    RevokedIsFinal
    Forward
    EndsForCause
CHECK_DEADLOCK FALSE
