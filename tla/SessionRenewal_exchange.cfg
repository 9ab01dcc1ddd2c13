SPECIFICATION Spec
CONSTANTS
    Processes = {p1, p2}
    Nobody = nobody
    Builds = {TRUE}
    Inherited = {"no"}
    MaxPairings = 1
    MaxSecrets = 3
    MaxLate = 1
INVARIANTS
    OneExchange
CHECK_DEADLOCK FALSE
