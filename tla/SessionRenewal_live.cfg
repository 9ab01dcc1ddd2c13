SPECIFICATION FairSpec
CONSTANTS
    Processes = {p1, p2}
    Nobody = nobody
    Builds = {TRUE, FALSE}
    Inherited = {"yes"}
    MaxPairings = 1
    MaxSecrets = 2
    MaxLate = 1
PROPERTIES
    PendingSettles
CHECK_DEADLOCK FALSE
