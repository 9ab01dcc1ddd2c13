SPECIFICATION Spec
CONSTANTS
    Versions = {v1, v2}
    Self = v1
    Nothing = nothing
    AttemptLimit = 2
    LateSpawnFaults = TRUE
    MaxUpdates = 1
    MaxWork = 1
    MaxFaults = 3
    MaxAdoptions = 0
INVARIANTS
    OwnData
