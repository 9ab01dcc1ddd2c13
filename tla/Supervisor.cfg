SPECIFICATION FairSpec
CONSTANTS
    Versions = {v1, v2}
    Self = v1
    Nothing = nothing
    AttemptLimit = 2
    LateSpawnFaults = FALSE
    MaxUpdates = 2
    MaxWork = 1
    MaxFaults = 3
    MaxAdoptions = 1
INVARIANTS
    NothingLost
    OwnData
    ActsOnceCommitted
    NeverStranded
    TrialsAreBounded
PROPERTIES
    UpdatesSettle
