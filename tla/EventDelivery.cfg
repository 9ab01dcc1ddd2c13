SPECIFICATION FairSpec
CONSTANTS
    Channels = {items, state}
    items = items
    state = state
    LatestOnly = {state}
    Narrow = {items}
    RingCap = 1
    QueueCap = 1
    BufferCap = 1
    MaxEmits <- Mixed
    MaxOpens = 2
    MaxLaunches = 2
INVARIANTS
    NoSilentLoss
    NothingVanishes
    RepeatsAreTold
    CursorIsReachable
PROPERTIES
    ReplayCompletes
    DeclinedAdvance
CHECK_DEADLOCK FALSE
