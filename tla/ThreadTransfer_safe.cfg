SPECIFICATION Spec
CONSTANTS
    Kinds = {"move", "copy", "draft"}
    Workspace = TRUE
    Chunks = 1
    Lingering = {"upload", "chunk", "prepare", "activate", "cancel"}
    MaxVersion = 2
INVARIANTS
    SingleOwner
    RetiredIsRecoverable
    NothingLost
    NoTurnUnderFence
    CancelIsClean
PROPERTIES
    ImplementsOwnership
