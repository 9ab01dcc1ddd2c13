SPECIFICATION Spec
CONSTANTS
    Kinds = {"move"}
    Workspace = TRUE
    Chunks = 1
    Lingering = {"upload", "chunk", "prepare", "activate", "cancel"}
    MaxVersion = 1
INVARIANTS
    CanceledHoldsNoReservation
