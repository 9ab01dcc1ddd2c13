SPECIFICATION FairSpec
CONSTANTS
    Kinds = {"move", "copy", "draft"}
    Workspace = FALSE
    Chunks = 2
    Lingering = {"chunk", "cancel"}
    MaxVersion = 1
PROPERTIES
    RetiredCompletes
    CancelResolves
    ScratchReclaimed
