\* pgzip around the thread pool; a vector grows by either rule.
CONSTANTS
    Scenes <- MCScenes
    NumCPU = 2
    DefaultChunk = 1
    OUTBUFSIZ = 3
    MaxFlushes = 2
    MaxBlocks = 3
    UIntMax = 16
SPECIFICATION Spec
CHECK_DEADLOCK FALSE
INVARIANTS Framed VectorsHold
PROPERTIES OverwritesOnlyWhenAsked OnlyTheseHang
