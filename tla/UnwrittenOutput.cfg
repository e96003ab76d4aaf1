SPECIFICATION Spec
CONSTANTS
    NumThreads = 1
    FileSize = 2
    ChunkSize = 1
INVARIANTS
    NothingLeftUnwritten
