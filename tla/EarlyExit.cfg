SPECIFICATION Spec
CONSTANTS
    NumThreads = 2
    FileSize = 3
    ChunkSize = 1
INVARIANTS
    LastBlockFlushed
