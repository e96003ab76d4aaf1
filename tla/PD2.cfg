SPECIFICATION FairSpec
CONSTANTS
    NumThreads = 2
    FileSize = 7
    ChunkSize = 2
INVARIANTS
    TypeOK
    WrittenInOrder
    ThreadsAccountedFor
    BlocksConserved
    ExitLeavesOnlyUnstarted
PROPERTIES
    WorkerOwnsContext
    OnlyLostSignalsHang
    ImplementsBlockStream
