SPECIFICATION FairSpec
CONSTANTS
    NumThreads = 1
    FileSize = 1
    ChunkSize = 1
PROPERTIES
    CompletedTaken
