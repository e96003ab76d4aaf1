\* A few commands on a few files; names are cut or refused.
CONSTANTS
    None = None
    Stems <- MCStems
    InDir <- MCInDir
    Room <- MCRoom
    Scenes <- MCScenes
    MaxCreated = 1
SPECIFICATION Spec
CHECK_DEADLOCK FALSE
INVARIANTS Kept CleanExit NamesRight
PROPERTIES Finishes
