SPECIFICATION FairSpec
CONSTANTS
    worker1 = worker1
    worker2 = worker2
    main = main
    io = io
    n1 = n1
    n2 = n2
    n3 = n3
    n4 = n4
    NULL = NULL
    Nobody = Nobody
    Nothing = Nothing
    Producers <- Workers
    Consumer <- main
    LockOf <- CompletedLock
    Objects = 2
    Nodes <- FourNodes
INVARIANTS
    ListIntact
    TakenInOrder
    NeverCrashes
PROPERTIES
    StaysOnlyUnseen
