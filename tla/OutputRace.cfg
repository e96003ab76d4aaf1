SPECIFICATION Spec
CONSTANTS
    worker1 = worker1
    worker2 = worker2
    main = main
    io = io
    n1 = n1
    n2 = n2
    n3 = n3
    n4 = n4
    NULL = NULL
    Nobody = Nobody
    Nothing = Nothing
    Producers <- MainAlone
    Consumer <- io
    LockOf <- OutputLocks
    Objects = 2
    Nodes <- FourNodes
INVARIANTS
    PushedArrives
