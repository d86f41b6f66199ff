SPECIFICATION FairSpec
CONSTANTS
    c1 = c1
    c2 = c2
    Clients <- MCClients
    FirstSizes <- MCFirstSizes
    Name <- MCName
    MaxSize = 3
    InfoSize = 2
    ChunkSize = 2
    SockBuf = 2
    Edits = 1
    Faults = 2
INVARIANTS
    TypeOK
    InStep
    FileIntact
    SentIsStored
PROPERTIES
    Proceeds
    ChildrenExit
    ClientsExit
CHECK_DEADLOCK FALSE
