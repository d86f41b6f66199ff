SPECIFICATION Spec
CONSTANTS
    c1 = c1
    c2 = c2
    Clients <- MCClients
    FirstSizes <- MCFirstSizes
    Name <- MCName
    MaxSize = 3
    InfoSize = 2
    ChunkSize = 2
    SockBuf = 2
    Edits = 0
    Faults = 1
INVARIANTS
    SuccessMeansStored
CHECK_DEADLOCK FALSE
