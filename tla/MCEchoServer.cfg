SPECIFICATION FairSpec
CONSTANTS
    c1 = c1
    c2 = c2
    c3 = c3
    Clients <- MCClients
    Servers <- MCServers
    Slots = 2
    MaxSend <- MCMaxSend
    ReadSize = 2
    SockBuf = 2
    Listening = Listening
    Free = Free
INVARIANTS
    TypeOK
    EchoInOrder
    NeverBlocks
PROPERTIES
    Watched
    Implements
    Answered
CHECK_DEADLOCK FALSE
