SPECIFICATION FairSpec
CONSTANTS
    s1 = s1
    s2 = s2
    Senders <- MCSenders
    Messages = 3
    MsgLen = 3
    BufSize = 4
    PipeSize = 9
    Kills = 2
INVARIANTS
    TypeOK
    StreamInOrder
    NoJunk
    Test2Hangs
PROPERTIES
    Delivered
CHECK_DEADLOCK FALSE
