SPECIFICATION FairSpec
CONSTANTS
    c1 = c1
    c2 = c2
    c3 = c3
    Clients <- MCClients
    MsgSize = 3
    ReadSize = 3
    ForkLimits <- MCForkLimits
    MaxOpen = 2
INVARIANTS
    TypeOK
PROPERTIES
    Implements
    Answered
    AllEnd
    Proceeds
CHECK_DEADLOCK FALSE
