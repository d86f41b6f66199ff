SPECIFICATION FairSpec
CONSTANTS
    c1 = c1
    c2 = c2
    Clients <- MCClients
    Listening = Listening
PROPERTIES
    Accepted
CHECK_DEADLOCK FALSE
