SPECIFICATION FairSpec
CONSTANTS
    p1 = p1
    p2 = p2
    p3 = p3
    c1 = c1
    c2 = c2
    NoThread = NoThread
    Producers <- MCProducers
    Consumers <- MCConsumers
    Programs <- MCPrograms
    SpuriousWakeups = 1
INVARIANTS
    TypeOK
    MutexDiscipline
    InOrderOnce
    NoLostWakeup
    ConsumersNeverExit
    JoinedQuiet
PROPERTIES
    Proceeds
    Implements
    Terminates
CHECK_DEADLOCK FALSE
