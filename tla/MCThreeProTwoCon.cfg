SPECIFICATION FairSpec
CONSTANTS
    p1 = p1
    p2 = p2
    p3 = p3
    c1 = c1
    c2 = c2
    NoThread = NoThread
    Producers <- MCProducers
    Consumers <- MCConsumers
    Programs <- MCThreeProTwoCon
    SpuriousWakeups = 1
PROPERTY
    ConsumersExit
CHECK_DEADLOCK FALSE
