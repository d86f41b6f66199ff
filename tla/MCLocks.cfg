SPECIFICATION FairSpec
CONSTANTS
    t1 = t1
    t2 = t2
    t3 = t3
    t4 = t4
    parent = parent
    Threads <- MCThreads
    Parent = parent
    Programs <- MCPrograms
    NotSeen = NotSeen
INVARIANTS
    TypeOK
    Exclusion
    DestroyedQuiet
PROPERTIES
    Implements
    Finishes
CHECK_DEADLOCK FALSE
