SPECIFICATION Spec
CONSTANTS
    w1 = w1
    w2 = w2
    r1 = r1
    Writers <- MCWriters
    Readers <- MCReaders
    Size = 4
    MsgLen = 2
INVARIANTS
    TypeOK
    OnlyHoles
    Settled
CHECK_DEADLOCK FALSE
