SPECIFICATION Spec

CONSTANTS
    Producers = {p1, p2}
    Consumers = {c1}
    Owner = owner
    NoThread = nobody
    Junk = junk
    ElemSize = 1
    Powers = {1, 2, 4, 8, 16, 32, 64, 128}
    TopBit = 128
    MinCap = 2
    Limit = 4
    PushSizes = {1, 3}
    PopSizes = {2}
    ReserveSizes = {}
    MaxBytes = 3
    Releasing = {c1}

INVARIANTS
    AtMostLimit

PROPERTIES
    IsFifo

CHECK_DEADLOCK FALSE
