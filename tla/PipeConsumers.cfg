SPECIFICATION Spec

CONSTANTS
    Producers = {p1}
    Consumers = {c1, c2}
    Owner = owner
    NoThread = nobody
    Junk = junk
    ElemSize = 2
    Powers = {1, 2, 4, 8, 16, 32, 64, 128}
    TopBit = 128
    MinCap = 2
    Limit = 0
    PushSizes = {2}
    PopSizes = {3}
    ReserveSizes = {0}
    MaxBytes = 8
    Releasing = {p1, owner}

SYMMETRY Symmetry

INVARIANTS
    MutexesHeld
    CopiesInsideAllocation

PROPERTIES
    NothingAfterEof

CHECK_DEADLOCK FALSE
