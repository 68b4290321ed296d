SPECIFICATION Spec

CONSTANTS
    Producers = {p1}
    Consumers = {c1}
    Owner = owner
    NoThread = nobody
    Junk = junk
    ElemSize = 1
    Powers = {1, 2, 4, 8, 16, 32, 64, 128}
    TopBit = 128
    MinCap = 2
    Limit = 0
    PushSizes = {1, 2, 5}
    PopSizes = {1, 3}
    ReserveSizes = {0}
    MaxBytes = 7
    Releasing = {p1, owner}

INVARIANTS
    TypeOK
    PointersInOrder
    CapacityInOrder
    NothingLost
    SnapshotsSafe
    CopiesDisjoint

CHECK_DEADLOCK FALSE
