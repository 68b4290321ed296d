SPECIFICATION FairSpec

CONSTANTS
    Producers = {p1, p2}
    Consumers = {c1}
    Owner = owner
    NoThread = nobody
    Junk = junk
    ElemSize = 1
    Powers = {1, 2, 4, 8, 16, 32, 64, 128}
    TopBit = 128
    MinCap = 1
    Limit = 1
    PushSizes = {2}
    PopSizes = {1}
    ReserveSizes = {}
    MaxBytes = 2
    Releasing = {p1, p2, c1, owner}

INVARIANTS
    RefcountsMatchHandles
    BufferLiveWhenUsed

PROPERTIES
    MutexesGranted
    ReleaseWakesProducers
    ReleaseWakesConsumers

CHECK_DEADLOCK FALSE
