SPECIFICATION FairSpec

CONSTANTS
    Producers = {p1}
    Consumers = {c1}
    Owner = owner
    NoThread = nobody
    Junk = junk
    ElemSize = 1
    Powers = {1, 2, 4, 8, 16, 32, 64, 128}
    TopBit = 128
    MinCap = 2
    Limit = 0
    PushSizes = {1}
    PopSizes = {1}
    ReserveSizes = {}
    MaxBytes = 1
    Releasing = {}

PROPERTIES
    ElementsEndTheWait

CHECK_DEADLOCK FALSE
