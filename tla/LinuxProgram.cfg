SPECIFICATION FairSpec

CONSTANTS
    MaxFd = 7
    Seen <- SomeSeen
    Responses <- SomeResponses
    MaxLength = 3

INVARIANTS
    TypeOK
    ClosesOwn
    NothingLeftOpen
    FindsChannel
    DecodesClass

PROPERTIES
    EndMeansClosed
    EndReachesUser

CHECK_DEADLOCK FALSE
