SPECIFICATION FairSpec

CONSTANTS
    Bindings = {b1, b2}
    Inquiries = {i1}
    Handles = {h1, h2, h3}
    Invalid = invalid
    CallAfterFailure = FALSE
    ItemLists <- UpToTwoItems
    FirstSize = 1

INVARIANTS
    TypeOK
    StartUpsCounted
    SocketsKept
    LookupsEnded
    NothingSkipped

PROPERTIES
    LookupsEnd

CHECK_DEADLOCK FALSE
