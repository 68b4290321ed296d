SPECIFICATION Spec

CONSTANTS
    Callers = {c1, c2}
    NoCaller = nobody
    Devices = {d1, d2}
    OpsOf <- EveryoneEverything
    Lengths = {3}
    UInt16Size = 4
    Mtu = 2
    Faults = {"connect_fails", "write_refused", "remote_closes"}
    MaxCalls <- TwoEach
    MaxPackets = 2

SYMMETRY Symmetry

INVARIANTS
    TypeOK
    CompletionOwnsLock
    ResultsAreOwn
    WritesDoNotMix
    WritesWhole
    PacketsKept

CHECK_DEADLOCK FALSE
