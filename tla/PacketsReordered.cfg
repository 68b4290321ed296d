SPECIFICATION Spec

CONSTANTS
    Callers = {c1}
    NoCaller = nobody
    Devices = {d1}
    OpsOf <- EveryoneEverything
    Lengths = {1}
    UInt16Size = 4
    Mtu = 2
    Faults = {}
    MaxCalls <- TwoEach
    MaxPackets = 2

INVARIANTS
    PacketsInOrder

CHECK_DEADLOCK FALSE
