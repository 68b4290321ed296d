SPECIFICATION FairSpec

CONSTANTS
    Callers = {c1}
    NoCaller = nobody
    Devices = {d1}
    OpsOf <- EveryoneEverything
    Lengths = {1}
    UInt16Size = 4
    Mtu = 2
    Faults = {"remote_closes"}
    MaxCalls <- TwoEach
    MaxPackets = 0

PROPERTIES
    CallsReturn

CHECK_DEADLOCK FALSE
