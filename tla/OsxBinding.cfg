SPECIFICATION BindingFairSpec

CONSTANTS
    c1 = c1
    c2 = c2
    Callers = {c1, c2}
    NoCaller = nobody
    d1 = d1
    Devices = {d1}
    AddressOf <- OneAddress
    OpsOf <- OneConnection
    Lengths = {1, 3}
    UInt16Size = 4
    Mtu = 2
    Faults = {"connect_fails", "closes_between_writes"}
    MaxCalls <- TwoAndOne
    MaxPackets = 2
    ReadLengths = {0, 2}

INVARIANTS
    ConnectedCanRead
    UsesLiveConsumers

PROPERTIES
    
    CallsReturn
    ReadsEnd

CHECK_DEADLOCK FALSE
