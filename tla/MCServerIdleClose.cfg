CONSTANTS
    Clients = {c1}
    NoClient = noclient
    MaxPackets = 1
    MaxEarly = 0
    MayClose = TRUE
    Commands = {}
    Stop = stop
    Ratio = ratio
    Idle = idle
    NoMode = none
SPECIFICATION Spec
INVARIANTS
    SlowClientsAliveAtClose
