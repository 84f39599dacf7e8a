CONSTANTS
    Clients = {c1}
    NoClient = noclient
    MaxPackets = 1
    MaxEarly = 1
    MayClose = FALSE
    Commands = {stop, ratio}
    Stop = stop
    Ratio = ratio
    Idle = idle
    NoMode = none
SPECIFICATION FairSpec
INVARIANTS
    CallbacksReported
PROPERTIES
    ImplementsArbiter
    DeferredPacketsServed
    IdleStateBroadcast
