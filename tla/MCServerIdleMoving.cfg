CONSTANTS
    Clients = {c1}
    NoClient = noclient
    MaxPackets = 1
    MaxEarly = 0
    MayClose = FALSE
    Commands = {stop, ratio}
    Stop = stop
    Ratio = ratio
    Idle = idle
    NoMode = none
SPECIFICATION Spec
INVARIANTS
    IdlePacketsOnlyWhenIdle
