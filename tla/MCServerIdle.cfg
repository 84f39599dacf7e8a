CONSTANTS
    Clients = {c1, c2}
    NoClient = noclient
    MaxPackets = 1
    MaxEarly = 0
    MayClose = TRUE
    Commands = {}
    Stop = stop
    Ratio = ratio
    Idle = idle
    NoMode = none
SPECIFICATION Spec
SYMMETRY ClientSymmetry
INVARIANTS
    SlowClientsAlive
    OnlyTheGoneAreDeleted
