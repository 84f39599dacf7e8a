CONSTANTS
    Clients = {c1}
    NoClient = nobody
    MaxSessions = 2
    Keys = {k1, k2}
    Fragile = {1, 2}
    Stalling = {c1}
    Deferring = {1, 2}
    KeysRepeat = FALSE
    UdpFails = TRUE
CHECK_DEADLOCK FALSE
SPECIFICATION Spec
INVARIANTS
    SessionStartsClean
