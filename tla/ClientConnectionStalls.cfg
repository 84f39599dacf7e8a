CONSTANTS
    Clients = {c1}
    NoClient = nobody
    MaxSessions = 1
    Keys = {k1, k2}
    Fragile = {}
    Stalling = {c1}
    Deferring = {}
    KeysRepeat = FALSE
    UdpFails = FALSE
CHECK_DEADLOCK FALSE
SPECIFICATION FairSpec
PROPERTIES
    AttemptsTimeOut
