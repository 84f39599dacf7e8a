CONSTANTS
    Clients = {c1}
    NoClient = nobody
    MaxSessions = 2
    Keys = {k1}
    Fragile = {1}
    Stalling = {c1}
    Deferring = {1}
    KeysRepeat = TRUE
    UdpFails = FALSE
CHECK_DEADLOCK FALSE
SPECIFICATION FairSpec
PROPERTIES
    AttemptsEnd
    SessionsEnd
