CONSTANTS
    Clients = {c1, c2}
    NoClient = nobody
    MaxSessions = 2
    Keys = {k1, k2}
    Fragile = {1}
    Stalling = {}
    Deferring = {}
    KeysRepeat = FALSE
    UdpFails = FALSE
CHECK_DEADLOCK FALSE
SPECIFICATION Spec
SYMMETRY Symmetry
INVARIANTS
    VerdictsAgree
    UdpGoesToItsClient
    TcpOnlyTold
