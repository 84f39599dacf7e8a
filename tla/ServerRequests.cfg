SPECIFICATION Spec
CONSTANTS
    Clients = {c1}
    NoClient = NoClient
    Modes = {stop, wander}
    NoMode = NoMode
    MaxAsks = 2
    MaxSwitches = 2
INVARIANTS
    AnswersNamed
    BroadcastsReachLiving
    RequestersKnowMode
PROPERTIES
    DueRequestsServed
CHECK_DEADLOCK FALSE
