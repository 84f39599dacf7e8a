SPECIFICATION Spec
CONSTANTS
    Clients = {c1}
    NoClient = NoClient
    Modes = {stop, wander}
    NoMode = NoMode
    MaxAsks = 2
    MaxSwitches = 1
INVARIANT NeverCrashes
CHECK_DEADLOCK FALSE
