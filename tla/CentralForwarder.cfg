SPECIFICATION Spec
CONSTANTS
    Clients = {c1, c2}
    NoClient = NoClient
    Periods = {0, 100}
    MaxAsks = 3
    MaxUnasked = 1
INVARIANTS
    AnswersReachAskers
    NobodyWaitsInVain
    WaitersAlive
    RobotFollowsWishes
CHECK_DEADLOCK FALSE
