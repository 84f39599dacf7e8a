CONSTANTS
    NoThread = nobody
    AppThreads = {app}
SPECIFICATION Spec
CHECK_DEADLOCK FALSE
INVARIANTS
    CircularWaitNeedsUdp
    SlowWorkStallsNobody
