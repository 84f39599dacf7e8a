CONSTANTS
    NoVel = novel
    Stale = 1
    Timeout = 2
    MaxWire = 1
SPECIFICATION Spec
INVARIANTS
    LimitersFollowSafeDrive
    HandsOffStops
    TimeoutStops
