CONSTANTS
    idle = idle
    stop = stop
    ratio = ratio
    wander = wander
    none = none
    Idle = idle
    NoMode = none
    Defaults <- MCDefaults
    Modes <- MCModes
    Guarded <- MCGuarded
    Joystick <- MCJoystick
SPECIFICATION FairSpec
INVARIANTS
    NobodyWaitsForVacantRobot
    ClientsInformed
    TypeOK
    OneModeInControl
    LockHasHolder
    QueueSound
PROPERTIES
    LockedInUntilItEnds
    WaitersAnswered
    IdleGate
    LatestRequestFollowsIdle
    RobotComesBack
