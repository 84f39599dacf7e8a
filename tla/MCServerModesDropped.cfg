CONSTANTS
    idle = idle
    stop = stop
    ratio = ratio
    wander = wander
    none = none
    Idle = idle
    NoMode = none
    Defaults <- MCDefaults
    Modes <- MCModes
    Guarded <- MCGuarded
    Joystick <- MCJoystick
SPECIFICATION Spec
PROPERTIES
    RefusalAnswered
