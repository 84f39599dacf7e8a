CONSTANTS
    NoVel = novel
    Stale = 1
    Timeout = 2
    MaxWire = 1
SPECIFICATION FairSpec
PROPERTIES
    RatioInputObeyed
