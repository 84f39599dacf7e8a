CONSTANTS
    Payloads <- MCPayloads
    MaxLength = 16
    Capacity = 5
    BackupTimeout = 2
    MaxReconnects = 2
CHECK_DEADLOCK FALSE
SPECIFICATION FairSpec
INVARIANTS
    TypeOK
    BackedUpMeansDead
PROPERTIES
    ImplementsChannel
    EverythingArrives
    BackedUpCloses
