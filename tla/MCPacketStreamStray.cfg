CONSTANTS
    Payloads <- MCPayloads
    MaxLength = 16
    Capacity = 5
    BackupTimeout = 2
    MaxReconnects = 1
CHECK_DEADLOCK FALSE
SPECIFICATION Spec
INVARIANTS
    NothingInvented
