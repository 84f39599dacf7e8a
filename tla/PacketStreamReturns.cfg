CONSTANTS
    Payloads <- MCPayloads
    MaxLength = 16
    Capacity = 5
    BackupTimeout = 2
    MaxReconnects = 0
CHECK_DEADLOCK FALSE
SPECIFICATION ReaderSpec
PROPERTIES
    ReadReturns
