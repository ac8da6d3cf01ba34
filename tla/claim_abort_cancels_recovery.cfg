SPECIFICATION Spec
CONSTANTS
    MaxSends = 1
    Sync = {1}
    Stored = {1}
    Timeout = 1
    Grace = 1
    MaxNow = 4
    MaxSize = 3
    MaxFaults = 1
PROPERTIES
    AbortCancelsRecovery
CHECK_DEADLOCK FALSE
