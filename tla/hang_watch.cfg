SPECIFICATION Spec
CONSTANTS
    MaxSends = 2
    Sync = {1}
    Stored = {1, 2}
    Timeout = 1
    Grace = 1
    MaxNow = 4
    MaxSize = 2
    MaxFaults = 1
INVARIANTS
    TypeOK
    ResumedOnce
    ResolvingHasOwner
PROPERTIES
    NeverRestartsFinished
CHECK_DEADLOCK FALSE
