SPECIFICATION Spec
CONSTANTS
    Optional = {}
    MaxCycles = 3
    AttemptLimit = 10
    MaxAttempts = 2
    MaxManual = 0
    MaxRestarts = 0
PROPERTY CompletedOnOneSubject
CHECK_DEADLOCK FALSE
