SPECIFICATION Spec
CONSTANTS
    Optional = {"visual_judge"}
    MaxCycles = 1
    AttemptLimit = 2
    MaxAttempts = 2
    MaxManual = 1
    MaxRestarts = 1
INVARIANTS OneInFlightPerNode
PROPERTIES OnlyRequestsRevive KeepsTable
CHECK_DEADLOCK FALSE
