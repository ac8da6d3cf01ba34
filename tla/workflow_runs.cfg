SPECIFICATION LiveSpec
CONSTANTS
    Optional = {"visual_judge"}
    MaxCycles = 1
    AttemptLimit = 10
    MaxAttempts = 1
    MaxManual = 1
    MaxRestarts = 1
INVARIANTS TypeOK SentOnce DispatchHasOwner UserPauseIsQuiet
PROPERTIES EndedAttemptIsFinal TickEnds PauseCompletes
CHECK_DEADLOCK FALSE
