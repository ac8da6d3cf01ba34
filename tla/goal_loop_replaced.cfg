SPECIFICATION Spec
CONSTANTS
    LoopIds = {1, 2}
    MsgIds = {1, 2, 3, 4, 5, 6, 7, 8, 9, 10, 11, 12, 13, 14, 15, 16}
    TurnLimits = {1}
    MaxRejectedClaims = 1
    Clients = {c1, c2}
    Requests = {"create", "pause", "resume", "stop", "manual", "maxTurns", "revert"}
    AgentResults = {"blocked"}
    ManualResults = {"none"}
    FullRun = {FALSE}
    AutoCompact = FALSE
    MaxRequests = 3
    MaxFaults = 1
INVARIANT OpenLoopIsLatest
INVARIANT CopiesAgree
PROPERTY TerminalIsFinal
PROPERTY OnlyResumeRevives
SYMMETRY AnyClient
CHECK_DEADLOCK FALSE
