SPECIFICATION LiveSpec
CONSTANTS
    LoopIds = {1}
    MsgIds = {1, 2, 3, 4, 5, 6, 7, 8, 9, 10, 11, 12, 13, 14, 15, 16}
    TurnLimits = {1}
    MaxRejectedClaims = 1
    Clients = {c1}
    Requests = {"create", "manual", "resume"}
    AgentResults = {"completed"}
    ManualResults = {"none"}
    FullRun = {FALSE}
    AutoCompact = TRUE
    MaxRequests = 2
    MaxFaults = 1
PROPERTY TurnEnds
PROPERTY LoopSettles
CHECK_DEADLOCK FALSE
