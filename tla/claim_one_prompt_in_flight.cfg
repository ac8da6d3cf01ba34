SPECIFICATION Spec
CONSTANTS
    LoopIds = {1}
    MsgIds = {1, 2, 3, 4, 5, 6, 7, 8, 9}
    TurnLimits = {2}
    MaxRejectedClaims = 1
    Clients = {c1}
    Requests = {"create", "pause", "resume"}
    AgentResults = {"progress", "completed", "verified_completed"}
    ManualResults = {"none"}
    FullRun = {FALSE}
    AutoCompact = FALSE
    MaxRequests = 3
    MaxFaults = 1
INVARIANT OnePromptInFlight
CHECK_DEADLOCK FALSE
