SPECIFICATION Spec
CONSTANTS
    LoopIds = {1}
    MsgIds = {1, 2, 3, 4, 5, 6, 7, 8, 9, 10, 11, 12, 13, 14, 15, 16}
    TurnLimits = {1}
    MaxRejectedClaims = 1
    Clients = {c1}
    Requests = {"create", "pause", "resume", "manual", "revert"}
    AgentResults = {"completed", "verified_completed"}
    ManualResults = {"completed"}
    FullRun = {TRUE, FALSE}
    AutoCompact = FALSE
    MaxRequests = 3
    MaxFaults = 1
INVARIANT TypeOK
INVARIANT GoalTurnsAccounted
INVARIANT CompletedOnlyVerified
INVARIANT AppliedOnce
INVARIANT FullRunIgnoresClaims
PROPERTY ClaimAwaitsCheck
PROPERTY UnknownDeliveryHolds
PROPERTY BoundaryMovesForward
PROPERTY KeepsTable
CHECK_DEADLOCK FALSE
