CONSTANTS
    Req = {r1}
    NoReq = NoReq
    Clients <- TwoClients
    PipelineList <- MCPipelines
    SelectRules <- ContinueSelect
    Rules <- PingPongRules
    MinTtl = 0
    JumpLimit = 2
    Malformed = FALSE
    Expiry = TRUE
SPECIFICATION Spec
PROPERTY EveryRequestAnswered
\* the query that waits on its own entry never returns: that stop is the
\* behaviour under examination
CHECK_DEADLOCK FALSE
