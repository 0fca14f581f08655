CONSTANTS
    Req = {r1, r2, r3}
    NoReq = NoReq
    Clients <- MCClients
    PipelineList <- MCPipelines
    SelectRules <- ContinueSelect
    Rules <- ContinueRules
    MinTtl = 0
    JumpLimit = 2
    Malformed = FALSE
    Expiry = TRUE
SPECIFICATION Spec
INVARIANT RuleCacheSound
