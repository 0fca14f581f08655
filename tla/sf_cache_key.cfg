CONSTANTS
    Req = {r1, r2, r3}
    NoReq = NoReq
    Clients <- MCClients
    PipelineList <- MCPipelines
    SelectRules <- ActionSelect
    Rules <- ActionRules
    MinTtl = 1
    JumpLimit = 2
    Malformed = FALSE
    Expiry = TRUE
SPECIFICATION Spec
INVARIANT CacheEntryKeyed
