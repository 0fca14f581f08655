CONSTANTS
    Req = {r1, r2, r3}
    NoReq = NoReq
    Clients <- MCClients
    PipelineList <- MCPipelines
    SelectRules <- ContinueSelect
    Rules <- LeakRules
    MinTtl = 0
    JumpLimit = 2
    Malformed = FALSE
    Expiry = TRUE
SPECIFICATION Spec
INVARIANT NoOrphanSlot
