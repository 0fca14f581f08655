CONSTANTS
    Req = {r1, r2, r3, r4}
    NoReq = NoReq
    Clients <- MCClients
    PipelineList <- MCPipelines
    SelectRules <- ContinueSelect
    Rules <- PlainRules
    MinTtl = 0
    JumpLimit = 2
    Malformed = TRUE
    Expiry = FALSE
SPECIFICATION Spec
INVARIANT SingleFlightExclusive
