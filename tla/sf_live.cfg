\* Response-jump config: liveness through jumps, response actions, the
\* nested process_response_jump, and unparsable replies.
CONSTANTS
    Req = {r1, r2}
    NoReq = NoReq
    Clients <- TwoClients
    PipelineList <- LivePipelines
    SelectRules <- LiveSelect
    Rules <- LiveRules
    MinTtl = 1
    JumpLimit = 3
    Malformed = TRUE
    Expiry = FALSE
SPECIFICATION Spec
INVARIANT SingleFlightExclusive
PROPERTY EveryRequestAnswered
