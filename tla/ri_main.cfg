\* Rule index, candidate selection and rule walk between reloads.
CONSTANTS
    c1 = c1
    c2 = c2
    Clients <- MCClients
    Configs <- MainConfigs
    Queries <- MCQueries
SPECIFICATION Spec
INVARIANTS
    TypeOK
    ChainIsLeftFold
    CandidatesComplete
    CandidatesPreserveDecision
    QuickParseAgrees
    SelectPipelineAgrees
    ResponseMatchAgrees
