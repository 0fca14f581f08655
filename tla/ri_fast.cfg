\* fast_static_match against apply_rules: first rules without a precomputed answer.
CONSTANTS
    c1 = c1
    c2 = c2
    Clients <- MCClients
    Configs <- FastConfigs
    Queries <- MCQueries
SPECIFICATION Spec
INVARIANT FastPathAgrees
