\* Config reloads by the watcher, with compiled_pipelines as Engine::new built it.
CONSTANTS
    c1 = c1
    c2 = c2
    Clients <- MCClients
    Configs <- ReloadConfigs
    Queries <- ReloadQueries
SPECIFICATION SpecReload
INVARIANT CompiledFollowsReload
