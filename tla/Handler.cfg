\* Two requests in every interleaving with reloads; no limit and a limit of one probe.
CONSTANTS
    Requests = {r1, r2}
    Configs <- TwoConfigs
    Queries <- SomeQueries
    Limits = {0, 1}
    Timeout = 4
    TimeoutOffset = 1
SPECIFICATION FairSpec
INVARIANTS
    TypeOK
    SlotAccounting
    ProbeAllowedByOneConfig
    CountedOnceAsSent
    NoSeriesForUnknownModules
    TimeoutLeavesRoom
PROPERTIES
    Quiesces
