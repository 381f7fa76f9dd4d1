\* Every interleaving with three clock ticks and one rekey; no help from resolver, network or server.
CONSTANTS
    MaxTime = 3
    MaxRekeys = 1
    HostKeyErrors <- TwoHostKeyErrors
    Identifications <- OneIdentification
    StripServerIdentificationComments = TRUE
SPECIFICATION FairSpec
INVARIANTS
    TypeOK
    PhaseOrder
    FailureExplained
    VerdictIsFirst
    OwnCloseBlamedOnContext
    DurationsFit
PROPERTIES
    ImplementsPhaseLadder
    Termination
