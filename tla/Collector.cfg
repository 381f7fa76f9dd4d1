\* Every result Run can return, with every kind of identification, as metrics.
CONSTANTS
    MaxTime = 1
    MaxRekeys = 0
    HostKeyErrors <- OneHostKeyError
    Identifications <- AllIdentifications
    StripServerIdentificationComments = FALSE
SPECIFICATION CollectorSpec
INVARIANTS
    GatherSucceeds
    DurationIffSuccess
    AlgorithmsOnlyWithKeyExchange
    SuccessOrErrorInfo
