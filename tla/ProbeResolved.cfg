\* The HELP text of dns_lookup_success against what Run records.
CONSTANTS
    MaxTime = 1
    MaxRekeys = 0
    HostKeyErrors <- OneHostKeyError
    Identifications <- OneIdentification
    StripServerIdentificationComments = FALSE
SPECIFICATION Spec
INVARIANTS
    ResolvedIsReported
