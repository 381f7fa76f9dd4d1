\* Families of files (ports, lists and flag, algorithms, patterns), each asked every request.
CONSTANTS
    Cases <- AllCases
    Requests <- AllRequests
SPECIFICATION Spec
INVARIANTS
    LoadedIffAllValid
    ProbedIffConfigured
    AdvertisedAsConfigured
