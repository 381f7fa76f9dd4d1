\* What the README says of --allow-all-targets.
CONSTANTS
    Cases <- ListCases
    Requests <- AllRequests
SPECIFICATION Spec
INVARIANTS
    AllowAllOnlyWithoutLists
