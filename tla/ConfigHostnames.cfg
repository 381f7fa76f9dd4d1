\* What the example configuration says of hostname patterns.
CONSTANTS
    Cases <- PatternCases
    Requests <- AllRequests
SPECIFICATION Spec
INVARIANTS
    HostnamePatternsMatchOnlyHostnames
