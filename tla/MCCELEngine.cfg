CONSTANTS
    N = 3
    MaxBlocking = 1
    MaxTime = 2
SPECIFICATION SafetySpec
INVARIANTS
    TypeOK
    ReturnsAssumedResult
    FirstDenyDecides
PROPERTIES
    ImplementsPolicyPhase
CHECK_DEADLOCK FALSE
