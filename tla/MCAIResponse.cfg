CONSTANTS
    Rules = {r1, r2, r3}
    NoRule = NoRule
    MaxBlocking = 1
    MaxTime = 2
SPECIFICATION Spec
INVARIANTS
    TypeOK
    ReturnsAssumedResult
    RedactionIsKept
    RecordTellsDecision
PROPERTIES
    ImplementsPolicyPhase
    EventuallyRecorded
CHECK_DEADLOCK FALSE
