CONSTANTS
    Rules = {r1, r2, r3}
    NoRule = NoRule
    MaxBlocking = 2
    MaxTime = 3
SPECIFICATION Spec
INVARIANTS
    TypeOK
    AuditOnlyPhaseNeverBlocks
    BypassIsHonest
    RecordTellsDecision
    AsyncRecordIsComplete
    ReturnsAssumedResult
PROPERTIES
    DecisionStands
    ImplementsPolicyPhase
    EventuallyCompletes
CHECK_DEADLOCK FALSE
