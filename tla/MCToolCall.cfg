CONSTANTS
    Calls = {c1}
    NoEntry = NoEntry
    Dropped = Dropped
SPECIFICATION Spec
INVARIANTS
    TypeOK
    DeniedCallNeverRuns
    ResponseIsFiltered
    AuditTellsOutcome
    EveryPhaseIsOnRecord
PROPERTIES
    QueuedAuditIsWritten
    StopEventuallyExits
CHECK_DEADLOCK FALSE
