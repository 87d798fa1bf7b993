CONSTANTS
    Calls = {c1}
    NoEntry = NoEntry
    Dropped = Dropped
SPECIFICATION SafetySpec
INVARIANTS
    NoAuditLostAtShutdown
CHECK_DEADLOCK FALSE
