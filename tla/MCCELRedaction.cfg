CONSTANTS
    N = 2
    MaxBlocking = 1
    MaxTime = 1
SPECIFICATION SafetySpec
INVARIANTS
    MatchedContentIsRedacted
CHECK_DEADLOCK FALSE
