CONSTANTS
    Ids = {s1}
    Names = {n1}
    PassThrough = {n1}
    Kinds = {"lazy", "all"}
    MaxSessions = 1
    MaxConns = 2
    NoName = NoName
SPECIFICATION SafetySpec
INVARIANTS
    CleanupReleasesEverything
CHECK_DEADLOCK FALSE
