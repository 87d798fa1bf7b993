CONSTANTS
    Ids = {s1}
    Names = {n1, n2}
    PassThrough = {n1}
    Kinds = {"lazy", "all"}
    MaxSessions = 2
    MaxConns = 2
    NoName = NoName
SPECIFICATION Spec
INVARIANTS
    TypeOK
    OpenClientHasOneOwner
PROPERTIES
    AbandonedSessionCloses
CHECK_DEADLOCK FALSE
