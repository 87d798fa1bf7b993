CONSTANTS
    Policies = {p1, p2}
    Limit = 2
    MaxScaling = 2
    RetryMax = 1
    Retries = 1
    Tests = 2
SPECIFICATION Spec
INVARIANTS
    TypeOK
    SequentialFromNextAttempt
    OvershootIsBounded
    StoppedProviderIsLeftAlone
PROPERTY
    RunEnds
CHECK_DEADLOCK FALSE
