CONSTANTS
    AICases = {a1}
    BothCases = {b1}
    Models = {m1, m2}
    Versions = {1, 2}
    MaxTests = 1
    MaxInvocations = 2
SYMMETRY Symmetry
SPECIFICATION Spec
INVARIANTS
    TypeOK
    CrashLosesOnlyRunningTest
    IncrementalMakesProgress
    MoreRemainIsHonest
    AllResultsReported
PROPERTY
    NothingForgotten
CHECK_DEADLOCK FALSE
