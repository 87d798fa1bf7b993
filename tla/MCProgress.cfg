CONSTANTS
    Tests = 2
    Pauses = 1
SPECIFICATION Spec
PROPERTY
    StopReturns
CHECK_DEADLOCK FALSE
