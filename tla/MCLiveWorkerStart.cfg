CONSTANTS
    Waiters = {w1}
    Capacity = 1
    FullInterval = 2
    MayTimeOut = TRUE
    MaxEpoch = 1
    UncertainEvents = {}
    MaxGeneration = 0
    MaxFailures = 0
SPECIFICATION Spec
PROPERTY FailedStartJoins
CHECK_DEADLOCK FALSE
