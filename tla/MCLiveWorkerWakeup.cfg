CONSTANTS
    Waiters = {w1}
    Capacity = 1
    FullInterval = 2
    MayTimeOut = FALSE
    MaxEpoch = 2
    UncertainEvents = {}
    MaxGeneration = 1
    MaxFailures = 0
SPECIFICATION Spec
INVARIANT DemandIsDurable
CHECK_DEADLOCK FALSE
