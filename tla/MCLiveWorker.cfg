CONSTANTS
    Waiters = {w1}
    Capacity = 1
    FullInterval = 1
    MayTimeOut = TRUE
    MaxEpoch = 3
    UncertainEvents = {2}
    MaxGeneration = 1
    MaxFailures = 1
SPECIFICATION Spec
INVARIANTS
    DroppedEventForcesReread
    CertainWindowIsComplete
    OneCheckpointStaged
CHECK_DEADLOCK FALSE
PROPERTIES
    CheckpointEventuallyTaken
    ShutdownJoins
    EveryWaiterReturns
    EventsAreReconciled
