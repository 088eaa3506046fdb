CONSTANTS
    Directories = {1, 2}
    WatchLimit = 2
    MaxErrors = 3
SPECIFICATION Spec
INVARIANTS TypeOK GapIsRecorded
PROPERTY ReadyIsWatched
CHECK_DEADLOCK FALSE
