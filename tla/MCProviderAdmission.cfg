CONSTANTS
    Queries = {q1, q2, q3}
    MaxConcurrentQueries = 1
    MaxQueuedQueries = 2
    MaxRequests = 5
SPECIFICATION Spec
INVARIANTS PermitsMatchQueries OvertakingBounded
PROPERTY WaitersLeaveQueue
CHECK_DEADLOCK FALSE
