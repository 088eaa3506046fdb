CONSTANTS
 Queries = {q1, q2}
 s1 = s1
 s2 = s2
 s3 = s3
 Slots = {s1, s2, s3}
 WorkspaceOf <- TrioWorkspaceOf
 Reservation <- TrioReservation
 MaxActive = 2
 MaxMemory = 3
 MaxWorkspaceActive = 1
 MaxWorkspaceMemory = 3
 MaxConcurrentQueries = 2
 MaxRequests = 3
SPECIFICATION Spec
INVARIANTS ChildrenWithinLimits MemoryWithinLimits NothingLeaks LeasedIsNotReclaimed ShutdownLeavesNothing
PROPERTIES QueriesReturn ImplementsService
CHECK_DEADLOCK FALSE
