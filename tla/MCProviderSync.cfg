CONSTANTS
    d1 = d1
    d2 = d2
    a = a
    b = b
    Documents = {d1, d2}
    Workspaces <- MCWorkspaces
    Absent = Absent
    Closed = Closed
    CommandCapacity = 1
    MaxRevision = 3
    MaxCalls = 3
    MaxQuestions = 2
SPECIFICATION Spec
INVARIANT BarrierIsTheCurrentGeneration
CHECK_DEADLOCK FALSE
