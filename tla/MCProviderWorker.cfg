CONSTANTS
    d1 = d1
    d2 = d2
    a = a
    b = b
    Documents = {d1, d2}
    Workspaces <- MCWorkspaces
    Absent = Absent
    Closed = Closed
    CommandCapacity = 1
    MaxRevision = 3
    MaxCalls = 2
    MaxQuestions = 2
SPECIFICATION Spec
INVARIANTS AnswersMatchRevision SessionInStep
PROPERTY WorkerReturns
CHECK_DEADLOCK FALSE
