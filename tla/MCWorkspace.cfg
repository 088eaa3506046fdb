CONSTANTS
    Callers = {t1, t2}
    Commits = {c1, c2}
    MaxMemoryEntries = 1
    w1 = w1
    w2 = w2
    w3 = w3
    Workspaces = {w1, w2, w3}
    Repositories = {"r1", "r2"}
    RepositoryOf <- MCRepositoryOf
    MaxWorkspaces = 2
    MaxLayerCompositionAttempts = 2
    None = None
    MaxRegistrations = 3
    MaxHeadMoves = 1
SPECIFICATION Spec
INVARIANTS OneOwnerPerWorktree StoppedIsNeverFresh OneRepository ShutdownIsFinal NoDuplicateBuild
PROPERTIES CallsReturn ImplementsOwnership
CHECK_DEADLOCK FALSE
