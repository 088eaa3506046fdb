CONSTANTS
    Publishers = {p1, p2}
    Graphs = {empty, g1}
    Models = {empty}
    NoGraph = empty
    NoModel = empty
    MaxAllocations = 2
SPECIFICATION Spec
SYMMETRY PublisherSymmetry
CHECK_DEADLOCK FALSE
INVARIANTS

    LinearHistory
    FreshGraphWasClaimed
    ColdBuildsCounted
PROPERTIES
    ConflictIsJustified
    ImplementsLog
