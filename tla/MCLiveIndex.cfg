CONSTANTS
    Files = {f1, f2}
    Waiters = {w1}
    StableScanLimit = 1
    MaxChanges = 2
    MaxEpoch = 1
    MaxGeneration = 1
SPECIFICATION Spec
SYMMETRY Symmetry
INVARIANTS

    SnapshotNotTorn
    WaiterSeesEarlierChanges
    FreshCoversEpoch
    NoStrandedWaiter
    LayersMatchCommit
