CONSTANTS
    Files = {f1}
    Waiters = {w1}
    StableScanLimit = 1
    MaxChanges = 2
    MaxEpoch = 0
    MaxGeneration = 1
SPECIFICATION Spec
INVARIANT
    WaiterSeesEveryEarlierChange
