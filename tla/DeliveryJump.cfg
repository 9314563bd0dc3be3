CONSTANTS
    None = None
    r1 = r1
    r2 = r2
    r3 = r3
    MaxLen = 2
    Texts = {}
    Silent = {}
    Closes <- NoCalls
    Receipts <- MCReceipts
    ReplayLimit = 0
    MaxCrashes = 1
    MaxJumps = 1
    Faults = {"save", "rebind"}
SPECIFICATION Spec
SYMMETRY MCSymmetry
INVARIANTS
    SettleNeverRaises
    CleanMeansSaved
PROPERTIES
    DeliversAtLeastOnce
    BarrierFreezesWatermark
