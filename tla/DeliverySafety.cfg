CONSTANTS
    None = None
    r1 = r1
    r2 = r2
    r3 = r3
    MaxLen = 4
    Texts <- Texts134
    Silent = {2}
    Closes <- FirstIsCall
    Receipts <- MCReceipts
    ReplayLimit = 1
    MaxCrashes = 2
    MaxJumps = 0
    Faults <- AllFaults
SPECIFICATION Spec
SYMMETRY MCSymmetry
INVARIANTS
    DurableCovered
    ToolPairsWhole
PROPERTIES
    NeverRequeueCommitted
