CONSTANTS
    None = None
    r1 = r1
    r2 = r2
    r3 = r3
    MaxLen = 3
    Texts <- AllTexts
    Silent = {}
    Closes <- NoCalls
    Receipts <- MCReceipts
    ReplayLimit = 0
    MaxCrashes = 0
    MaxJumps = 0
    Faults = {}
SPECIFICATION Spec
SYMMETRY MCSymmetry
INVARIANTS
    EveryTaskSettled
CHECK_DEADLOCK FALSE
