CONSTANTS
    None = None
    r1 = r1
    r2 = r2
    r3 = r3
    MaxLen = 1
    Texts = {}
    Silent = {}
    Closes <- NoCalls
    Receipts <- MCReceipts
    ReplayLimit = 0
    MaxCrashes = 0
    MaxJumps = 1
    Faults = {"send", "rebind", "close", "lateRead"}
SPECIFICATION FairSpec
PROPERTIES
    BarrierRetired
