CONSTANTS
    None = None
    r1 = r1
    r2 = r2
    r3 = r3
    MaxLen = 3
    Texts <- Texts13
    Silent = {}
    Closes <- FirstIsCall
    Receipts <- MCReceipts
    ReplayLimit = 0
    MaxCrashes = 1
    MaxJumps = 0
    Faults = {"rebind"}
SPECIFICATION FairSpec
PROPERTIES
    EventuallyDurable
CHECK_DEADLOCK FALSE
