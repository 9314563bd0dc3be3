CONSTANTS
    MaxEvents = 3
    MaxTruncations = 0
    MaxRestarts = 1
    Windows = {w1}
    Sessions = {s1, s2}
    None = None
    MaxHooks = 2
    MaxEnds = 1
    MaxNested = 1
    MaxSlips = 1
SPECIFICATION MapSpec
SYMMETRY Symmetry
INVARIANTS
    InOrderAtMostOnce
    OpeningKept
    NothingLeftTracked
CHECK_DEADLOCK FALSE
