CONSTANTS
    t1 = t1
    t2 = t2
    w1 = w1
    c1 = c1
    p1 = p1
    None = None
    Topics = {t1, t2}
    Windows = {w1}
    ClaimIds = {c1}
    Recoverers = {p1}
    RetiredLimit = 1
    HiddenEffect = {"resent"}
    MaxFaults = 2
    MaxEvents = 3
SPECIFICATION FairSpec
PROPERTIES
    ClaimsResolve
    RetiredTopicsGo
CHECK_DEADLOCK FALSE
