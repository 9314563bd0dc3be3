CONSTANTS
    t1 = t1
    t2 = t2
    w1 = w1
    w2 = w2
    c1 = c1
    c2 = c2
    p1 = p1
    None = None
    Topics = {t1, t2}
    Windows = {w1, w2}
    ClaimIds = {c1, c2}
    Recoverers = {p1}
    RetiredLimit = 1
    HiddenEffect = {"resent"}
    MaxFaults = 2
    MaxEvents = 3
SYMMETRY Symmetry
SPECIFICATION Spec
INVARIANTS
    RoutingIsUnique
    DeletingIsFree
    DeletionIsDurable
    NoStrandedTopic
    NoDuplicateTopic
PROPERTIES
    RecoveryNeverEvicts
    ReleaseLeavesTrace
CHECK_DEADLOCK FALSE
