CONSTANTS
    None = None
    e1 = e1
    e2 = e2
    Hooks = {1, 2}
    p = p
    Prompts = {p}
    Stamp <- InOrder
    Asks <- SameText
    Ids = {"a", "b"}
    Executors <- MCExecutors
    Kinds <- AnswerAndOther
    QueueMax = 1
    MaxShown = 2
    MaxAge = 1
    MaxFaults = 1
SPECIFICATION Spec
SYMMETRY MCSymmetry
INVARIANTS
    TypeOK
    InputsOnce
    OutcomeIsTrue
    OneRequestPerHook
    ControlsAreNewest
PROPERTIES
    DecidedOnEvidence
    FinishingKeepsNewEvidence
