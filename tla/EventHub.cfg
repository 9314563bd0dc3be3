CONSTANTS
    Sessions = {"a", "b"}
    RingCapacity = 2
    QueueCapacity = 2
    WireCapacity = 2
    MaxSeq = 3
    MaxConnects = 3
    MaxRestarts = 1
SPECIFICATION Spec
INVARIANTS
    TypeOK
    NoGap
    StreamInOrder
PROPERTIES
    Informed
CHECK_DEADLOCK FALSE
