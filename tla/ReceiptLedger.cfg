CONSTANTS
    MaxCheckpoint = 2
    Consumers = 2
    MaxPending = 2
SPECIFICATION Spec
INVARIANTS
    WatermarkBelowOutstanding
    OffsetIsLargestSafe
PROPERTIES
    WatermarkMonotone
