SPECIFICATION Spec
CONSTANTS
    Transcripts <- FeedTranscripts
    Modes = {"batched", "ephemeral", "verbose"}
    MaxEntries = 2
    MaxMerge = 2
    Texts = {t1, t2}
    MaxStatus = 2
    MaxFaults = 2
    None = None
INVARIANTS
    QueueAccounts
    DeliveredIsShown
    OrderKept
    ShownOnce
    NoGhosts
CHECK_DEADLOCK FALSE
