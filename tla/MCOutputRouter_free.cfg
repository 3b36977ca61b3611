SPECIFICATION Spec
CONSTANTS
    QueueCapacity = 1
    RetainCapacity = 2
    RetainCount = 1
    EncodeDuplicates = TRUE
    MaxOutput = 1
    MaxSnapshot = 1
    MaxPreview = 2
    MaxContent = 1
    NoLease = NoLease
INVARIANTS
    FreedReturnsAll
PROPERTIES
    FreeTerminates
CHECK_DEADLOCK FALSE
