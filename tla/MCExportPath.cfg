SPECIFICATION PathSpec
CONSTANTS
    QueueCapacity = 2
    RetainCapacity = 2
    RetainCount = 1
    EncodeDuplicates = FALSE
    MaxOutput = 4
    MaxSnapshot = 0
    MaxPreview = 0
    MaxContent = 2
    NoLease = NoLease
    Slots = 1
    Targets = 2
    RefModulus = 4
    MaxFrames = 2
    MaxModes = 1
    None = None
INVARIANTS
    LeaseOwnedOnce
    PinnedBound
    PipelineOrdered
    SkipsOnlyQueued
    SlotsComeBack
    SlotsUsedSafely
CHECK_DEADLOCK FALSE
