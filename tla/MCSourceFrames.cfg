CONSTANTS
    Frames = 3
    MaxInFlight = 3
    RingSize = 1
    SocketRoom = 1
    Entries = 2
    Packed = TRUE
SPECIFICATION Spec
INVARIANTS ReleasedOnce SampledHeld
PROPERTY CaptureGoesOn
CHECK_DEADLOCK FALSE
