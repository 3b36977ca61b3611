SPECIFICATION Spec
CONSTANTS
    Source = {s1, s2}
    s1 = s1
    s2 = s2
    MaxAttempts = 2
    MaxDangling = 1
INVARIANTS
    WorkerWatched
    ConnectsOrTimesOut
PROPERTIES
    GivesUpWhenExhausted
    Replaced
CHECK_DEADLOCK FALSE
