SPECIFICATION Spec
CONSTANTS
    Source = {s1}
    s1 = s1
    MaxAttempts = 2
    MaxDangling = 1
INVARIANT NoDanglingTimer
CHECK_DEADLOCK FALSE
