SPECIFICATION Spec
CONSTANTS
    MaxId = 1
    MaxSpawn = 3
    MaxCrash = 0
INVARIANT AtMostOneProcess
