SPECIFICATION Spec
CONSTANTS
    MaxId = 1
    MaxSpawn = 2
    MaxCrash = 1
INVARIANTS
    RunningIsWatched
    OnlyTheLostStray
    DiskCurrent
    IdsFresh
PROPERTY ComesBack
