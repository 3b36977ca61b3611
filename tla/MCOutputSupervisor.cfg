SPECIFICATION Spec
CONSTANTS
    Output = {o1}
    o1 = o1
    MaxAttempts = 2
    SocketRoom = 2
    FdLimit = 2
    NoOutput = NoOutput
INVARIANTS
    WorkerOwned
PROPERTIES
    Replaced
    StopEnds
CHECK_DEADLOCK FALSE
