SPECIFICATION FairSpec
CONSTANTS
    Srt = {srt}
    srt = srt
    Plain = {plain}
    plain = plain
    Caller = {c1}
    c1 = c1
    MaxOps = 2
    None = None
INVARIANTS
    SessionsOwned
    
PROPERTIES
    CallersServed
    CallsReturn
CHECK_DEADLOCK FALSE
