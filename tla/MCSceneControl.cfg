SPECIFICATION Spec
CONSTANTS
    NONE = NONE
    Source = {s1, s2}
    s1 = s1
    s2 = s2
    Scene = {main, extra}
    main = main
    extra = extra
    Item = {1}
    Filter = {blur}
    blur = blur
    Depth = {0, 15}
    MaxCalls = 4
SYMMETRY Symmetry
INVARIANTS
    GraphSound
    WorkersMatchGraph
    PushedIsCurrent
    HeardIsOnAir
CHECK_DEADLOCK FALSE
