SPECIFICATION ConfigSpec
CONSTANTS
    NONE = NONE
    Source = {s1}
    s1 = s1
    Scene = {main}
    main = main
    Item = {1}
    Output = {o1, o2}
    o1 = o1
    o2 = o2
    Canvas = {"hd", "uhd"}
    NewCanvas = "hd"
    DefaultCanvas = "hd"
    LoadCanvas = "uhd"
    MaxCalls = 2
    MaxFaults = 2
SYMMETRY Symmetry
INVARIANTS
    SavedOrPending
    LastGoodKept
    OutputsMatchSinks
PROPERTIES
    CanvasArrives
CHECK_DEADLOCK FALSE
