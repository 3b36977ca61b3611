SPECIFICATION Spec
CONSTANTS
    CanvasSize = 2
    PreviewSize = 1
    Holder = {h1}
    NoEntry = NoEntry
INVARIANTS
    RefcountExact
    HeldIsStable
    RepeatsNewest
PROPERTIES
    ImplementsLeasePool
    RendersComplete
