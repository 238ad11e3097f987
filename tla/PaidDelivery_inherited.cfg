SPECIFICATION Spec
CONSTANTS
    Msgs = {m1}
    PriceMoves = FALSE
    Window = 2
    MaxFaults = 2
    MaxCrashes = 0
    MaxDrops = 0
    None = None
INVARIANT AckedMeansKept
CHECK_DEADLOCK FALSE
