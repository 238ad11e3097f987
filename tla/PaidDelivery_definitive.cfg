SPECIFICATION Spec
CONSTANTS
    Msgs = {m1}
    PriceMoves = TRUE
    Window = 2
    MaxFaults = 0
    MaxCrashes = 0
    MaxDrops = 0
    None = None
INVARIANT FailedIsUndelivered
CHECK_DEADLOCK FALSE
