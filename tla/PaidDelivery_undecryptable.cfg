SPECIFICATION Spec
CONSTANTS
    Msgs = {m1}
    PriceMoves = FALSE
    Window = 2
    MaxFaults = 0
    MaxCrashes = 0
    MaxDrops = 0
    None = None
INVARIANT AckFollowsAcceptance
CHECK_DEADLOCK FALSE
