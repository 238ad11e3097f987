SPECIFICATION Spec
CONSTANTS
    Msgs = {m1, m2}
    PriceMoves = FALSE
    Window = 2
    MaxFaults = 1
    MaxCrashes = 1
    MaxDrops = 1
    None = None
CONSTRAINT OneTrouble
SYMMETRY Symmetry
INVARIANTS
    TypeOK
    AckedMeansKept
    ShownOnce
PROPERTY Delivers
CHECK_DEADLOCK FALSE
