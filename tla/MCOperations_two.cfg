SPECIFICATION Spec
CONSTANTS
    None = None
    Procs = {p1, p2}
    Execs = {e1, e2}
    Hashes = {h1, h2}
    Callers = {"owner"}
    Fees = {TRUE}
    MaxLate = 0
CONSTRAINT BeforeDelivery
SYMMETRY Symmetry
CHECK_DEADLOCK FALSE
INVARIANT Inv
