SPECIFICATION Spec
CONSTANTS
    None = None
    Procs = {p1}
    Execs = {e1, e2}
    Hashes = {h1, h2}
    Callers = {"client"}
    Fees = {TRUE}
    MaxLate = 1
SYMMETRY Symmetry
CHECK_DEADLOCK FALSE
INVARIANTS
    PaidOnce
    UnpaidMeansUnpaid
    BudgetFollowsPayment
    QueueMatchesRow
PROPERTIES
    EvidenceStays
    TerminalStays
