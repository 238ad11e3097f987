SPECIFICATION FairSpec
CONSTANTS
    Callers = {a, b, c}
    Hashes = {x}
    Threshold = 2
    MaxConcurrent = 2
    CacheCap = 1
    MaxFaults = 4
    None = None
INVARIANTS
    OneProbe
    ProbeHasOwner
PROPERTIES
    ClosedByProbe
    Recovers
