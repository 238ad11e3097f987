SPECIFICATION ServicesSpec
CONSTANTS
    Ids = {1, 2, 3}
    MaxSends = 1
    MaxSuccessors = 1
    None = None
INVARIANTS
    CallsSafe
    GrantsSafe
    HostingSafe
    KitsSafe
    TransportSafe
    RequestsSafe
PROPERTIES
    PaidIsServed
    NoticeHarmless
    ConfirmedIsHeld
    NoBlindSuccessor
CHECK_DEADLOCK FALSE
