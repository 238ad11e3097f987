SPECIFICATION ProgressSpec
CONSTANTS
    Nodes = {"a", "b"}
    Messages = {"m", "n"}
    Sizes = {1, 2}
    Quotas = {2, 3}
    Ttls = {0, 2}
    MaxBindings = 1
    MaxQuota = 3
    PerDepositor = 2
    Cooldown = 2
    MaxTime = 3
    MaxDeposits = 2
    None = None
INVARIANTS
    SessionsSafe
    RelaySafe
PROPERTIES
    Converges
    Resends
    Linked
    Decided
    LateFundingReady
    GrantsFinish
    IsMailbox
CHECK_DEADLOCK FALSE
