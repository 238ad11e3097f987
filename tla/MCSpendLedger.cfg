SPECIFICATION GrantsSpec
CONSTANTS
    Ids = {h, i, j}
    Recipients = {p}
    Holds = {h}
    RecipientsOnly = FALSE
    Budget = 4
    Envelopes = {}
    PerCallMax = 2
    MaxFailures = 2
    PerBlock = 2
    Minutes = 1
    Closing = 1
    MaxOverrun = 1
    MaxCrashes = 1
    MaxRenewals = 0
    MaxResets = 1
    None = None
    RelationIds = {g, k}
    RelationHolds = {g}
    Peers = {q, r}
SYMMETRY Symmetric
INVARIANTS
    RelationEnvelopes
    RelationCallConserved
    Tally
    CountedBeforePaid
    BlockPaidOnce
    FailureSlots
