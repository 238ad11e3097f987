SPECIFICATION Spec
CONSTANTS
    Day = 2
    OverdueDays = 1
    PauseDays = 2
    Limit = 9
    MemoKept = FALSE
    MaxTime = 5
    MaxCrashes = 1
    MaxOthers = 1
    MaxKeysends = 2
INVARIANTS
     PaidOncePerDay 
CHECK_DEADLOCK FALSE
