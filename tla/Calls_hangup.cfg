SPECIFICATION Spec
CONSTANTS
    Ring = 2
    Block = 3
    Lead = 1
    Grace = 1
    Resume = 3
    InvoiceMargin = 1
    DispatchMargin = 1
    Tombstone = 20
    MaxBlocks = 2
    Cap = 2
    Tries = {1, 2}
    MaxTime = 12
PROPERTIES
    HangupFinal
CHECK_DEADLOCK FALSE
