SPECIFICATION FairSpec
CONSTANTS
    ReadsFail = FALSE
    None = None
CHECK_DEADLOCK FALSE
INVARIANTS
    DeathIsObserved
    ReceiptKept
PROPERTIES
    AbandonedIsKilled
