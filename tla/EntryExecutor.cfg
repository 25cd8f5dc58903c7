SPECIFICATION FairSpec
CONSTANTS
    QTY = 2
    ROUNDING = {0, 1}
    MAX_REPRICES = 2
    CALLS_FAIL = TRUE
    DEPTHS = {2, 3, 4}
    EXTRA = 1
INVARIANTS
    OkHoldsBothLegs
    ExitsAreCovered
    FilledLegNotAbandoned
    LockHeldWhileHedging
PROPERTIES
    EntryReturns
CHECK_DEADLOCK FALSE
