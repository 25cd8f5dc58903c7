SPECIFICATION Spec
CONSTANTS
    QTY = 2
    ROUNDING = {0}
    MAX_REPRICES = 2
    CALLS_FAIL = FALSE
    DEPTHS = {2, 3, 4}
    EXTRA = 0
INVARIANT DeltaNeutral
CHECK_DEADLOCK FALSE
