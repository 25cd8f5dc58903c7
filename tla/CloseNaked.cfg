SPECIFICATION CloseSpec
CONSTANTS
    FULL_RETRIES = 10
    HALF_RETRIES = 5
    STEP = 2
    SIZE = 6
INVARIANTS
    ReportedCloseIsReal
CHECK_DEADLOCK FALSE
