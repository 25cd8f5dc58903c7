SPECIFICATION OrdersSpec
CONSTANTS
    MAX_RETRIES = 3
    TARGET = 3
    FULL_RETRIES = 4
    HALF_RETRIES = 3
    STEP = 2
    SIZE = 6
INVARIANTS
    NeverUnderHedged
    ExposureBounded
    OverCloseBounded
    ReportedCloseIsBacked
PROPERTIES
    ContractSpec
    HedgeCallReturns
    CloseCallReturns
CHECK_DEADLOCK FALSE
