SPECIFICATION Spec
CONSTANTS
    Callers = {c1, c2}
    Nobody = Nobody
    Skews = {3}
    Drifts <- MCDrifts
    SECOND = 2
    LATENCY = 2
    RESYNC_AFTER = 1
    CACHE_TTL = 2
    SIZE = 2
    MAX_ORDERS = 1
    Workloads <- MCWorkloads
INVARIANTS
    AnswersAreTrue
    StampIsClose
    BookAgeBounded
PROPERTIES
    CallsReturn
CHECK_DEADLOCK FALSE
