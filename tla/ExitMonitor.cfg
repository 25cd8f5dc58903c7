SPECIFICATION Spec
CONSTANTS
    SIZE = 3
    DUST = 1
    LEVELS = {1, 9}
    MAX_FAULTS = 1
INVARIANTS
    CleanExitIsExact
    OpenLegMeansFailure
PROPERTY
    ExitIsBooked
CHECK_DEADLOCK FALSE
