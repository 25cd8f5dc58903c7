SPECIFICATION FairSpec
CONSTANTS
    CAPACITY = 2
    Consumers = {"strategy", "dashboard"}
    MAX_PUSHES = 6
INVARIANTS
    Ordered
    NewestKept
    NothingVanishes
PROPERTIES
    ItemsLeave
CHECK_DEADLOCK FALSE
