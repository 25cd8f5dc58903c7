SPECIFICATION Spec
CONSTANTS
    OtherTopics = {"book"}
    Connectors = {"bybit", "kucoin", "okx", "bitget", "hyperliquid", "paradex"}
    CHANNEL_CAPACITY = 2
    REDIS_QUEUE_CAPACITY = 1
    REDIS_FLUSH_MAX_ITEMS = 2
    MAX_CHANGES = 2
    MAX_POLLS = 1
    MAX_FAULTS = 1
INVARIANTS
    PublishedIsReal
    FlushedIsNewest
    ShutdownKeepsAccepted
CHECK_DEADLOCK FALSE

PROPERTIES
    FeedCatchesUp
    ShutdownEnds
