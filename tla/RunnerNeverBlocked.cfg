SPECIFICATION FairSpec
CONSTANTS
    Symbols = {"BTCUSDT"}
    Shards = {"s1", "s2"}
    MAX_TRADES = 1
INVARIANTS
    NeverBlocked
CHECK_DEADLOCK FALSE
