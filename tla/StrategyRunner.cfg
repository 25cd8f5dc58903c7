SPECIFICATION FairSpec
CONSTANTS
    Symbols = {"BTCUSDT", "ETHUSDT"}
    Shards = {"s1", "s2"}
    MAX_TRADES = 2
INVARIANTS
    OneTradePerSymbol
    BooksMatchTable
PROPERTIES
    ExitIsFinal
    LoopGoesOn
CHECK_DEADLOCK FALSE
