SPECIFICATION PortfolioSpec
CONSTANTS
    t1 = t1
    t2 = t2
    t3 = t3
    Trades = {t1, t2, t3}
    NULL = NULL
    STARTING = 6
    Size <- MCSize
    PROFITS <- MCProfits
INVARIANTS
    CapitalConserved
    NeverOverdrawn
    MetricsNotAhead
    OkIsPersisted
