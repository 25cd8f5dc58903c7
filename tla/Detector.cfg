SPECIFICATION Spec
CONSTANTS
    Threads = {"bridge", "detector"}
    Keys <- MCKeys
    NoKey = NoKey
    Preallocated <- MCPreallocated
    FirstId = 3
    KnownExchanges <- MCKnown
    Feed <- MCFeed
    Normalized <- MCNormalized
    Quotes <- MCQuotes
    NoQuote = NoQuote
    MAX_SYMBOLS = 6
    PIPELINE_CAPACITY = 1
    MAX_MESSAGES = 4
INVARIANTS
    OneIdPerKey
    FoundIsExact
    NeverBothDirections
PROPERTIES
    RegistrySpec
