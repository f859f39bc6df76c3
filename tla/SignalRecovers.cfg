SPECIFICATION BusySpec
CONSTANTS
    Symbols = {s1, s2}
    FailureThreshold = 2
    MaxProbes = 1
    SuccessThreshold = 2
    PaperTrading = TRUE
    StatArb = FALSE
PROPERTIES
    Recovers
