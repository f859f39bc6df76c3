SPECIFICATION MCSpec
CONSTANTS
    Symbols = {s1, s2, s3}
    FailureThreshold = 2
    MaxProbes = 1
    SuccessThreshold = 2
    PaperTrading = TRUE
    StatArb = TRUE
INVARIANTS
    CountsAreStreaks
PROPERTIES
    CloseIsEarned
    KillStops
    OpenEnds
