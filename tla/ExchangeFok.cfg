SPECIFICATION Spec
CONSTANTS
    InitialBalance = 300
    InitialTerms <- StartTerms
    Terms <- OneTerms
    Maintenance = 5
    g1 = g1
    Groups = {g1}
    NoGroup = NoGroup
    Requests <- FokRequests
    Prices = {100}
    FundingRates = {0}
    MaxOrders = 1
    MaxTicks = 1
CHECK_DEADLOCK FALSE
INVARIANTS
    FokIsDecided
