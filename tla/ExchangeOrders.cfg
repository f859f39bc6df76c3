SPECIFICATION Spec
CONSTANTS
    InitialBalance = 300
    InitialTerms <- StartTerms
    Terms <- OneTerms
    Maintenance = 5
    g1 = g1
    Groups = {g1}
    NoGroup = NoGroup
    Requests <- OrderRequests
    Prices = {90, 100, 110}
    FundingRates = {0}
    MaxOrders = 3
    MaxTicks = 2
CHECK_DEADLOCK FALSE
INVARIANTS
    RestingIsPending
    OcoOneFilled
PROPERTIES
    DecidedIsFinal
    NoFillPastExpiry
    TrailingRatchets
