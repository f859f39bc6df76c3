SPECIFICATION Spec
CONSTANTS
    InitialBalance = 300
    InitialTerms <- StartTerms
    Terms <- OtherTerms
    Maintenance = 5
    g1 = g1
    Groups = {g1}
    NoGroup = NoGroup
    Requests <- MoneyRequests
    Prices = {50, 100, 110}
    FundingRates = {10}
    MaxOrders = 3
    MaxTicks = 2
CHECK_DEADLOCK FALSE
INVARIANTS
    TypeOK
    MoneyConserved
    MarginBacksPosition
    PositionIsSumOfFills
