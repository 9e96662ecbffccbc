\* The same pool; a staker with pending rewards adds to its stake.
SPECIFICATION Spec
CONSTANTS
    s1 = s1
    s2 = s2
    Stakers <- MCStakers
    StakerTokens <- MCStakerTokens
    ForeignTokens <- MCNoForeignTokens
    MarketTokens <- MCMarketTokens
    Amounts <- MCAmounts
    FeeRates <- MCFeeRates
    Precision <- MCPrecision
    MaxU128 = 60
PROPERTIES
    EarningsNeverDecrease
CHECK_DEADLOCK FALSE
