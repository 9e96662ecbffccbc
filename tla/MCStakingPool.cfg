\* Two stakers with 2 and 1 tokens, the first also with one of another mint; purchases
\* out of 4 tokens.
\* MaxU128 is reached: some products of a long run do not fit any more.
SPECIFICATION Spec
CONSTANTS
    s1 = s1
    s2 = s2
    Stakers <- MCStakers
    StakerTokens <- MCStakerTokens
    ForeignTokens <- MCForeignTokens
    MarketTokens <- MCMarketTokens
    Amounts <- MCAmounts
    FeeRates <- MCFeeRates
    Precision <- MCPrecision
    MaxU128 = 60
INVARIANTS
    TypeOK
    TotalStakedIsSum
    DebtCovered
    PoolSolvent
    NeverOverpaid
PROPERTIES
    OnlyTopUpForfeits
CHECK_DEADLOCK FALSE
