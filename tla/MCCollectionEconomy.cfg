\* Purchases of 1 or 3 tokens between the stakes and claims of two stakers of one
\* token each; one escrow account, one peer, and a token to be released by another
\* collection.  An escrow expires with the first clock step.
SPECIFICATION Spec
CONSTANTS
    s1 = s1
    s2 = s2
    b1 = b1
    p1 = p1
    a1 = a1
    Stakers <- MCStakers
    StakerTokens <- MCStakerTokens
    ForeignTokens <- MCForeignTokens
    Purchasers <- MCPurchasers
    PurchaserTokens <- MCPurchaserTokens
    Peers <- MCPeers
    EscrowAccounts <- MCEscrowAccounts
    OwnerOf <- MCOwnerOf
    OtherTokens = 0
    ElsewhereTokens = 1
    Amounts <- MCAmounts
    FeeRates <- MCFeeRates
    Precision = 4
    MaxU128 = 12
    MaxU64 = 10799
    Weights <- MCWeights
    MaxPeerListLength = 1
    Expiry = 0
    Repaired <- AllRepaired
INVARIANTS
    SupplyConserved
PROPERTIES
    PoolKeepsItsSpec
    EscrowKeepsItsSpec
CHECK_DEADLOCK FALSE
