\* Two purchasers, two token accounts of one's escrow and one of the other's, and one
\* peer, under the fairness of the clock and of whoever burns expired escrows; the
\* purchasers, the peer and the depositors owe nothing.
SPECIFICATION FairSpec
CONSTANTS
    b1 = b1
    b2 = b2
    p1 = p1
    p2 = p2
    a1 = a1
    a2 = a2
    a3 = a3
    Purchasers <- MCPurchasers
    Peers <- OnePeer
    EscrowAccounts <- MCEscrowAccounts
    OwnerOf <- MCOwnerOf
    PurchaserTokens <- MCPurchaserTokens
    OtherTokens = 0
    ElsewhereTokens = 0
    Amounts <- MCAmounts
    FeeRates <- NoFee
    Weights <- SmallWeights
    MaxPeerListLength = 1
    Expiry = 0
    MaxU64 = 10799
    Repaired <- AllRepaired
INVARIANTS
    EscrowBacked
PROPERTIES
    PromiseKept
    PromiseFulfilled
CHECK_DEADLOCK FALSE
