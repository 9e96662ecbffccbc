\* One purchaser with 2 tokens and two token accounts of the escrow, purchases and
\* deposits of 1 or 2, lists of at most two peers, and a token to be released by
\* another collection.  Expiry 0: an escrow expires with the first clock step.
SPECIFICATION Spec
CONSTANTS
    b1 = b1
    b2 = b2
    p1 = p1
    p2 = p2
    a1 = a1
    a2 = a2
    a3 = a3
    Purchasers <- OnePurchaser
    Peers <- MCPeers
    EscrowAccounts <- TwoAccounts
    OwnerOf <- BothOwner
    PurchaserTokens <- TwoTokens
    OtherTokens = 0
    ElsewhereTokens = 1
    Amounts <- MCAmounts
    FeeRates <- NoFee
    Weights <- MCWeights
    MaxPeerListLength = 2
    Expiry = 0
    MaxU64 = 10799
    Repaired <- AllRepaired
INVARIANTS
    TypeOK
    TokensConserved
    OneRevealPerPurchase
    TrustCounted
PROPERTIES
    TrustIsEarned
SYMMETRY Symmetry
CHECK_DEADLOCK FALSE
