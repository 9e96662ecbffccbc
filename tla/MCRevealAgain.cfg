\* One purchaser buys twice from a collection with one registered host.
SPECIFICATION Spec
CONSTANTS
    b1 = b1
    b2 = b2
    p1 = p1
    p2 = p2
    a1 = a1
    a2 = a2
    a3 = a3
    Purchasers <- OnePurchaser
    Peers <- OnePeer
    EscrowAccounts <- OneAccount
    OwnerOf <- OneOwner
    PurchaserTokens <- OnePurchaserTokens
    OtherTokens = 0
    ElsewhereTokens = 0
    Amounts <- TwoOrFour
    FeeRates <- NoFee
    Weights <- SmallWeights
    MaxPeerListLength = 1
    Expiry = 1
    MaxU64 = 10799
    Repaired <- AllRepaired
INVARIANTS
    RevealStaysPossible
CHECK_DEADLOCK FALSE
