\* Two sessions, s2 of the buyer's workflow, and two pinners; two downloads of
\* one CID, from one peer; two overlapping checks of the cache; two stakers of one
\* token each, and two overlapping callbacks.
SPECIFICATION Spec
CONSTANTS
    s1 = s1
    s2 = s2
    p1 = p1
    p2 = p2
    d1 = d1
    d2 = d2
    cid = cid
    Sessions <- MCSessions
    WorkflowSessions <- MCWorkflowSessions
    Pinners <- MCPinners
    RevealPolls = 1
    Expiry = 1
    OtherEscrows = {"other1", "other2"}
    MaxBurns = 2
    Repaired = {"purchase accounts", "release accounts", "burn authority"}
    Downloads <- MCDownloads
    CidOf <- MCCidOf
    Peers = {"peer"}
    PeerWallets = {"wallet"}
    MaxChunks = 1
    Checks = {1, 2}
    Expiries = {0, 1, 2}
    MaxExpiry = 2
    MaxCall = 2
    MaxProofAge = 1
    Staker = 1
    StakeAmount = 1
    RewardThreshold = 1
    Callbacks = {1, 2}
    RepairedStaking = {"position seeds", "mint"}
    Stakers = {1, 2}
    StakerTokens <- MCStakerTokens
    ForeignTokens <- MCForeignTokens
    MarketTokens = 2
    Amounts = {1}
    FeeRates = {0}
    Precision = 3
    MaxU128 = 1000
INVARIANTS
    DeliveredIsVerified
    LateReleaseHasLostItsOwn
    StaleYesIsBounded
    ReportsWereEarned
    ProgressIsLive
PROPERTIES
    WaitsEnd
    CleanupCollects
    MonitorStops
CHECK_DEADLOCK FALSE
