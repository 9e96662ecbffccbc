\* Two collections of two videos and one video mint 44 tokens each; one moderator
\* with one CAPGM of each of two mints, a minimum stake of 1 or 2.
SPECIFICATION Spec
CONSTANTS
    m1 = m1
    g1 = g1
    g2 = g2
    c1 = c1
    c2 = c2
    t1 = t1
    t2 = t2
    NoCollection = NoCollection
    Moderators <- MCModerators
    Mints <- MCMints
    CapgmHeld <- MCCapgmHeld
    StakeAmounts <- MCStakeAmounts
    Minimums <- MCMinimums
    Collections <- MCCollections
    Targets <- MCTargets
    TotalVideos <- MCTotalVideos
    ClaimShare <- MCClaimShare
    MintAmounts <- MCMintAmounts
    ClaimIndices <- MCClaimIndices
    Videos <- MCVideos
    ResolveTicketDecodes = TRUE
    VaultOwners = {"collection", "claim_vault"}
INVARIANTS
    TypeOK
    MintAccounted
    OneClaimPerVideo
    StableValuePerVideo
    StakesBacked
PROPERTIES
    VerdictsAreFinal
    EffectsFollowVerdicts
SYMMETRY TargetSymmetry
CHECK_DEADLOCK FALSE
