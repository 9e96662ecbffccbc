\* Two wallet ids, one keypair and the Phantom account, which owns the collection;
\* tokens 0..2; three daemons; two videos; three tickets and one moderator.
SPECIFICATION Spec
CONSTANTS
    w1 = w1
    w2 = w2
    phantom = phantom
    key1 = key1
    m1 = m1
    g1 = g1
    report = report
    claim = claim
    cid = cid
    video1 = video1
    video2 = video2
    WalletIds <- MCWalletIds
    Keypairs <- MCKeypairs
    PhantomKey <- phantom
    Owner <- phantom
    CollectionMintFirst = TRUE
    Supplied = {"token badges", "blockhash", "creator_token_a", "reload"}
    MaxTokens = 2
    MinCapgm = 1
    ReserveTokens = 2
    MaxDaemons = 3
    Videos <- MCVideos
    Fields <- MCFields
    Durations <- MCDurations
    MaxVideos = 2
    Moderators <- MCModerators
    Mints <- MCMints
    CapgmHeld <- MCCapgmHeld
    StakeAmounts <- MCStakeAmounts
    Minimums <- MCMinimums
    Tickets <- MCTickets
    TypeOf <- MCTypeOf
    Repaired = {"create_ticket arguments", "target_id length", "resolve_ticket arguments", "stake accounts"}
INVARIANTS
    ActiveIsRegistered
    
    OrphansComeFromEarlyStarts
    VerifiedLacksOnlyFields
    ModeratorYesHeld
CHECK_DEADLOCK FALSE
