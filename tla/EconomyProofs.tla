--------------------------- MODULE EconomyProofs ---------------------------
(***************************************************************************)
(* Proofs about CollectionEconomy: no token is created or lost between the *)
(* staking pool and the escrows, and inside the economy each of the two    *)
(* still keeps its own specification.  What is known of a component alone  *)
(* is taken from its own proofs, instantiated as the component is.         *)
(***************************************************************************)
EXTENDS CollectionEconomy, TokenArithmetic

PoolFacts == INSTANCE StakingPoolProofs WITH
                wallet <- stakerWallet,
                MarketTokens <- OtherTokens + SumOver(PurchaserTokens, Purchasers)

EscrowFacts == INSTANCE AccessEscrowProofs WITH
                  wallet <- purchaserWallet,
                  OtherTokens <- OtherTokens + SumOver(StakerTokens, Stakers)

----------------------------------------------------------------------------
(* The components' assumptions hold of the economy's constants. *)

LEMMA StartSums ==
    /\ SumOver(StakerTokens, Stakers) \in Nat
    /\ SumOver(PurchaserTokens, Purchasers) \in Nat
    /\ OtherTokens \in Nat
  BY SumType, EconomyAssumption DEF EconomyAssumption

LEMMA PoolAssumes == PoolFacts!StakingPoolAssumption
  <1>1. OtherTokens + SumOver(PurchaserTokens, Purchasers) \in Nat
    BY StartSums
  <1>2. FeeRates \subseteq PoolFacts!FeeRate
    BY EconomyAssumption
    DEF EconomyAssumption, FeeRate, PoolFacts!FeeRate, FeeDenominator,
        PoolFacts!FeeDenominator
  <1> QED
    BY <1>1, <1>2, EconomyAssumption, Zenon
    DEF EconomyAssumption, PoolFacts!StakingPoolAssumption, IsFiniteSet,
        PoolFacts!IsFiniteSet

LEMMA EscrowAssumes == EscrowFacts!AccessEscrowAssumption
  <1>1. OtherTokens + SumOver(StakerTokens, Stakers) \in Nat
    BY StartSums
  <1>2. FeeRates \subseteq EscrowFacts!FeeRate
    BY EconomyAssumption
    DEF EconomyAssumption, FeeRate, EscrowFacts!FeeRate, FeeDenominator,
        EscrowFacts!FeeDenominator
  <1>3. Repaired \subseteq EscrowFacts!Defects
    BY EconomyAssumption DEF EconomyAssumption, Escrow!Defects, EscrowFacts!Defects
  <1> QED
    BY <1>1, <1>2, <1>3, EconomyAssumption, Zenon
    DEF EconomyAssumption, EscrowFacts!AccessEscrowAssumption, IsFiniteSet,
        EscrowFacts!IsFiniteSet

----------------------------------------------------------------------------
(* The two instances of a component, here and in its proofs, are the same. *)

LEMMA SameSums ==
    ASSUME NEW f, NEW S
    PROVE  /\ PoolFacts!SumOver(f, S) = SumOver(f, S)
           /\ EscrowFacts!SumOver(f, S) = SumOver(f, S)
           /\ Escrow!SumOver(f, S) = SumOver(f, S)
  BY DEF SumOver, MapThenSumSet, MapThenFoldSet,
         PoolFacts!SumOver, PoolFacts!MapThenSumSet, PoolFacts!MapThenFoldSet,
         EscrowFacts!SumOver, EscrowFacts!MapThenSumSet, EscrowFacts!MapThenFoldSet,
         Escrow!SumOver, Escrow!MapThenSumSet, Escrow!MapThenFoldSet

LEMMA SameSplit ==
    ASSUME NEW total, NEW bp
    PROVE  /\ Pool!AmountToStakers(total, bp) = AmountToStakers(total, bp)
           /\ Escrow!AmountToStakers(total, bp) = AmountToStakers(total, bp)
           /\ Escrow!AmountToEscrow(total, bp) = AmountToEscrow(total, bp)
           /\ Escrow!TotalFee(total, bp) = TotalFee(total, bp)
           /\ PoolFacts!AmountToStakers(total, bp) = AmountToStakers(total, bp)
           /\ EscrowFacts!AmountToStakers(total, bp) = AmountToStakers(total, bp)
           /\ EscrowFacts!AmountToEscrow(total, bp) = AmountToEscrow(total, bp)
           /\ EscrowFacts!AmountAfterFee(total, bp) = AmountAfterFee(total, bp)
           /\ Escrow!AmountAfterFee(total, bp) = AmountAfterFee(total, bp)
           /\ EscrowFacts!TotalFee(total, bp) = TotalFee(total, bp)
  <1> USE DEF AmountToStakers, AmountToEscrow, AmountAfterFee, TotalFee, FeeDenominator,
              SplitToStakers, SplitToPeersEscrow
  <1>1. Pool!AmountToStakers(total, bp) = AmountToStakers(total, bp)
    BY DEF Pool!AmountToStakers, Pool!AmountToEscrow, Pool!AmountAfterFee, Pool!TotalFee,
           Pool!FeeDenominator, Pool!SplitToStakers, Pool!SplitToPeersEscrow
  <1>2. PoolFacts!AmountToStakers(total, bp) = AmountToStakers(total, bp)
    BY DEF PoolFacts!AmountToStakers, PoolFacts!AmountToEscrow, PoolFacts!AmountAfterFee,
           PoolFacts!TotalFee, PoolFacts!FeeDenominator, PoolFacts!SplitToStakers,
           PoolFacts!SplitToPeersEscrow
  <1>3. /\ Escrow!AmountToStakers(total, bp) = AmountToStakers(total, bp)
        /\ Escrow!AmountToEscrow(total, bp) = AmountToEscrow(total, bp)
        /\ Escrow!TotalFee(total, bp) = TotalFee(total, bp)
        /\ Escrow!AmountAfterFee(total, bp) = AmountAfterFee(total, bp)
    BY DEF Escrow!AmountToStakers, Escrow!AmountToEscrow, Escrow!AmountAfterFee,
           Escrow!TotalFee, Escrow!FeeDenominator, Escrow!SplitToStakers,
           Escrow!SplitToPeersEscrow
  <1>4. /\ EscrowFacts!AmountToStakers(total, bp) = AmountToStakers(total, bp)
        /\ EscrowFacts!AmountToEscrow(total, bp) = AmountToEscrow(total, bp)
        /\ EscrowFacts!TotalFee(total, bp) = TotalFee(total, bp)
        /\ EscrowFacts!AmountAfterFee(total, bp) = AmountAfterFee(total, bp)
    BY DEF EscrowFacts!AmountToStakers, EscrowFacts!AmountToEscrow,
           EscrowFacts!AmountAfterFee, EscrowFacts!TotalFee, EscrowFacts!FeeDenominator,
           EscrowFacts!SplitToStakers, EscrowFacts!SplitToPeersEscrow
  <1> QED BY <1>1, <1>2, <1>3, <1>4

LEMMA SamePool ==
    /\ Pool!TypeOK <=> PoolFacts!TypeOK
    /\ Pool!Init <=> PoolFacts!Init
    /\ Pool!Next <=> PoolFacts!Next
  <1> USE DEF Pool!U128, PoolFacts!U128, Pool!PendingComputes, PoolFacts!PendingComputes,
              Pool!PendingTokens, PoolFacts!PendingTokens, Pool!Pending, PoolFacts!Pending,
              Pool!Accumulated, PoolFacts!Accumulated, Pool!Settle, PoolFacts!Settle,
              Pool!DebtOf, PoolFacts!DebtOf, Pool!TakeFrom, PoolFacts!TakeFrom,
              Pool!PayTo, PoolFacts!PayTo
  <1>0. Pool!Mint = PoolFacts!Mint
    BY DEF Pool!Mint, PoolFacts!Mint
  <1>1. Pool!TypeOK <=> PoolFacts!TypeOK
    BY DEF Pool!TypeOK, PoolFacts!TypeOK
  <1>2. Pool!Init <=> PoolFacts!Init
    BY DEF Pool!Init, PoolFacts!Init
  <1>3. \A s \in Stakers, amount \in Amounts, mint \in Pool!Mint :
            Pool!StakeCollectionTokens(s, amount, mint)
                <=> PoolFacts!StakeCollectionTokens(s, amount, mint)
    BY DEF Pool!StakeCollectionTokens, PoolFacts!StakeCollectionTokens
  <1>4. \A s \in Stakers, mint \in Pool!Mint :
            Pool!ClaimStakingRewards(s, mint) <=> PoolFacts!ClaimStakingRewards(s, mint)
    BY DEF Pool!ClaimStakingRewards, PoolFacts!ClaimStakingRewards
  <1>5. \A s \in Stakers, amount \in Amounts, mint \in Pool!Mint :
            Pool!UnstakeCollectionTokens(s, amount, mint)
                <=> PoolFacts!UnstakeCollectionTokens(s, amount, mint)
    BY DEF Pool!UnstakeCollectionTokens, PoolFacts!UnstakeCollectionTokens,
           Pool!CanUnstake, PoolFacts!CanUnstake, Pool!UnstakeTransfer,
           PoolFacts!UnstakeTransfer, Pool!PoolAfterUnstake, PoolFacts!PoolAfterUnstake
  <1>6. ASSUME NEW total \in Amounts, NEW bp \in FeeRates
        PROVE  Pool!PurchaseAccess(total, bp) <=> PoolFacts!PurchaseAccess(total, bp)
    BY SameSplit
    DEF Pool!PurchaseAccess, PoolFacts!PurchaseAccess, Pool!AccrueRewards,
        PoolFacts!AccrueRewards, Pool!RewardIncrement, PoolFacts!RewardIncrement
  <1>7. Pool!Next <=> PoolFacts!Next
    BY <1>0, <1>3, <1>4, <1>5, <1>6 DEF Pool!Next, PoolFacts!Next
  <1> QED BY <1>1, <1>2, <1>7

LEMMA SameDistribution ==
    ASSUME NEW locked, NEW list
    PROVE  /\ Escrow!WeightsOf(list) = EscrowFacts!WeightsOf(list)
           /\ Escrow!TotalWeight(list) = EscrowFacts!TotalWeight(list)
           /\ Escrow!PeerAmounts(locked, list) = EscrowFacts!PeerAmounts(locked, list)
           /\ \A amounts, p :
                 /\ Escrow!Payment(amounts, list, p)
                       = EscrowFacts!Payment(amounts, list, p)
                 /\ Escrow!CreditedEntries(amounts, list, p)
                       = EscrowFacts!CreditedEntries(amounts, list, p)
                 /\ Escrow!TrustGain(amounts, list, p)
                       = EscrowFacts!TrustGain(amounts, list, p)
                 /\ Escrow!TrustAfter(amounts, list, p)
                       = EscrowFacts!TrustAfter(amounts, list, p)
  <1>1. Escrow!WeightsOf(list) = EscrowFacts!WeightsOf(list)
    BY DEF Escrow!WeightsOf, EscrowFacts!WeightsOf
  <1>2. Escrow!TotalWeight(list) = EscrowFacts!TotalWeight(list)
    BY <1>1, SameSums DEF Escrow!TotalWeight, EscrowFacts!TotalWeight
  <1>3. \A i : Escrow!PeerShare(locked, list, i) = EscrowFacts!PeerShare(locked, list, i)
    BY <1>2 DEF Escrow!PeerShare, EscrowFacts!PeerShare
  <1>4. Escrow!TotalSent(locked, list) = EscrowFacts!TotalSent(locked, list)
    BY <1>3 DEF Escrow!TotalSent, EscrowFacts!TotalSent
  <1>5. Escrow!PeerAmounts(locked, list) = EscrowFacts!PeerAmounts(locked, list)
    BY <1>4 DEF Escrow!PeerAmounts, EscrowFacts!PeerAmounts
  <1>6. ASSUME NEW amounts, NEW p
        PROVE  /\ Escrow!Payment(amounts, list, p)
                     = EscrowFacts!Payment(amounts, list, p)
               /\ Escrow!CreditedEntries(amounts, list, p)
                     = EscrowFacts!CreditedEntries(amounts, list, p)
               /\ Escrow!TrustGain(amounts, list, p)
                     = EscrowFacts!TrustGain(amounts, list, p)
               /\ Escrow!TrustAfter(amounts, list, p)
                     = EscrowFacts!TrustAfter(amounts, list, p)
    <2>1. Escrow!EntriesOf(list, p) = EscrowFacts!EntriesOf(list, p)
      BY DEF Escrow!EntriesOf, EscrowFacts!EntriesOf
    <2>3. Escrow!Payment(amounts, list, p)
             = EscrowFacts!Payment(amounts, list, p)
      BY <2>1, SameSums DEF Escrow!Payment, EscrowFacts!Payment
    <2>4. Escrow!CreditedEntries(amounts, list, p)
             = EscrowFacts!CreditedEntries(amounts, list, p)
      BY <2>1 DEF Escrow!CreditedEntries, EscrowFacts!CreditedEntries
    <2>5. Escrow!TrustGain(amounts, list, p) = EscrowFacts!TrustGain(amounts, list, p)
      BY <1>1, <2>4, SameSums DEF Escrow!TrustGain, EscrowFacts!TrustGain
    <2>6. Escrow!TrustAfter(amounts, list, p) = EscrowFacts!TrustAfter(amounts, list, p)
      <3>1. \A S : Escrow!Cardinality(S) = EscrowFacts!Cardinality(S)
        BY DEF Escrow!Cardinality, EscrowFacts!Cardinality
      <3> QED BY <2>4, <2>5, <3>1 DEF Escrow!TrustAfter, EscrowFacts!TrustAfter
    <2> QED BY <2>3, <2>4, <2>5, <2>6
  <1> QED BY <1>1, <1>2, <1>5, <1>6

LEMMA SameEscrow ==
    /\ Escrow!TypeOK <=> EscrowFacts!TypeOK
    /\ Escrow!Init <=> EscrowFacts!Init
    /\ Escrow!Next <=> EscrowFacts!Next
  <1> USE DEF Escrow!NoEscrow, EscrowFacts!NoEscrow, Escrow!NoTrust, EscrowFacts!NoTrust,
              Escrow!tokens, EscrowFacts!tokens, Escrow!reputation, EscrowFacts!reputation,
              Escrow!IsExpired, EscrowFacts!IsExpired, Escrow!Arrives,
              EscrowFacts!Arrives
  <1>0. Escrow!Destinations = EscrowFacts!Destinations
    BY DEF Escrow!Destinations, EscrowFacts!Destinations
  <1>1. Escrow!TypeOK <=> EscrowFacts!TypeOK
    BY <1>0 DEF Escrow!TypeOK, EscrowFacts!TypeOK, Escrow!EscrowRecord,
           EscrowFacts!EscrowRecord, Escrow!TrustRecord, EscrowFacts!TrustRecord
  <1>2. Escrow!Init <=> EscrowFacts!Init
    BY DEF Escrow!Init, EscrowFacts!Init
  <1>3. ASSUME NEW b \in Purchasers, NEW locked, NEW to
        PROVE  Escrow!OpenEscrow(b, locked, to) <=> EscrowFacts!OpenEscrow(b, locked, to)
    BY DEF Escrow!OpenEscrow, EscrowFacts!OpenEscrow
  <1>4. ASSUME NEW b \in Purchasers, NEW total \in Amounts, NEW bp \in FeeRates,
               NEW a \in EscrowAccounts
        PROVE  Escrow!PurchaseAccess(b, total, bp, a)
                  <=> EscrowFacts!PurchaseAccess(b, total, bp, a)
    <2>1. Escrow!SplitComputes(total, bp) <=> EscrowFacts!SplitComputes(total, bp)
      BY SameSplit
      DEF Escrow!SplitComputes, EscrowFacts!SplitComputes, Escrow!U64, EscrowFacts!U64,
          Escrow!FeeDenominator, EscrowFacts!FeeDenominator, Escrow!SplitToPeersEscrow,
          EscrowFacts!SplitToPeersEscrow
    <2> QED
      BY <1>3, <2>1, SameSplit
      DEF Escrow!PurchaseAccess, EscrowFacts!PurchaseAccess, Escrow!Locked,
          EscrowFacts!Locked
  <1>5. /\ \A b \in Purchasers, amount \in Amounts : \A to :
              Escrow!CreateAccessEscrow(b, amount, to)
                 <=> EscrowFacts!CreateAccessEscrow(b, amount, to)
        /\ \A a \in EscrowAccounts, amount \in Amounts :
              Escrow!Deposit(a, amount) <=> EscrowFacts!Deposit(a, amount)
    BY <1>3 DEF Escrow!CreateAccessEscrow, EscrowFacts!CreateAccessEscrow,
                Escrow!Deposit, EscrowFacts!Deposit
  <1>6. ASSUME NEW b \in Purchasers, NEW a \in EscrowAccounts, NEW list
        PROVE  Escrow!ReleaseEscrow(b, a, list) <=> EscrowFacts!ReleaseEscrow(b, a, list)
    <2>1. /\ Escrow!CanRelease(b) <=> EscrowFacts!CanRelease(b)
          /\ Escrow!AfterRelease(b) = EscrowFacts!AfterRelease(b)
          /\ Escrow!CollectionGain(list) = EscrowFacts!CollectionGain(list)
      BY SameDistribution
      DEF Escrow!CanRelease, EscrowFacts!CanRelease, Escrow!InReleaseWindow,
          EscrowFacts!InReleaseWindow, Escrow!AfterRelease, EscrowFacts!AfterRelease,
          Escrow!CollectionGain, EscrowFacts!CollectionGain
    <2>2. \A locked, trustSoFar :
             Escrow!DistributionComputes(locked, list, trustSoFar)
                <=> EscrowFacts!DistributionComputes(locked, list, trustSoFar)
      BY <2>1, SameDistribution
      DEF Escrow!DistributionComputes, EscrowFacts!DistributionComputes, Escrow!U64,
          EscrowFacts!U64
    <2>3. \A amounts : Escrow!Creditable(amounts, list)
                          <=> EscrowFacts!Creditable(amounts, list)
      BY SameDistribution
      DEF Escrow!Creditable, EscrowFacts!Creditable, Escrow!U64, EscrowFacts!U64
    <2>4. /\ \A amounts : Escrow!SweepTargets(amounts, list, a)
                              = EscrowFacts!SweepTargets(amounts, list, a)
          /\ \A balance, amounts : Escrow!Dust(balance, amounts, list)
                                      = EscrowFacts!Dust(balance, amounts, list)
          /\ Escrow!SignsFor(b, a) <=> EscrowFacts!SignsFor(b, a)
      BY <1>0, SameSums
      DEF Escrow!SweepTargets, EscrowFacts!SweepTargets, Escrow!Dust, EscrowFacts!Dust,
          Escrow!SignsFor, EscrowFacts!SignsFor
    <2>5. \A amounts, dust, to : Escrow!PayOut(a, amounts, list, dust, to)
                                    <=> EscrowFacts!PayOut(a, amounts, list, dust, to)
      <3> SUFFICES ASSUME NEW amounts, NEW dust, NEW to
                   PROVE  Escrow!PayOut(a, amounts, list, dust, to)
                             <=> EscrowFacts!PayOut(a, amounts, list, dust, to)
        OBVIOUS
      <3>1. [p \in Peers |-> paid[p] + Escrow!Payment(amounts, list, p)
                                    + Escrow!Arrives(p, to, dust)]
               = [p \in Peers |-> paid[p] + EscrowFacts!Payment(amounts, list, p)
                                      + EscrowFacts!Arrives(p, to, dust)]
        BY SameDistribution
      <3> QED BY <3>1 DEF Escrow!PayOut, EscrowFacts!PayOut
    <2>6. /\ \A locked : Escrow!PeerAmounts(locked, list)
                            = EscrowFacts!PeerAmounts(locked, list)
          /\ \A amounts : [p \in Peers |-> Escrow!TrustAfter(amounts, list, p)]
                             = [p \in Peers |-> EscrowFacts!TrustAfter(amounts, list, p)]
      BY SameDistribution
    <2> DEFINE amounts == EscrowFacts!PeerAmounts(escrow[b].amount_locked, list)
    <2>7. Escrow!PeerAmounts(escrow[b].amount_locked, list) = amounts
      BY <2>6
    <2>8. Escrow!ReleaseEscrow(b, a, list) <=>
            /\ EscrowFacts!CanRelease(b)
            /\ EscrowFacts!SignsFor(b, a)
            /\ "open borrows" \in Repaired
            /\ Escrow!DistributionComputes(escrow[b].amount_locked, list, totalTrust)
            /\ Escrow!Creditable(amounts, list)
            /\ SumOver(amounts, DOMAIN list) <= escrowTokens[a]
            /\ \E to \in Escrow!SweepTargets(amounts, list, a) :
                  Escrow!PayOut(a, amounts, list,
                                Escrow!Dust(escrowTokens[a], amounts, list), to)
            /\ escrow' = EscrowFacts!AfterRelease(b)
            /\ lot' = [lot EXCEPT ![b] = "none"]
            /\ trust' = [p \in Peers |-> Escrow!TrustAfter(amounts, list, p)]
            /\ totalTrust' = totalTrust + EscrowFacts!CollectionGain(list)
            /\ UNCHANGED <<burned, paidElsewhere, otherTrust, isHost, reveal,
                           isBlacklisted>>
      <3> HIDE DEF amounts
      <3> QED BY <2>1, <2>4, <2>7, SameSums DEF Escrow!ReleaseEscrow
    <2>9. EscrowFacts!ReleaseEscrow(b, a, list) <=>
            /\ EscrowFacts!CanRelease(b)
            /\ EscrowFacts!SignsFor(b, a)
            /\ "open borrows" \in Repaired
            /\ EscrowFacts!DistributionComputes(escrow[b].amount_locked, list, totalTrust)
            /\ EscrowFacts!Creditable(amounts, list)
            /\ SumOver(amounts, DOMAIN list) <= escrowTokens[a]
            /\ \E to \in EscrowFacts!SweepTargets(amounts, list, a) :
                  EscrowFacts!PayOut(a, amounts, list,
                                     EscrowFacts!Dust(escrowTokens[a], amounts, list), to)
            /\ escrow' = EscrowFacts!AfterRelease(b)
            /\ lot' = [lot EXCEPT ![b] = "none"]
            /\ trust' = [p \in Peers |-> EscrowFacts!TrustAfter(amounts, list, p)]
            /\ totalTrust' = totalTrust + EscrowFacts!CollectionGain(list)
            /\ UNCHANGED <<burned, paidElsewhere, otherTrust, isHost, reveal,
                           isBlacklisted>>
      BY SameSums DEF EscrowFacts!ReleaseEscrow
    <2> HIDE DEF amounts
    <2> QED BY <2>2, <2>3, <2>4, <2>5, <2>6, <2>8, <2>9
  <1>7. ASSUME NEW b \in Purchasers, NEW a \in EscrowAccounts
        PROVE  Escrow!BurnExpiredEscrow(b, a) <=> EscrowFacts!BurnExpiredEscrow(b, a)
    BY DEF Escrow!BurnExpiredEscrow, EscrowFacts!BurnExpiredEscrow, Escrow!SignsFor,
           EscrowFacts!SignsFor, Escrow!BurnedAmount, EscrowFacts!BurnedAmount
  <1>a. ASSUME NEW locked, NEW list
        PROVE  Escrow!ReleaseElsewhere(locked, list)
                  <=> EscrowFacts!ReleaseElsewhere(locked, list)
    <2>1. /\ Escrow!CollectionGain(list) = EscrowFacts!CollectionGain(list)
          /\ Escrow!PeerAmounts(locked, list) = EscrowFacts!PeerAmounts(locked, list)
      BY SameDistribution DEF Escrow!CollectionGain, EscrowFacts!CollectionGain
    <2>2. \A trustSoFar :
             Escrow!DistributionComputes(locked, list, trustSoFar)
                <=> EscrowFacts!DistributionComputes(locked, list, trustSoFar)
      BY <2>1, SameDistribution
      DEF Escrow!DistributionComputes, EscrowFacts!DistributionComputes, Escrow!U64,
          EscrowFacts!U64
    <2>3. \A amounts : Escrow!Creditable(amounts, list)
                          <=> EscrowFacts!Creditable(amounts, list)
      BY SameDistribution
      DEF Escrow!Creditable, EscrowFacts!Creditable, Escrow!U64, EscrowFacts!U64
    <2> DEFINE amounts == EscrowFacts!PeerAmounts(locked, list)
    <2>4. /\ [p \in Peers |-> paidElsewhere[p] + Escrow!Payment(amounts, list, p)]
               = [p \in Peers |-> paidElsewhere[p] + EscrowFacts!Payment(amounts, list, p)]
          /\ [p \in Peers |-> Escrow!TrustAfter(amounts, list, p)]
               = [p \in Peers |-> EscrowFacts!TrustAfter(amounts, list, p)]
      BY SameDistribution
    <2>5. /\ Escrow!PeerAmounts(locked, list) = amounts
          /\ Escrow!SumOver(paidElsewhere, Peers)
                = EscrowFacts!SumOver(paidElsewhere, Peers)
      BY <2>1, SameSums
    <2> HIDE DEF amounts
    <2> QED
      BY <2>1, <2>2, <2>3, <2>4, <2>5
      DEF Escrow!ReleaseElsewhere, EscrowFacts!ReleaseElsewhere, amounts
  <1>8. ASSUME NEW p \in Peers
        PROVE  /\ Escrow!InitializePeerTrustState(p)
                     <=> EscrowFacts!InitializePeerTrustState(p)
               /\ Escrow!RegisterCollectionHost(p)
                     <=> EscrowFacts!RegisterCollectionHost(p)
               /\ \A b \in Purchasers :
                     Escrow!RevealCid(p, b) <=> EscrowFacts!RevealCid(p, b)
    BY DEF Escrow!InitializePeerTrustState, EscrowFacts!InitializePeerTrustState,
           Escrow!RegisterCollectionHost, EscrowFacts!RegisterCollectionHost,
           Escrow!RevealCid, EscrowFacts!RevealCid, Escrow!NotYetRevealed,
           EscrowFacts!NotYetRevealed
  <1>9. (Escrow!Blacklist <=> EscrowFacts!Blacklist) /\ (Escrow!Tick <=> EscrowFacts!Tick)
    BY DEF Escrow!Blacklist, EscrowFacts!Blacklist, Escrow!Tick, EscrowFacts!Tick
  <1>10. Escrow!PeerList = EscrowFacts!PeerList
    BY DEF Escrow!PeerList, EscrowFacts!PeerList
  <1>11. Escrow!Next <=> EscrowFacts!Next
    BY <1>0, <1>4, <1>5, <1>6, <1>7, <1>a, <1>8, <1>9, <1>10
    DEF Escrow!Next, EscrowFacts!Next
  <1> QED BY <1>1, <1>2, <1>11

----------------------------------------------------------------------------
(* The invariant: the types of both components, and what the escrows' types *)
(* rest on.  market and rest are sums here, so their types say that each    *)
(* component's view of the others is a number of tokens.                    *)

EconomyInv ==
    /\ Pool!TypeOK
    /\ Escrow!TypeOK
    /\ EscrowFacts!RevealsMatch
    /\ others \in Nat
    /\ SupplyConserved

inStakers == SumOver(stakerWallet, Stakers)
inPurchasers == SumOver(purchaserWallet, Purchasers)
inEscrows == SumOver(escrowTokens, EscrowAccounts)
inPeers == SumOver(paid, Peers)

LEMMA EconomyTypes ==
    ASSUME Pool!TypeOK, Escrow!TypeOK
    PROVE  /\ IsFiniteSet(Stakers) /\ IsFiniteSet(Purchasers) /\ IsFiniteSet(Peers)
           /\ IsFiniteSet(EscrowAccounts)
           /\ \A s \in Stakers : stakerWallet[s] \in Nat
           /\ \A b \in Purchasers : purchaserWallet[b] \in Nat
           /\ \A a \in EscrowAccounts : escrowTokens[a] \in Nat
           /\ purchaserWallet \in [Purchasers -> Nat]
           /\ escrowTokens \in [EscrowAccounts -> Nat]
           /\ \A p \in Peers : paid[p] \in Nat
           /\ poolTokens \in Nat /\ burned \in Nat
           /\ inStakers \in Nat /\ inPurchasers \in Nat /\ inEscrows \in Nat
           /\ inPeers \in Nat
  <1>1. /\ IsFiniteSet(Stakers) /\ IsFiniteSet(Purchasers) /\ IsFiniteSet(Peers)
        /\ IsFiniteSet(EscrowAccounts)
    BY EconomyAssumption DEF EconomyAssumption
  <1>2. /\ \A s \in Stakers : stakerWallet[s] \in Nat
        /\ poolTokens \in Nat
    BY DEF Pool!TypeOK
  <1>3. /\ \A b \in Purchasers : purchaserWallet[b] \in Nat
        /\ \A a \in EscrowAccounts : escrowTokens[a] \in Nat
        /\ purchaserWallet \in [Purchasers -> Nat]
        /\ escrowTokens \in [EscrowAccounts -> Nat]
        /\ \A p \in Peers : paid[p] \in Nat
        /\ burned \in Nat
    BY DEF Escrow!TypeOK
  <1>4. /\ inStakers \in Nat /\ inPurchasers \in Nat /\ inEscrows \in Nat
        /\ inPeers \in Nat
    BY <1>1, <1>2, <1>3, SumType DEF inStakers, inPurchasers, inEscrows, inPeers
  <1> QED BY <1>1, <1>2, <1>3, <1>4

LEMMA EconomyStart ==
    ASSUME Init
    PROVE  Pool!Init /\ Escrow!Init /\ EconomyInv
  <1>1. /\ inEscrows = 0 /\ inPeers = 0
        /\ inStakers = SumOver(StakerTokens, Stakers)
        /\ inPurchasers = SumOver(PurchaserTokens, Purchasers)
    <2>1. /\ \A a \in EscrowAccounts : escrowTokens[a] = 0
          /\ \A p \in Peers : paid[p] = 0
          /\ stakerWallet = StakerTokens /\ purchaserWallet = PurchaserTokens
      BY DEF Init
    <2>2. IsFiniteSet(EscrowAccounts) /\ IsFiniteSet(Peers)
      BY EconomyAssumption DEF EconomyAssumption
    <2> QED BY <2>1, <2>2, SumZero DEF inEscrows, inPeers, inStakers, inPurchasers
  <1>2. /\ others = OtherTokens /\ poolTokens = 0 /\ burned = 0
    BY DEF Init
  <1>3. market = OtherTokens + SumOver(PurchaserTokens, Purchasers)
    BY <1>1, <1>2, StartSums DEF market, inEscrows, inPeers, inPurchasers
  <1>4. rest = OtherTokens + SumOver(StakerTokens, Stakers)
    BY <1>1, <1>2, StartSums DEF rest, inStakers
  <1>5. Pool!Init
    BY <1>3 DEF Init, Pool!Init
  <1>6. Escrow!Init
    BY <1>4 DEF Init, Escrow!Init
  <1>7. Pool!TypeOK
    BY <1>5, SamePool, PoolAssumes, PoolFacts!TypeInit
  <1>8. Escrow!TypeOK
    BY <1>6, SameEscrow, EscrowAssumes, EscrowFacts!TypeInit
  <1>9. EscrowFacts!RevealsMatch
    BY <1>6, SameEscrow, EscrowAssumes, EscrowFacts!RevealsInit
  <1>10. others \in Nat
    BY <1>2, StartSums
  <1>11. SupplyConserved
    BY <1>1, <1>2, StartSums
    DEF SupplyConserved, Supply, inEscrows, inPeers, inStakers, inPurchasers
  <1> QED BY <1>5, <1>6, <1>7, <1>8, <1>9, <1>10, <1>11 DEF EconomyInv

----------------------------------------------------------------------------
(* Steps. *)

\* A purchase of the program is one of the escrows': what the treasury and the pool
\* get leaves the escrows' view.
LEMMA PurchaseIsEscrows ==
    ASSUME EconomyInv, NEW b \in Purchasers, NEW total \in Amounts, NEW bp \in FeeRates,
           NEW a \in EscrowAccounts, PurchaseAccess(b, total, bp, a)
    PROVE  Escrow!PurchaseAccess(b, total, bp, a)
  <1>1. /\ TotalFee(total, bp) \in Nat
        /\ AmountToStakers(total, bp) \in Nat
    BY SplitExact, EconomyAssumption DEF EconomyAssumption
  <1>2. /\ others' = others + TotalFee(total, bp)
        /\ poolTokens' = poolTokens + AmountToStakers(total, bp)
        /\ stakerWallet' = stakerWallet
    BY DEF PurchaseAccess, ToTreasury, ToPool, Pool!AccrueRewards
  <1>3. rest' = rest + TotalFee(total, bp) + AmountToStakers(total, bp)
    <2>1. others \in Nat /\ poolTokens \in Nat /\ inStakers \in Nat
      BY EconomyTypes DEF EconomyInv
    <2>2. rest = others + poolTokens + inStakers
      BY DEF rest, inStakers
    <2>3. rest' = others' + poolTokens' + inStakers
      BY <1>2 DEF rest, inStakers
    <2> QED BY <1>1, <1>2, <2>1, <2>2, <2>3
  <1> QED
    BY <1>3, SameSplit DEF PurchaseAccess, ToEscrow, Escrow!PurchaseAccess, Escrow!Locked

LEMMA EscrowStepIsEscrows ==
    ASSUME EscrowStep
    PROVE  Escrow!Next
  BY DEF EscrowStep, Escrow!Next

LEMMA PoolStepIsPools ==
    ASSUME PoolStep
    PROVE  Pool!Next
  BY DEF PoolStep, Pool!Next

\* What the components' own proofs say of a step of theirs.
LEMMA EscrowFactsNext ==
    ASSUME Escrow!TypeOK, EscrowFacts!RevealsMatch, Escrow!Next
    PROVE  /\ Escrow!TypeOK'
           /\ EscrowFacts!RevealsMatch'
           /\ (inPurchasers + inEscrows + inPeers + rest + burned)'
                 = inPurchasers + inEscrows + inPeers + rest + burned
  <1>1. EscrowFacts!TypeOK /\ EscrowFacts!Next
    BY SameEscrow
  <1>2. EscrowFacts!TypeOK'
    BY <1>1, EscrowAssumes, EscrowFacts!TypeNext
  <1>3. EscrowFacts!RevealsMatch'
    BY <1>1, EscrowAssumes, EscrowFacts!RevealsNext, EscrowFacts!TypeHasEscrowType
  <1>4. EscrowFacts!Held' = EscrowFacts!Held
    BY <1>1, EscrowAssumes, EscrowFacts!HeldNext
  <1>5. EscrowFacts!Held = inPurchasers + inEscrows + inPeers + rest + burned
    BY SameSums DEF EscrowFacts!Held, inPurchasers, inEscrows, inPeers
  <1>6. EscrowFacts!Held' = (inPurchasers + inEscrows + inPeers + rest + burned)'
    BY SameSums DEF EscrowFacts!Held, inPurchasers, inEscrows, inPeers
  <1>7. Escrow!TypeOK'
    BY <1>2 DEF Escrow!TypeOK, EscrowFacts!TypeOK, Escrow!EscrowRecord, Escrow!NoEscrow,
           EscrowFacts!EscrowRecord, EscrowFacts!NoEscrow, Escrow!TrustRecord,
           EscrowFacts!TrustRecord, Escrow!NoTrust, EscrowFacts!NoTrust,
           Escrow!Destinations, EscrowFacts!Destinations
  <1> QED BY <1>3, <1>4, <1>5, <1>6, <1>7

LEMMA PoolFactsNext ==
    ASSUME Pool!TypeOK, Pool!Next
    PROVE  /\ Pool!TypeOK'
           /\ (poolTokens + inStakers + market)' = poolTokens + inStakers + market
  <1>1. PoolFacts!TypeOK /\ PoolFacts!Next
    BY SamePool
  <1>2. PoolFacts!TypeOK'
    BY <1>1, PoolAssumes, PoolFacts!TypeNext
  <1>3. (poolTokens + inStakers + market)' = poolTokens + inStakers + market
    BY <1>1, PoolAssumes, PoolFacts!PoolTokensMove, SameSums DEF inStakers
  <1>4. Pool!TypeOK'
    BY <1>2 DEF Pool!TypeOK, PoolFacts!TypeOK
  <1> QED BY <1>3, <1>4

\* A purchase of the program is one of the pool's: of all that leaves the purchaser's
\* wallet only the stakers' part leaves the pool's view of the market.
LEMMA PurchaseIsPools ==
    ASSUME EconomyInv, NEW b \in Purchasers, NEW total \in Amounts, NEW bp \in FeeRates,
           NEW a \in EscrowAccounts, PurchaseAccess(b, total, bp, a)
    PROVE  Pool!PurchaseAccess(total, bp)
  <1> DEFINE fee == TotalFee(total, bp)
             toEscrow == AmountToEscrow(total, bp)
             toPool == AmountToStakers(total, bp)
  <1>1. /\ total \in Nat /\ fee \in Nat /\ toEscrow \in Nat /\ toPool \in Nat
        /\ fee + toEscrow + toPool = total
    BY SplitExact, EconomyAssumption DEF EconomyAssumption
  <1>2. Escrow!Next
    BY PurchaseIsEscrows DEF Escrow!Next
  <1>3. /\ IsFiniteSet(Purchasers) /\ IsFiniteSet(EscrowAccounts)
        /\ \A c \in Purchasers : purchaserWallet[c] \in Nat
        /\ \A c \in EscrowAccounts : escrowTokens[c] \in Nat
        /\ purchaserWallet \in [Purchasers -> Nat]
        /\ escrowTokens \in [EscrowAccounts -> Nat]
        /\ inPurchasers \in Nat /\ inEscrows \in Nat /\ inPeers \in Nat
        /\ burned \in Nat /\ others \in Nat
    BY EconomyTypes DEF EconomyInv
  <1>4. /\ \A c \in Purchasers : purchaserWallet'[c] \in Nat
        /\ \A c \in EscrowAccounts : escrowTokens'[c] \in Nat
    BY <1>2, EscrowFactsNext DEF EconomyInv, Escrow!TypeOK
  <1>5. /\ total > 0 /\ total <= purchaserWallet[b]
        /\ purchaserWallet' = [purchaserWallet EXCEPT ![b] = @ - total]
        /\ others' = others + fee
        /\ Pool!AccrueRewards(toPool)
        /\ Escrow!OpenEscrow(b, toEscrow, a)
    BY DEF PurchaseAccess, ToTreasury, ToPool, ToEscrow
  <1>6. /\ escrowTokens' = [c \in EscrowAccounts |->
                              escrowTokens[c] + Escrow!Arrives(c, a, toEscrow)]
        /\ paid' = [p \in Peers |-> paid[p] + Escrow!Arrives(p, a, toEscrow)]
        /\ burned' = burned
    BY <1>5 DEF Escrow!OpenEscrow
  <1>p. inPeers' = inPeers
    <2>1. a \notin Peers
      BY EconomyAssumption DEF EconomyAssumption
    <2>2. \A p \in Peers : paid[p] \in Nat /\ paid'[p] = paid[p]
      BY <1>6, <2>1, EconomyTypes DEF EconomyInv, Escrow!Arrives
    <2>3. IsFiniteSet(Peers)
      BY EconomyAssumption DEF EconomyAssumption
    <2> QED BY <2>2, <2>3, SumSame DEF inPeers
  <1> HIDE DEF fee, toEscrow, toPool
  <1>7. inPurchasers' = inPurchasers - total
    <2>1. /\ purchaserWallet'[b] = purchaserWallet[b] - total
          /\ \A c \in Purchasers \ {b} : purchaserWallet'[c] = purchaserWallet[c]
      BY <1>3, <1>5
    <2>2. inPurchasers' = inPurchasers - purchaserWallet[b] + purchaserWallet'[b]
      BY <1>3, <1>4, <2>1, SumUpdate DEF inPurchasers
    <2> QED BY <1>1, <1>3, <2>1, <2>2
  <1>8. inEscrows' = inEscrows + toEscrow
    <2>1. /\ escrowTokens'[a] = escrowTokens[a] + toEscrow
          /\ \A c \in EscrowAccounts \ {a} : escrowTokens'[c] = escrowTokens[c]
      BY <1>1, <1>3, <1>6 DEF Escrow!Arrives
    <2>2. inEscrows' = inEscrows - escrowTokens[a] + escrowTokens'[a]
      BY <1>3, <1>4, <2>1, SumUpdate DEF inEscrows
    <2> QED BY <1>1, <1>3, <2>1, <2>2
  <1>9. market = others + inPurchasers + inEscrows + inPeers + burned
    BY DEF market, inPurchasers, inEscrows, inPeers
  <1>10. market' = others' + inPurchasers' + inEscrows' + inPeers + burned
    BY <1>6, <1>p DEF market, inPurchasers, inEscrows, inPeers
  <1>11. market' = market - toPool
    BY <1>1, <1>3, <1>5, <1>7, <1>8, <1>9, <1>10
  <1>12. total <= market
    <2>1. purchaserWallet[b] <= inPurchasers
      BY <1>3, SumBoundsMember DEF inPurchasers
    <2> QED BY <1>1, <1>3, <1>5, <1>9, <2>1
  <1>13. Pool!AmountToStakers(total, bp) = toPool
    BY SameSplit DEF toPool
  <1> QED BY <1>5, <1>11, <1>12, <1>13 DEF Pool!PurchaseAccess

LEMMA OthersType ==
    ASSUME EconomyInv, EscrowStep
    PROVE  others' \in Nat
  <1>0. others \in Nat /\ \A a \in EscrowAccounts : escrowTokens[a] \in Nat
    BY EconomyTypes DEF EconomyInv
  <1>1. ASSUME NEW amount \in Amounts, NEW to,
               others' = others + Escrow!Arrives("rest", to, amount)
        PROVE  others' \in Nat
    BY <1>0, <1>1, EconomyAssumption DEF EconomyAssumption, Escrow!Arrives
  <1>2. ASSUME NEW a \in EscrowAccounts, others' \in others .. others + escrowTokens[a]
        PROVE  others' \in Nat
    BY <1>0, <1>2
  <1>3. ASSUME NEW amount \in Amounts, amount <= others, others' = others - amount
        PROVE  others' \in Nat
    BY <1>0, <1>3, EconomyAssumption DEF EconomyAssumption
  <1>4. CASE UNCHANGED others
    BY <1>0, <1>4
  <1> QED BY <1>1, <1>2, <1>3, <1>4 DEF EscrowStep

\* Whatever the escrows do among themselves, the pool's view of the market stays.
LEMMA EscrowStepInPool ==
    ASSUME EconomyInv, EscrowStep
    PROVE  /\ UNCHANGED Pool!vars
           /\ others' \in Nat
  <1>1. Escrow!Next
    BY EscrowStepIsEscrows
  <1>2. UNCHANGED <<pool, position, poolTokens, stakerWallet, foreign, entitled>>
    BY DEF EscrowStep, poolVars
  <1>3. others' \in Nat
    BY OthersType
  <1>4. /\ Escrow!TypeOK'
        /\ (inPurchasers + inEscrows + inPeers + rest + burned)'
              = inPurchasers + inEscrows + inPeers + rest + burned
    BY <1>1, EscrowFactsNext DEF EconomyInv
  <1>5. market' = market
    <2>1. /\ inPurchasers \in Nat /\ inEscrows \in Nat /\ inPeers \in Nat
          /\ burned \in Nat /\ others \in Nat /\ poolTokens \in Nat
          /\ inStakers \in Nat
      BY EconomyTypes DEF EconomyInv
    <2>2. /\ inPurchasers' \in Nat /\ inEscrows' \in Nat /\ inPeers' \in Nat
          /\ burned' \in Nat
      <3>1. /\ \A b \in Purchasers : purchaserWallet'[b] \in Nat
            /\ \A a \in EscrowAccounts : escrowTokens'[a] \in Nat
            /\ \A p \in Peers : paid'[p] \in Nat
            /\ burned' \in Nat
        BY <1>4 DEF Escrow!TypeOK
      <3>2. IsFiniteSet(Purchasers) /\ IsFiniteSet(Peers) /\ IsFiniteSet(EscrowAccounts)
        BY EconomyAssumption DEF EconomyAssumption
      <3> QED BY <3>1, <3>2, SumType DEF inPurchasers, inEscrows, inPeers
    <2>3. /\ rest = others + poolTokens + inStakers
          /\ rest' = others' + poolTokens + inStakers
      BY <1>2 DEF rest, inStakers
    <2>4. others' + inPurchasers' + inEscrows' + inPeers' + burned'
            = others + inPurchasers + inEscrows + inPeers + burned
      <3> DEFINE a == inPurchasers'
                 b == inEscrows'
                 c == inPeers'
                 d == burned'
                 o == others'
      <3>1. /\ a \in Nat /\ b \in Nat /\ c \in Nat /\ d \in Nat /\ o \in Nat
            /\ a + b + c + (o + poolTokens + inStakers) + d
                 = inPurchasers + inEscrows + inPeers + (others + poolTokens + inStakers)
                     + burned
        BY <1>3, <1>4, <2>2, <2>3
      <3> HIDE DEF a, b, c, d, o
      <3>2. o + a + b + c + d = others + inPurchasers + inEscrows + inPeers + burned
        BY <2>1, <3>1
      <3> QED BY <3>2 DEF a, b, c, d, o
    <2>5. market = others + inPurchasers + inEscrows + inPeers + burned
      BY DEF market, inPurchasers, inEscrows, inPeers
    <2>6. market' = others' + inPurchasers' + inEscrows' + inPeers' + burned'
      BY DEF market, inPurchasers, inEscrows, inPeers
    <2> QED BY <2>4, <2>5, <2>6
  <1> QED BY <1>2, <1>3, <1>5 DEF Pool!vars

\* Stakes, claims and withdrawals move tokens inside what the escrows see as the rest.
LEMMA PoolStepInEscrows ==
    ASSUME EconomyInv, PoolStep
    PROVE  UNCHANGED Escrow!vars
  <1>1. Pool!Next
    BY PoolStepIsPools
  <1>2. UNCHANGED <<escrow, lot, escrowTokens, purchaserWallet, paid, burned,
                    paidElsewhere, trust, totalTrust, otherTrust, isHost, reveal,
                    isBlacklisted, others>>
    BY DEF PoolStep, escrowVars
  <1>3. market' = market
    BY <1>2 DEF market
  <1>4. /\ Pool!TypeOK'
        /\ (poolTokens + inStakers + market)' = poolTokens + inStakers + market
    BY <1>1, PoolFactsNext DEF EconomyInv
  <1>5. rest' = rest
    <2>1. poolTokens \in Nat /\ inStakers \in Nat /\ others \in Nat
      BY EconomyTypes DEF EconomyInv
    <2>a. market \in Nat
      BY DEF EconomyInv, Pool!TypeOK
    <2>2. poolTokens' \in Nat /\ inStakers' \in Nat
      <3>1. poolTokens' \in Nat /\ \A s \in Stakers : stakerWallet'[s] \in Nat
        BY <1>4 DEF Pool!TypeOK
      <3>2. IsFiniteSet(Stakers)
        BY EconomyAssumption DEF EconomyAssumption
      <3> QED BY <3>1, <3>2, SumType DEF inStakers
    <2>3. poolTokens' + inStakers' + market' = poolTokens + inStakers + market
      BY <1>4
    <2>4. others + poolTokens' + inStakers' = others + poolTokens + inStakers
      <3> DEFINE p == poolTokens'
                 q == inStakers'
      <3>1. p \in Nat /\ q \in Nat
        BY <2>2
      <3>2. p + q + market = poolTokens + inStakers + market
        BY <1>3, <2>3
      <3> HIDE DEF p, q
      <3>3. others + p + q = others + poolTokens + inStakers
        BY <2>1, <2>a, <3>1, <3>2
      <3> QED BY <3>3 DEF p, q
    <2>5. rest = others + poolTokens + inStakers
      BY DEF rest, inStakers
    <2>6. rest' = others + poolTokens' + inStakers'
      BY <1>2 DEF rest, inStakers
    <2> QED BY <2>4, <2>5, <2>6
  <1> QED BY <1>2, <1>5 DEF Escrow!vars

LEMMA EconomyStep ==
    ASSUME EconomyInv, [Next]_vars
    PROVE  /\ Pool!Next \/ UNCHANGED Pool!vars
           /\ Escrow!Next \/ UNCHANGED Escrow!vars
  <1>1. ASSUME NEW b \in Purchasers, NEW total \in Amounts, NEW bp \in FeeRates,
               NEW a \in EscrowAccounts, PurchaseAccess(b, total, bp, a)
        PROVE  Pool!Next /\ Escrow!Next
    BY <1>1, PurchaseIsPools, PurchaseIsEscrows DEF Pool!Next, Escrow!Next
  <1>2. CASE PoolStep
    BY <1>2, PoolStepIsPools, PoolStepInEscrows
  <1>3. CASE EscrowStep
    BY <1>3, EscrowStepIsEscrows, EscrowStepInPool
  <1>4. CASE UNCHANGED vars
    BY <1>4 DEF vars, poolVars, escrowVars, Pool!vars, Escrow!vars, market, rest
  <1> QED BY <1>1, <1>2, <1>3, <1>4 DEF Next

LEMMA EconomyNext ==
    ASSUME EconomyInv, [Next]_vars
    PROVE  EconomyInv'
  <1>1. Pool!TypeOK'
    <2>1. CASE UNCHANGED Pool!vars
      BY <2>1 DEF EconomyInv, Pool!vars, Pool!TypeOK
    <2> QED BY <2>1, EconomyStep, PoolFactsNext DEF EconomyInv
  <1>2. /\ Escrow!TypeOK' /\ EscrowFacts!RevealsMatch'
        /\ (inPurchasers + inEscrows + inPeers + rest + burned)'
              = inPurchasers + inEscrows + inPeers + rest + burned
    <2>1. CASE UNCHANGED Escrow!vars
      <3>1. UNCHANGED <<escrow, lot, escrowTokens, purchaserWallet, paid, rest, burned,
                        paidElsewhere, trust, totalTrust, otherTrust, isHost, reveal,
                        isBlacklisted>>
        BY <2>1 DEF Escrow!vars
      <3>2. Escrow!TypeOK'
        BY <3>1 DEF EconomyInv, Escrow!TypeOK
      <3>3. EscrowFacts!RevealsMatch'
        BY <3>1 DEF EconomyInv, EscrowFacts!RevealsMatch
      <3>4. (inPurchasers + inEscrows + inPeers + rest + burned)'
              = inPurchasers + inEscrows + inPeers + rest + burned
        BY <3>1 DEF inPurchasers, inEscrows, inPeers
      <3> QED BY <3>2, <3>3, <3>4
    <2> QED BY <2>1, EconomyStep, EscrowFactsNext DEF EconomyInv
  <1>3. others' \in Nat
    <2>1. ASSUME NEW b \in Purchasers, NEW total \in Amounts, NEW bp \in FeeRates,
                 NEW a \in EscrowAccounts, PurchaseAccess(b, total, bp, a)
          PROVE  others' \in Nat
      <3>1. TotalFee(total, bp) \in Nat
        BY SplitExact, EconomyAssumption DEF EconomyAssumption
      <3>2. others' = others + TotalFee(total, bp)
        BY <2>1 DEF PurchaseAccess, ToTreasury
      <3> QED BY <3>1, <3>2 DEF EconomyInv
    <2>2. CASE PoolStep \/ UNCHANGED vars
      BY <2>2 DEF PoolStep, vars, EconomyInv
    <2>3. CASE EscrowStep
      BY <2>3, OthersType
    <2> QED BY <2>1, <2>2, <2>3 DEF Next
  <1>4. SupplyConserved'
    <2> DEFINE held == others + poolTokens + inStakers + inPurchasers + inEscrows
                         + inPeers + burned
               seen == inPurchasers + inEscrows + inPeers + rest + burned
    <2>1. /\ inPurchasers \in Nat /\ inEscrows \in Nat /\ inPeers \in Nat /\ burned \in Nat
          /\ others \in Nat /\ poolTokens \in Nat /\ inStakers \in Nat
      BY EconomyTypes DEF EconomyInv
    <2>2. (/\ inPurchasers \in Nat /\ inEscrows \in Nat /\ inPeers \in Nat /\ burned \in Nat
           /\ others \in Nat /\ poolTokens \in Nat /\ inStakers \in Nat)'
      <3>1. /\ \A b \in Purchasers : purchaserWallet'[b] \in Nat
            /\ \A a \in EscrowAccounts : escrowTokens'[a] \in Nat
            /\ \A p \in Peers : paid'[p] \in Nat
            /\ burned' \in Nat
        BY <1>2 DEF Escrow!TypeOK
      <3>2. poolTokens' \in Nat /\ \A s \in Stakers : stakerWallet'[s] \in Nat
        BY <1>1 DEF Pool!TypeOK
      <3>3. /\ IsFiniteSet(Stakers) /\ IsFiniteSet(Purchasers) /\ IsFiniteSet(Peers)
            /\ IsFiniteSet(EscrowAccounts)
        BY EconomyAssumption DEF EconomyAssumption
      <3> QED BY <1>3, <3>1, <3>2, <3>3, SumType
              DEF inPurchasers, inEscrows, inPeers, inStakers
    <2>3. held = Supply
      BY DEF EconomyInv, SupplyConserved, inPurchasers, inEscrows, inPeers, inStakers
    <2>4. held = seen
      BY <2>1 DEF rest, inStakers
    <2>5. held' = seen'
      BY <2>2 DEF rest, inStakers
    <2>6. seen' = seen
      BY <1>2
    <2>7. held' = Supply
      BY <2>3, <2>4, <2>5, <2>6
    <2> QED BY <2>7 DEF SupplyConserved, inPurchasers, inEscrows, inPeers, inStakers, Supply
  <1> QED BY <1>1, <1>2, <1>3, <1>4 DEF EconomyInv

LEMMA EconomyAlways == Spec => []EconomyInv
  <1>1. Init => EconomyInv
    BY EconomyStart
  <1>2. EconomyInv /\ [Next]_vars => EconomyInv'
    BY EconomyNext
  <1> QED BY <1>1, <1>2, PTL DEF Spec

\* Purchases, stakes, claims, releases and burns, in any order and for any number of
\* wallets, neither create nor lose a token between the pool and the escrows.
THEOREM SupplyAlwaysConserved == Spec => []SupplyConserved
  BY EconomyAlways, PTL DEF EconomyInv

\* Every step of the economy is a step of the staking pool, or one it does not see: all
\* that is proved of the pool alone holds of it inside the economy.
THEOREM EconomyImplementsPool == Spec => PoolKeepsItsSpec
  <1>1. Init => Pool!Init
    BY EconomyStart
  <1>2. EconomyInv /\ [Next]_vars => [Pool!Next]_(Pool!vars)
    BY EconomyStep
  <1> QED BY <1>1, <1>2, EconomyAlways, PTL DEF Spec, PoolKeepsItsSpec, Pool!Spec

\* The same of the escrows, whatever the stakers do meanwhile.
THEOREM EconomyImplementsEscrows == Spec => EscrowKeepsItsSpec
  <1>1. Init => Escrow!Init
    BY EconomyStart
  <1>2. EconomyInv /\ [Next]_vars => [Escrow!Next]_(Escrow!vars)
    BY EconomyStep
  <1> QED BY <1>1, <1>2, EconomyAlways, PTL DEF Spec, EscrowKeepsItsSpec, Escrow!Spec

=============================================================================
