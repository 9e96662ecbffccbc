------------------------- MODULE CollectionEconomy -------------------------
(***************************************************************************)
(* The token economy of one collection: the staking pool and the access    *)
(* escrows around the instruction that touches both, purchase_access.      *)
(* The components keep their own actions; this module adds the purchase as *)
(* the program performs it, in one transaction over all the accounts, and  *)
(* shows that each component still sees only steps of its own.             *)
(***************************************************************************)
EXTENDS Integers, Sequences, FiniteSets, PurchaseSplit, TokenSums

CONSTANTS Stakers, StakerTokens, ForeignTokens, Purchasers, PurchaserTokens, Peers,
          EscrowAccounts, OwnerOf, OtherTokens, ElsewhereTokens, Amounts, FeeRates,
          Precision, MaxU128, MaxU64, Weights, MaxPeerListLength, Expiry, Repaired

VARIABLES
    pool, position, poolTokens, stakerWallet, foreign, entitled,   \* the pool's
    escrow, lot, escrowTokens, purchaserWallet, paid, burned,      \* the escrows'
    paidElsewhere, trust, totalTrust, otherTrust, isHost, reveal, isBlacklisted,
    others          \* collection tokens of the treasury and all other wallets

poolVars == <<pool, position, poolTokens, stakerWallet, foreign, entitled>>
escrowVars == <<escrow, lot, escrowTokens, purchaserWallet, paid, burned,
                paidElsewhere, trust, totalTrust, otherTrust, isHost, reveal,
                isBlacklisted>>
vars == <<poolVars, escrowVars, others>>

\* The pool's view of everybody else, burned tokens included.
market == others + SumOver(purchaserWallet, Purchasers)
            + SumOver(escrowTokens, EscrowAccounts) + SumOver(paid, Peers) + burned

\* The escrows' view of everybody else.
rest == others + poolTokens + SumOver(stakerWallet, Stakers)

Supply == OtherTokens + SumOver(StakerTokens, Stakers)
            + SumOver(PurchaserTokens, Purchasers)

Pool == INSTANCE StakingPool WITH
            wallet <- stakerWallet,
            MarketTokens <- OtherTokens + SumOver(PurchaserTokens, Purchasers)

Escrow == INSTANCE AccessEscrow WITH
            wallet <- purchaserWallet,
            OtherTokens <- OtherTokens + SumOver(StakerTokens, Stakers)

\* What the two components assume of their constants, and that the economy starts
\* with whole tokens.
ASSUME EconomyAssumption ==
    /\ IsFiniteSet(Stakers)
    /\ IsFiniteSet(Purchasers)
    /\ IsFiniteSet(Peers)
    /\ IsFiniteSet(EscrowAccounts)
    /\ Purchasers \cap Peers = {}
    /\ EscrowAccounts \cap (Purchasers \cup Peers) = {}
    /\ "rest" \notin Purchasers \cup Peers \cup EscrowAccounts
    /\ "none" \notin Purchasers \cup Peers \cup EscrowAccounts
    /\ OwnerOf \in [EscrowAccounts -> Purchasers]
    /\ StakerTokens \in [Stakers -> Nat]
    /\ ForeignTokens \in [Stakers -> Nat]
    /\ PurchaserTokens \in [Purchasers -> Nat]
    /\ OtherTokens \in Nat
    /\ ElsewhereTokens \in Nat
    /\ Amounts \subseteq Nat
    /\ FeeRates \subseteq FeeRate
    /\ Precision \in Nat \ {0}
    /\ MaxU128 \in Nat
    /\ MaxU64 \in Nat
    /\ Weights \subseteq Nat
    /\ MaxPeerListLength \in Nat \ {0}
    /\ Expiry \in Nat
    /\ Repaired \subseteq Escrow!Defects

----------------------------------------------------------------------------
Init ==
    /\ pool = [exists |-> FALSE, total_staked |-> 0, reward_per_token |-> 0]
    /\ position = [s \in Stakers |-> [amount_staked |-> 0, reward_debt |-> 0]]
    /\ poolTokens = 0
    /\ stakerWallet = StakerTokens
    /\ foreign = ForeignTokens
    /\ entitled = [s \in Stakers |-> 0]
    /\ escrow = [b \in Purchasers |-> Escrow!NoEscrow]
    /\ lot = [b \in Purchasers |-> "none"]
    /\ escrowTokens = [a \in EscrowAccounts |-> 0]
    /\ purchaserWallet = PurchaserTokens
    /\ paid = [p \in Peers |-> 0]
    /\ burned = 0
    /\ paidElsewhere = [p \in Peers |-> 0]
    /\ trust = [p \in Peers |-> Escrow!NoTrust]
    /\ totalTrust = 0
    /\ otherTrust = 0
    /\ isHost = [p \in Peers |-> FALSE]
    /\ reveal = [b \in Purchasers |-> [p \in Peers |-> "none"]]
    /\ isBlacklisted = FALSE
    /\ others = OtherTokens

ToTreasury_Floor(total, bp) == (total * bp) \div FeeDenominator

ToTreasury(total, bp) == TotalFee(total, bp)

ToPool_HalfOnly(total, bp) == (AmountAfterFee(total, bp) * SplitToStakers) \div 100

ToPool(total, bp) == AmountToStakers(total, bp)

ToEscrow_WholeRest(total, bp) == AmountAfterFee(total, bp)

ToEscrow(total, bp) == AmountToEscrow(total, bp)

(* purchase_access over all the accounts it touches, a among them. *)
PurchaseAccess(b, total, bp, a) ==
    /\ OwnerOf[a] = b
    /\ total > 0
    /\ Escrow!SplitComputes(total, bp)
    /\ total <= purchaserWallet[b]
    /\ purchaserWallet' = [purchaserWallet EXCEPT ![b] = @ - total]
    /\ others' = others + ToTreasury(total, bp)
    /\ Pool!AccrueRewards(ToPool(total, bp))
    /\ Escrow!OpenEscrow(b, ToEscrow(total, bp), a)

PoolStep ==
    /\ UNCHANGED <<escrowVars, others>>
    /\ \E s \in Stakers, mint \in Pool!Mint :
          \/ \E amount \in Amounts : Pool!StakeCollectionTokens(s, amount, mint)
          \/ Pool!ClaimStakingRewards(s, mint)
          \/ \E amount \in Amounts : Pool!UnstakeCollectionTokens(s, amount, mint)

\* What an escrow sends to the rest reaches the others (of a release, the sweep says
\* how much), and a deposit comes from them.
EscrowStep ==
    /\ UNCHANGED poolVars
    /\ \/ \E b \in Purchasers, amount \in Amounts, to \in Escrow!Destinations :
             /\ others' = others + Escrow!Arrives("rest", to, amount)
             /\ Escrow!CreateAccessEscrow(b, amount, to)
       \/ \E b \in Purchasers, a \in EscrowAccounts :
             /\ others' \in others .. others + escrowTokens[a]
             /\ \E list \in Escrow!PeerList : Escrow!ReleaseEscrow(b, a, list)
       \/ \E a \in EscrowAccounts, amount \in Amounts :
             /\ amount <= others
             /\ others' = others - amount
             /\ Escrow!Deposit(a, amount)
       \/ /\ UNCHANGED others
          /\ \/ \E b \in Purchasers, a \in EscrowAccounts : Escrow!BurnExpiredEscrow(b, a)
             \/ \E b \in Purchasers, p \in Peers : Escrow!RevealCid(p, b)
             \/ \E locked \in Amounts, list \in Escrow!PeerList :
                   Escrow!ReleaseElsewhere(locked, list)
             \/ \E p \in Peers : \/ Escrow!InitializePeerTrustState(p)
                                 \/ Escrow!RegisterCollectionHost(p)
             \/ Escrow!Blacklist
             \/ Escrow!Tick

Next ==
    \/ \E b \in Purchasers, total \in Amounts, bp \in FeeRates, a \in EscrowAccounts :
          PurchaseAccess(b, total, bp, a)
    \/ PoolStep
    \/ EscrowStep

Spec == Init /\ [][Next]_vars

----------------------------------------------------------------------------
(* Properties *)

\* No token of the collection is created or lost, whichever of the two components
\* it passes through; only an expired escrow leaves the supply.
SupplyConserved ==
    others + poolTokens + SumOver(stakerWallet, Stakers)
        + SumOver(purchaserWallet, Purchasers) + SumOver(escrowTokens, EscrowAccounts)
        + SumOver(paid, Peers) + burned = Supply

\* Purchases, as the whole program performs them, are purchases to the pool: the
\* pool's own specification holds of it inside the economy.
PoolKeepsItsSpec == Pool!Spec

\* The same of the escrows, stakes and reward claims being invisible to them.
EscrowKeepsItsSpec == Escrow!Spec

=============================================================================
