---------------------------- MODULE StakingPool ----------------------------
(***************************************************************************)
(* The staking pool of one collection (instructions/staking.rs) and the    *)
(* part of purchase_access that pays it (instructions/access.rs).          *)
(*                                                                         *)
(* Every instruction is one transaction: its checks either all pass and    *)
(* its effects happen together, or it changes nothing.  Amounts are in     *)
(* lamports of the collection token.  Precision stands for REWARD_PRECISION*)
(* and MaxU128 for the largest u128; both are parameters so that a model   *)
(* can be small and the proofs hold for the program's own values.          *)
(*                                                                         *)
(* The instructions of the stakers name a mint and check it against the    *)
(* pool account they are given, not against collection.mint; purchases do  *)
(* check it.  A mint is the collection's or "other", which stands for all  *)
(* the rest: the books of the pool do not tell those apart.                *)
(***************************************************************************)
EXTENDS Integers, FiniteSets, PurchaseSplit, TokenSums

CONSTANTS Stakers,        \* wallets that may hold a StakerPosition
          StakerTokens,   \* what each of them holds at the start
          ForeignTokens,  \* their tokens of other mints, to begin with
          MarketTokens,   \* what everybody else holds at the start
          Amounts,        \* amounts a caller may name
          FeeRates,       \* the fees GlobalState may hold at a purchase
          Precision,      \* REWARD_PRECISION, the scale of reward_per_token
          MaxU128         \* checked u128 arithmetic fails above this

ASSUME StakingPoolAssumption ==
    /\ IsFiniteSet(Stakers)
    /\ StakerTokens \in [Stakers -> Nat]
    /\ ForeignTokens \in [Stakers -> Nat]
    /\ MarketTokens \in Nat
    /\ Amounts \subseteq Nat
    /\ FeeRates \subseteq FeeRate
    /\ Precision \in Nat \ {0}
    /\ MaxU128 \in Nat

VARIABLES
    pool,        \* CollectionStakingPool, and whether the account exists
    position,    \* StakerPosition of each staker (all zero before it exists)
    poolTokens,  \* collection tokens in the accounts the pool owns
    wallet,      \* collection tokens in each staker's own account
    foreign,     \* each staker's tokens of other mints
    market,      \* collection tokens of everybody else
    entitled     \* history: each staker's scaled share of every purchase so far

vars == <<pool, position, poolTokens, wallet, foreign, market, entitled>>

Mint == {"collection", "other"}

U128(n) == n <= MaxU128

----------------------------------------------------------------------------
(* Accounting shared by the three staking instructions. *)

\* amount_staked * reward_per_token, the staker's gross accumulated rewards.
Accumulated(s) == position[s].amount_staked * pool.reward_per_token

\* What the staker may still be paid, scaled by Precision.
Pending(s) == Accumulated(s) - position[s].reward_debt

PendingTokens(s) == Pending(s) \div Precision

\* Both checked operations of the pending computation succeed.
PendingComputes(s) == U128(Accumulated(s)) /\ Pending(s) >= 0

DebtOf_BeforeChange(s, amount) == position[s].amount_staked * pool.reward_per_token

DebtOf_KeptFromLastTime(s, amount) == position[s].reward_debt

\* Debt of a position holding `amount` from now on: all rewards so far count as paid.
DebtOf(s, amount) == amount * pool.reward_per_token

Settle(s, amount) ==
    /\ U128(DebtOf(s, amount))
    /\ position' = [position EXCEPT
                      ![s] = [amount_staked |-> amount,
                              reward_debt   |-> DebtOf(s, amount)]]

(* The transfer of a stake, from the staker's account to the pool's.  What a   *)
(* fee of another mint may keep of it is not tracked, nor what the pool's      *)
(* accounts of other mints hold: anybody may have put tokens there.            *)
TakeFrom(s, amount, mint) ==
    \/ /\ mint = "collection"
       /\ amount <= wallet[s]
       /\ wallet' = [wallet EXCEPT ![s] = @ - amount]
       /\ poolTokens' = poolTokens + amount
       /\ UNCHANGED foreign
    \/ /\ mint = "other"
       /\ amount <= foreign[s]
       /\ foreign' = [foreign EXCEPT ![s] = @ - amount]
       /\ UNCHANGED <<wallet, poolTokens>>

(* The transfer of a payment.  The account it goes to is the staker's choice   *)
(* and counted as the staker's.                                                *)
PayTo(s, amount, mint) ==
    \/ /\ mint = "collection"
       /\ amount <= poolTokens
       /\ poolTokens' = poolTokens - amount
       /\ wallet' = [wallet EXCEPT ![s] = @ + amount]
       /\ UNCHANGED foreign
    \/ /\ mint = "other"
       /\ foreign' = [foreign EXCEPT ![s] = @ + amount]
       /\ UNCHANGED <<wallet, poolTokens>>

----------------------------------------------------------------------------
Init ==
    /\ pool = [exists |-> FALSE, total_staked |-> 0, reward_per_token |-> 0]
    /\ position = [s \in Stakers |-> [amount_staked |-> 0, reward_debt |-> 0]]
    /\ poolTokens = 0
    /\ wallet = StakerTokens
    /\ foreign = ForeignTokens
    /\ market = MarketTokens
    /\ entitled = [s \in Stakers |-> 0]

(* stake_collection_tokens: creates the pool and the position on first use. *)
(* The pending rewards of an existing position are computed (and the        *)
(* transaction fails if they do not compute) but only logged.               *)
StakeCollectionTokens(s, amount, mint) ==
    /\ amount > 0
    /\ position[s].amount_staked > 0 => PendingComputes(s)
    /\ TakeFrom(s, amount, mint)
    /\ pool' = [exists           |-> TRUE,
                total_staked     |-> pool.total_staked + amount,
                reward_per_token |-> pool.reward_per_token]
    /\ Settle(s, position[s].amount_staked + amount)
    /\ UNCHANGED <<market, entitled>>

(* claim_staking_rewards *)
ClaimStakingRewards(s, mint) ==
    /\ position[s].amount_staked > 0
    /\ PendingComputes(s)
    /\ PendingTokens(s) > 0
    /\ PayTo(s, PendingTokens(s), mint)
    /\ Settle(s, position[s].amount_staked)
    /\ UNCHANGED <<pool, market, entitled>>

UnstakeTransfer_StakeOnly(s, amount) == amount

\* What unstaking `amount` pays out: the stake and the rewards pending on it.
UnstakeTransfer(s, amount) == amount + PendingTokens(s)

CanUnstake_AnyAmount(s, amount) == amount > 0

CanUnstake(s, amount) ==
    /\ amount > 0
    /\ position[s].amount_staked >= amount

PoolAfterUnstake_TotalKept(amount) == pool

PoolAfterUnstake(amount) == [pool EXCEPT !.total_staked = @ - amount]

(* unstake_collection_tokens *)
UnstakeCollectionTokens(s, amount, mint) ==
    /\ CanUnstake(s, amount)
    /\ PendingComputes(s)
    /\ amount <= pool.total_staked
    /\ PayTo(s, UnstakeTransfer(s, amount), mint)
    /\ pool' = PoolAfterUnstake(amount)
    /\ Settle(s, position[s].amount_staked - amount)
    /\ UNCHANGED <<market, entitled>>

RewardIncrement_RoundedUp(amount) ==
    (amount * Precision + pool.total_staked - 1) \div pool.total_staked

\* The growth of reward_per_token when the stakers receive `amount`.
RewardIncrement(amount) == (amount * Precision) \div pool.total_staked

(* The staking pool's side of purchase_access.  With nothing staked the     *)
(* tokens still reach the pool's account and no staker is credited.         *)
AccrueRewards(amount) ==
    /\ pool.exists
    /\ poolTokens' = poolTokens + amount
    /\ IF pool.total_staked > 0
       THEN /\ U128(amount * Precision)
            /\ U128(pool.reward_per_token + RewardIncrement(amount))
            /\ pool' = [pool EXCEPT !.reward_per_token =
                                        @ + RewardIncrement(amount)]
            /\ entitled' = [s \in Stakers |->
                 entitled[s] + position[s].amount_staked * RewardIncrement(amount)]
       ELSE UNCHANGED <<pool, entitled>>
    /\ UNCHANGED <<position, wallet, foreign>>

(* purchase_access by somebody outside the pool: the fee and the escrowed   *)
(* half change hands among `market`, the stakers' half enters the pool.     *)
PurchaseAccess(total, bp) ==
    /\ total > 0
    /\ total <= market
    /\ AccrueRewards(AmountToStakers(total, bp))
    /\ market' = market - AmountToStakers(total, bp)

Next ==
    \/ \E s \in Stakers, mint \in Mint :
          \/ \E amount \in Amounts : StakeCollectionTokens(s, amount, mint)
          \/ ClaimStakingRewards(s, mint)
          \/ \E amount \in Amounts : UnstakeCollectionTokens(s, amount, mint)
    \/ \E total \in Amounts, bp \in FeeRates : PurchaseAccess(total, bp)

Spec == Init /\ [][Next]_vars

----------------------------------------------------------------------------
(* Properties *)

\* Types of the accounts' fields.
TypeOK ==
    /\ pool \in [exists : BOOLEAN, total_staked : Nat, reward_per_token : Nat]
    /\ position \in [Stakers -> [amount_staked : Nat, reward_debt : Nat]]
    /\ poolTokens \in Nat
    /\ wallet \in [Stakers -> Nat]
    /\ foreign \in [Stakers -> Nat]
    /\ market \in Nat
    /\ entitled \in [Stakers -> Nat]

\* The total the rewards of a purchase are divided by is the sum of the stakes
\* they are multiplied with, whatever the order of stakes and withdrawals.
TotalStakedIsSum ==
    pool.total_staked = SumOver([s \in Stakers |-> position[s].amount_staked], Stakers)

\* No staker's debt exceeds the rewards accumulated on the stake, so the checked
\* subtraction of claim, unstake and top-up never fails and locks the stake in.
DebtCovered == \A s \in Stakers : Pending(s) >= 0

\* The pool's accounts of the collection's mint cover every stake and every reward
\* it owes, but for what the stakers have put in through other mints and not taken
\* out through them: no order of stakes, purchases, claims and withdrawals costs
\* the pool more than that, and without other mints it covers everything.
PoolSolvent ==
    poolTokens + SumOver(ForeignTokens, Stakers)
        >= pool.total_staked
             + SumOver([s \in Stakers |-> PendingTokens(s)], Stakers)
             + SumOver(foreign, Stakers)

\* What a staker has received beyond the tokens it brought, of all mints.
Earned(s) == (wallet[s] + foreign[s] + position[s].amount_staked)
                - (StakerTokens[s] + ForeignTokens[s])

\* A staker is paid and owed at most its share of the purchases made while it was
\* staked, in tokens of all mints together: none from before it staked, none twice.
NeverOverpaid ==
    \A s \in Stakers : Earned(s) * Precision + Pending(s) <= entitled[s]

\* A staker's collection tokens and what the pool's books owe it.
Worth(s) == wallet[s] + position[s].amount_staked + PendingTokens(s)

TopsUp(s) == 0 < position[s].amount_staked
             /\ position[s].amount_staked < position'[s].amount_staked

\* The staker has the pool pay it through another mint.
SettlesElsewhere(s) == foreign[s] < foreign'[s]

\* No instruction of anybody takes away what a staker holds or is owed, except its
\* own: a top-up of an existing stake, or a payment it takes in another mint.
OnlyTopUpForfeits ==
    [][\A s \in Stakers : Worth(s)' >= Worth(s) \/ TopsUp(s) \/ SettlesElsewhere(s)]_vars

\* Rewards accumulate and stay claimable until claimed (staking.rs, "Claim any
\* pending rewards before updating stake").  The code does not keep this.
EarningsNeverDecrease ==
    [][\A s \in Stakers : Worth(s)' >= Worth(s) \/ SettlesElsewhere(s)]_vars

=============================================================================
