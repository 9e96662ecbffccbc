------------------------- MODULE StakingPoolProofs -------------------------
(***************************************************************************)
(* Theorems about StakingPool for every set of stakers, every precision    *)
(* and every integer width.                                                *)
(***************************************************************************)
EXTENDS StakingPool, TokenArithmetic

----------------------------------------------------------------------------
(* Type correctness. *)

LEMMA RewardIncrementNat ==
    ASSUME StakingPoolAssumption, TypeOK, NEW amount \in Nat, pool.total_staked > 0
    PROVE  /\ RewardIncrement(amount) \in Nat
           /\ RewardIncrement(amount) * pool.total_staked <= amount * Precision
  <1>1. amount * Precision \in Nat
    BY MulMono DEF StakingPoolAssumption
  <1>2. pool.total_staked \in Nat \ {0}
    BY DEF TypeOK
  <1> QED BY <1>1, <1>2, DivNat DEF RewardIncrement

\* The pending rewards are an integer and truncate to a natural number of tokens.
LEMMA PendingType ==
    ASSUME StakingPoolAssumption, TypeOK, NEW s \in Stakers
    PROVE  /\ Accumulated(s) \in Nat
           /\ Pending(s) \in Int
           /\ Pending(s) >= 0 => /\ PendingTokens(s) \in Nat
                                 /\ PendingTokens(s) * Precision <= Pending(s)
  <1>1. /\ position[s].amount_staked \in Nat
        /\ position[s].reward_debt \in Nat
        /\ pool.reward_per_token \in Nat
    BY DEF TypeOK
  <1>2. Accumulated(s) \in Nat
    BY <1>1, MulMono DEF Accumulated
  <1>3. Pending(s) \in Int
    BY <1>1, <1>2 DEF Pending
  <1> QED
    BY <1>2, <1>3, DivNat DEF PendingTokens, StakingPoolAssumption

LEMMA SettleType ==
    ASSUME TypeOK, NEW s \in Stakers, NEW amount \in Nat, Settle(s, amount)
    PROVE  /\ position' \in [Stakers -> [amount_staked : Nat, reward_debt : Nat]]
           /\ position'[s].amount_staked = amount
           /\ position'[s].reward_debt = amount * pool.reward_per_token
           /\ \A t \in Stakers \ {s} : position'[t] = position[t]
  <1>1. amount * pool.reward_per_token \in Nat
    BY MulMono DEF TypeOK
  <1> QED BY <1>1 DEF Settle, DebtOf, TypeOK

\* What a stake moves: out of the staker's tokens of one mint, and, if that is the
\* collection's, into the pool.
LEMMA TakeFromMoves ==
    ASSUME TypeOK, NEW s \in Stakers, NEW amount \in Nat, NEW mint \in Mint,
           TakeFrom(s, amount, mint)
    PROVE  /\ wallet' \in [Stakers -> Nat] /\ foreign' \in [Stakers -> Nat]
           /\ poolTokens' \in Nat
           /\ \A t \in Stakers \ {s} : wallet'[t] = wallet[t] /\ foreign'[t] = foreign[t]
           /\ wallet'[s] + foreign'[s] = (wallet[s] + foreign[s]) - amount
           /\ wallet'[s] >= wallet[s] - amount
           /\ poolTokens' + foreign[s] = (poolTokens + foreign'[s]) + amount
  <1>1. CASE mint = "collection"
    BY <1>1 DEF TakeFrom, TypeOK
  <1>2. CASE mint = "other"
    BY <1>2 DEF TakeFrom, TypeOK
  <1> QED BY <1>1, <1>2 DEF Mint

\* What a payment moves, the other way.
LEMMA PayToMoves ==
    ASSUME TypeOK, NEW s \in Stakers, NEW amount \in Nat, NEW mint \in Mint,
           PayTo(s, amount, mint)
    PROVE  /\ wallet' \in [Stakers -> Nat] /\ foreign' \in [Stakers -> Nat]
           /\ poolTokens' \in Nat
           /\ \A t \in Stakers \ {s} : wallet'[t] = wallet[t] /\ foreign'[t] = foreign[t]
           /\ wallet'[s] + foreign'[s] = (wallet[s] + foreign[s]) + amount
           /\ wallet'[s] = wallet[s] + amount \/ foreign'[s] = foreign[s] + amount
           /\ poolTokens' + foreign[s] = (poolTokens + foreign'[s]) - amount
  <1>1. CASE mint = "collection"
    BY <1>1 DEF PayTo, TypeOK
  <1>2. CASE mint = "other"
    <2>1. /\ foreign' = [foreign EXCEPT ![s] = foreign[s] + amount]
          /\ wallet' = wallet /\ poolTokens' = poolTokens
      BY <1>2 DEF PayTo
    <2>2. foreign'[s] = foreign[s] + amount /\ foreign[s] \in Nat /\ wallet[s] \in Nat
      BY <2>1 DEF TypeOK
    <2>3. \A t \in Stakers \ {s} : wallet'[t] = wallet[t] /\ foreign'[t] = foreign[t]
      BY <2>1 DEF TypeOK
    <2>4. foreign' \in [Stakers -> Nat] /\ wallet' \in [Stakers -> Nat]
      BY <2>1, <2>2 DEF TypeOK
    <2>5. poolTokens \in Nat
      BY DEF TypeOK
    <2> QED BY <2>1, <2>2, <2>3, <2>4, <2>5
  <1> QED BY <1>1, <1>2 DEF Mint

LEMMA TypeInit == StakingPoolAssumption /\ Init => TypeOK
  BY DEF StakingPoolAssumption, Init, TypeOK

LEMMA TypeNext == StakingPoolAssumption /\ TypeOK /\ [Next]_vars => TypeOK'
  <1> SUFFICES ASSUME StakingPoolAssumption, TypeOK, [Next]_vars
               PROVE  TypeOK'
    OBVIOUS
  <1>1. ASSUME NEW s \in Stakers, NEW amount \in Amounts, NEW mint \in Mint,
               StakeCollectionTokens(s, amount, mint)
        PROVE  TypeOK'
    <2>1. amount \in Nat /\ position[s].amount_staked + amount \in Nat
      BY DEF StakingPoolAssumption, TypeOK
    <2>2. position' \in [Stakers -> [amount_staked : Nat, reward_debt : Nat]]
      BY <1>1, <2>1, SettleType DEF StakeCollectionTokens
    <2>3. /\ wallet' \in [Stakers -> Nat] /\ foreign' \in [Stakers -> Nat]
          /\ poolTokens' \in Nat
      BY <1>1, <2>1, TakeFromMoves DEF StakeCollectionTokens
    <2>4. pool' \in [exists : BOOLEAN, total_staked : Nat, reward_per_token : Nat]
      BY <1>1, <2>1 DEF StakeCollectionTokens, TypeOK
    <2>5. market' \in Nat /\ entitled' \in [Stakers -> Nat]
      BY <1>1 DEF StakeCollectionTokens, TypeOK
    <2> QED
      BY <2>2, <2>3, <2>4, <2>5 DEF TypeOK
  <1>2. ASSUME NEW s \in Stakers, NEW mint \in Mint,
               ClaimStakingRewards(s, mint)
        PROVE  TypeOK'
    <2>1. PendingTokens(s) \in Nat
      BY <1>2, PendingType DEF ClaimStakingRewards, PendingComputes
    <2>2. position' \in [Stakers -> [amount_staked : Nat, reward_debt : Nat]]
      BY <1>2, SettleType DEF ClaimStakingRewards, TypeOK
    <2>3. /\ wallet' \in [Stakers -> Nat] /\ foreign' \in [Stakers -> Nat]
          /\ poolTokens' \in Nat
      BY <1>2, <2>1, PayToMoves DEF ClaimStakingRewards
    <2>4. UNCHANGED <<pool, market, entitled>>
      BY <1>2 DEF ClaimStakingRewards
    <2> QED
      BY <2>2, <2>3, <2>4 DEF TypeOK
  <1>3. ASSUME NEW s \in Stakers, NEW amount \in Amounts, NEW mint \in Mint,
               UnstakeCollectionTokens(s, amount, mint)
        PROVE  TypeOK'
    <2>1. /\ amount \in Nat
          /\ position[s].amount_staked - amount \in Nat
          /\ pool.total_staked - amount \in Nat
      BY <1>3 DEF UnstakeCollectionTokens, CanUnstake, StakingPoolAssumption, TypeOK
    <2>2. PendingTokens(s) \in Nat
      BY <1>3, PendingType DEF UnstakeCollectionTokens, PendingComputes
    <2>3. position' \in [Stakers -> [amount_staked : Nat, reward_debt : Nat]]
      BY <1>3, <2>1, SettleType DEF UnstakeCollectionTokens
    <2>4. UnstakeTransfer(s, amount) \in Nat
      BY <2>1, <2>2 DEF UnstakeTransfer
    <2>5. /\ wallet' \in [Stakers -> Nat] /\ foreign' \in [Stakers -> Nat]
          /\ poolTokens' \in Nat
      BY <1>3, <2>4, PayToMoves DEF UnstakeCollectionTokens
    <2>6. pool' \in [exists : BOOLEAN, total_staked : Nat, reward_per_token : Nat]
      BY <1>3, <2>1 DEF UnstakeCollectionTokens, PoolAfterUnstake, TypeOK
    <2> QED
      BY <1>3, <2>3, <2>5, <2>6 DEF UnstakeCollectionTokens, TypeOK
  <1>4. ASSUME NEW total \in Amounts, NEW bp \in FeeRates, PurchaseAccess(total, bp)
        PROVE  TypeOK'
    <2> DEFINE amount == AmountToStakers(total, bp)
    <2>1. total \in Nat /\ bp \in FeeRate
      BY DEF StakingPoolAssumption
    <2>2. amount \in Nat /\ amount <= total
      BY <2>1, SplitExact
    <2> HIDE DEF amount
    <2>3. market' \in Nat /\ poolTokens' \in Nat
      BY <1>4, <2>1, <2>2 DEF PurchaseAccess, AccrueRewards, TypeOK, amount
    <2>4. CASE pool.total_staked > 0
      <3>1. RewardIncrement(amount) \in Nat
        BY <2>2, <2>4, RewardIncrementNat
      <3>2. \A s \in Stakers :
              position[s].amount_staked * RewardIncrement(amount) \in Nat
        BY <3>1, MulMono DEF TypeOK
      <3>3. entitled' \in [Stakers -> Nat]
        BY <1>4, <2>4, <3>2 DEF PurchaseAccess, AccrueRewards, TypeOK, amount
      <3>4. pool' \in [exists : BOOLEAN, total_staked : Nat, reward_per_token : Nat]
        BY <1>4, <2>4, <3>1 DEF PurchaseAccess, AccrueRewards, TypeOK, amount
      <3> QED
        BY <1>4, <2>3, <3>3, <3>4 DEF PurchaseAccess, AccrueRewards, TypeOK
    <2>5. CASE ~(pool.total_staked > 0)
      BY <1>4, <2>3, <2>5 DEF PurchaseAccess, AccrueRewards, TypeOK
    <2> QED BY <2>4, <2>5
  <1>5. CASE UNCHANGED vars
    BY <1>5 DEF vars, TypeOK
  <1> QED
    BY <1>1, <1>2, <1>3, <1>4, <1>5 DEF Next

\* Every field keeps its type, and no token balance ever goes below zero.
THEOREM TypeCorrect == Spec => []TypeOK
  <1>1. Init => TypeOK
    BY StakingPoolAssumption, TypeInit
  <1>2. TypeOK /\ [Next]_vars => TypeOK'
    BY StakingPoolAssumption, TypeNext
  <1> QED BY <1>1, <1>2, PTL DEF Spec

----------------------------------------------------------------------------
(* Rewards.  DebtCovered and NeverOverpaid are each inductive once types are *)
(* known; every step either settles one position (its pending rewards become *)
(* zero, and at most that much was paid) or raises reward_per_token (each    *)
(* staker's pending rewards grow by exactly what its entitlement grows).     *)

\* A settled position owes and is owed nothing; the other positions stand still.
LEMMA SettlePending ==
    ASSUME StakingPoolAssumption, TypeOK, NEW s \in Stakers, NEW amount \in Nat,
           Settle(s, amount), pool'.reward_per_token = pool.reward_per_token
    PROVE  /\ Pending(s)' = 0
           /\ \A t \in Stakers \ {s} : Pending(t)' = Pending(t)
  <1>1. amount * pool.reward_per_token \in Nat
    BY MulMono DEF TypeOK
  <1>2. Pending(s)' = 0
    BY <1>1, SettleType DEF Pending, Accumulated
  <1>3. ASSUME NEW t \in Stakers \ {s}
        PROVE  Pending(t)' = Pending(t)
    BY SettleType DEF Pending, Accumulated
  <1> QED BY <1>2, <1>3

\* A purchase raises every staker's pending rewards by the increment on its stake.
LEMMA AccruePending ==
    ASSUME StakingPoolAssumption, TypeOK, NEW amount \in Nat,
           AccrueRewards(amount), pool.total_staked > 0, NEW s \in Stakers
    PROVE  /\ position[s].amount_staked * RewardIncrement(amount) \in Nat
           /\ Pending(s)' = Pending(s)
                 + position[s].amount_staked * RewardIncrement(amount)
  <1> DEFINE a == position[s].amount_staked
             r == pool.reward_per_token
             i == RewardIncrement(amount)
  <1>1. a \in Nat /\ r \in Nat /\ position[s].reward_debt \in Nat
    BY DEF TypeOK
  <1>2. i \in Nat
    BY RewardIncrementNat
  <1>3. pool'.reward_per_token = r + i /\ position' = position
    BY DEF AccrueRewards, TypeOK
  <1> HIDE DEF a, r, i
  <1>4. a * i \in Nat /\ a * r \in Nat /\ a * (r + i) = a * r + a * i
    BY <1>1, <1>2, MulMono
  <1>5. Pending(s)' = a * (r + i) - position[s].reward_debt
    BY <1>3 DEF Pending, Accumulated, a
  <1>6. Pending(s) = a * r - position[s].reward_debt
    BY DEF Pending, Accumulated, a, r
  <1> QED BY <1>1, <1>4, <1>5, <1>6 DEF a, i

\* The purchase amount the pool receives is a natural number.
LEMMA PurchaseAmount ==
    ASSUME StakingPoolAssumption, NEW total \in Amounts, NEW bp \in FeeRates
    PROVE  AmountToStakers(total, bp) \in Nat
  BY SplitExact DEF StakingPoolAssumption

LEMMA DebtCoveredNext ==
    ASSUME StakingPoolAssumption, TypeOK, DebtCovered, [Next]_vars
    PROVE  DebtCovered'
  <1> SUFFICES ASSUME NEW t \in Stakers PROVE Pending(t)' >= 0
    BY DEF DebtCovered
  <1>0. Pending(t) \in Int /\ Pending(t) >= 0
    BY PendingType DEF DebtCovered
  <1>1. ASSUME NEW s \in Stakers, NEW amount \in Amounts, NEW mint \in Mint,
               StakeCollectionTokens(s, amount, mint)
        PROVE  Pending(t)' >= 0
    <2>1. position[s].amount_staked + amount \in Nat
      BY DEF StakingPoolAssumption, TypeOK
    <2>2. pool'.reward_per_token = pool.reward_per_token
      BY <1>1 DEF StakeCollectionTokens
    <2> QED BY <1>0, <1>1, <2>1, <2>2, SettlePending DEF StakeCollectionTokens
  <1>2. ASSUME NEW s \in Stakers, NEW mint \in Mint,
               ClaimStakingRewards(s, mint)
        PROVE  Pending(t)' >= 0
    <2>1. position[s].amount_staked \in Nat
      BY DEF TypeOK
    <2> QED BY <1>0, <1>2, <2>1, SettlePending DEF ClaimStakingRewards
  <1>3. ASSUME NEW s \in Stakers, NEW amount \in Amounts, NEW mint \in Mint,
               UnstakeCollectionTokens(s, amount, mint)
        PROVE  Pending(t)' >= 0
    <2>1. position[s].amount_staked - amount \in Nat
      BY <1>3 DEF UnstakeCollectionTokens, CanUnstake, StakingPoolAssumption, TypeOK
    <2>2. pool'.reward_per_token = pool.reward_per_token
      BY <1>3 DEF UnstakeCollectionTokens, PoolAfterUnstake, TypeOK
    <2> QED BY <1>0, <1>3, <2>1, <2>2, SettlePending DEF UnstakeCollectionTokens
  <1>4. ASSUME NEW total \in Amounts, NEW bp \in FeeRates, PurchaseAccess(total, bp)
        PROVE  Pending(t)' >= 0
    <2>1. CASE pool.total_staked > 0
      BY <1>0, <1>4, <2>1, PurchaseAmount, AccruePending DEF PurchaseAccess
    <2>2. CASE ~(pool.total_staked > 0)
      BY <1>0, <1>4, <2>2 DEF PurchaseAccess, AccrueRewards, Pending, Accumulated
    <2> QED BY <2>1, <2>2
  <1>5. CASE UNCHANGED vars
    BY <1>0, <1>5 DEF vars, Pending, Accumulated
  <1> QED
    BY <1>1, <1>2, <1>3, <1>4, <1>5 DEF Next

\* The checked subtraction that claim, unstake and top-up start with never fails:
\* no history of stakes, purchases and withdrawals locks a stake in through it.
THEOREM DebtAlwaysCovered == Spec => []DebtCovered
  <1>1. Init => DebtCovered
    BY StakingPoolAssumption DEF Init, DebtCovered, Pending, Accumulated
  <1>2. TypeOK /\ DebtCovered /\ [Next]_vars => DebtCovered'
    BY StakingPoolAssumption, DebtCoveredNext
  <1> QED BY <1>1, <1>2, TypeCorrect, PTL DEF Spec

----------------------------------------------------------------------------
LEMMA EarnedType ==
    ASSUME StakingPoolAssumption, TypeOK, NEW s \in Stakers
    PROVE  Earned(s) \in Int
  BY DEF StakingPoolAssumption, TypeOK, Earned

\* Paying `paid` tokens out of the pending rewards and settling the position keeps
\* what the staker earned and may still claim within its entitlement.
LEMMA PayoutWithinEntitlement ==
    ASSUME StakingPoolAssumption, NEW earned \in Int, NEW pending \in Int,
           NEW limit \in Nat, NEW paid \in Nat,
           earned * Precision + pending <= limit, paid * Precision <= pending
    PROVE  (earned + paid) * Precision + 0 <= limit
  <1>1. Precision \in Nat
    BY DEF StakingPoolAssumption
  <1>2. (earned + paid) * Precision = earned * Precision + paid * Precision
    BY <1>1
  <1> DEFINE x == earned * Precision
             y == paid * Precision
  <1>3. x \in Int /\ y \in Int
    BY <1>1
  <1>4. x + pending <= limit /\ y <= pending /\ (earned + paid) * Precision = x + y
    BY <1>2
  <1> HIDE DEF x, y
  <1> QED BY <1>3, <1>4

LEMMA NeverOverpaidNext ==
    ASSUME StakingPoolAssumption, TypeOK, DebtCovered, NeverOverpaid, [Next]_vars
    PROVE  NeverOverpaid'
  <1> SUFFICES ASSUME NEW t \in Stakers
               PROVE  Earned(t)' * Precision + Pending(t)' <= entitled'[t]
    BY DEF NeverOverpaid
  <1>0. /\ Pending(t) \in Int
        /\ Pending(t) >= 0
        /\ Earned(t) \in Int
        /\ entitled[t] \in Nat
        /\ Earned(t) * Precision + Pending(t) <= entitled[t]
    BY PendingType, EarnedType DEF DebtCovered, NeverOverpaid, TypeOK
  <1>1. ASSUME NEW s \in Stakers, NEW amount \in Amounts, NEW mint \in Mint,
               StakeCollectionTokens(s, amount, mint)
        PROVE  Earned(t)' * Precision + Pending(t)' <= entitled'[t]
    <2>1. amount \in Nat /\ position[s].amount_staked + amount \in Nat
      BY DEF StakingPoolAssumption, TypeOK
    <2>2. pool'.reward_per_token = pool.reward_per_token
      BY <1>1 DEF StakeCollectionTokens
    <2>3. Pending(s)' = 0 /\ (t # s => Pending(t)' = Pending(t))
      BY <1>1, <2>1, <2>2, SettlePending DEF StakeCollectionTokens
    <2>4. Earned(t)' = Earned(t)
      <3>1. position'[t].amount_staked =
              IF t = s THEN position[t].amount_staked + amount
                       ELSE position[t].amount_staked
        BY <1>1, <2>1, SettleType DEF StakeCollectionTokens
      <3>2. /\ wallet'[t] \in Nat /\ foreign'[t] \in Nat
            /\ wallet'[t] + foreign'[t] = IF t = s THEN (wallet[t] + foreign[t]) - amount
                                          ELSE wallet[t] + foreign[t]
        BY <1>1, <2>1, TakeFromMoves DEF StakeCollectionTokens
      <3> QED BY <2>1, <3>1, <3>2 DEF Earned, TypeOK, StakingPoolAssumption
    <2>5. entitled' = entitled
      BY <1>1 DEF StakeCollectionTokens
    <2>6. CASE t = s
      BY <1>0, <2>3, <2>4, <2>5, <2>6, PayoutWithinEntitlement
    <2>7. CASE t # s
      BY <1>0, <2>3, <2>4, <2>5, <2>7
    <2> QED BY <2>6, <2>7
  <1>2. ASSUME NEW s \in Stakers, NEW mint \in Mint,
               ClaimStakingRewards(s, mint)
        PROVE  Earned(t)' * Precision + Pending(t)' <= entitled'[t]
    <2>1. position[s].amount_staked \in Nat
      BY DEF TypeOK
    <2>2. PendingTokens(s) \in Nat /\ PendingTokens(s) * Precision <= Pending(s)
      BY PendingType DEF DebtCovered
    <2>3. Pending(s)' = 0 /\ (t # s => Pending(t)' = Pending(t))
      BY <1>2, <2>1, SettlePending DEF ClaimStakingRewards
    <2>4. Earned(t)' = IF t = s THEN Earned(t) + PendingTokens(s) ELSE Earned(t)
      <3>1. position'[t].amount_staked = position[t].amount_staked
        BY <1>2, <2>1, SettleType DEF ClaimStakingRewards
      <3>2. /\ wallet'[t] \in Nat /\ foreign'[t] \in Nat
            /\ wallet'[t] + foreign'[t] =
                  IF t = s THEN (wallet[t] + foreign[t]) + PendingTokens(s)
                           ELSE wallet[t] + foreign[t]
        BY <1>2, <2>2, PayToMoves DEF ClaimStakingRewards
      <3> QED BY <2>2, <3>1, <3>2 DEF Earned, TypeOK, StakingPoolAssumption
    <2>5. entitled' = entitled
      BY <1>2 DEF ClaimStakingRewards
    <2>6. CASE t = s
      BY <1>0, <2>2, <2>3, <2>4, <2>5, <2>6, PayoutWithinEntitlement
    <2>7. CASE t # s
      BY <1>0, <2>3, <2>4, <2>5, <2>7
    <2> QED BY <2>6, <2>7
  <1>3. ASSUME NEW s \in Stakers, NEW amount \in Amounts, NEW mint \in Mint,
               UnstakeCollectionTokens(s, amount, mint)
        PROVE  Earned(t)' * Precision + Pending(t)' <= entitled'[t]
    <2>1. amount \in Nat /\ position[s].amount_staked - amount \in Nat
      BY <1>3 DEF UnstakeCollectionTokens, CanUnstake, StakingPoolAssumption, TypeOK
    <2>2. PendingTokens(s) \in Nat /\ PendingTokens(s) * Precision <= Pending(s)
      BY PendingType DEF DebtCovered
    <2>3. pool'.reward_per_token = pool.reward_per_token
      BY <1>3 DEF UnstakeCollectionTokens, PoolAfterUnstake, TypeOK
    <2>4. Pending(s)' = 0 /\ (t # s => Pending(t)' = Pending(t))
      BY <1>3, <2>1, <2>3, SettlePending DEF UnstakeCollectionTokens
    <2>5. Earned(t)' = IF t = s THEN Earned(t) + PendingTokens(s) ELSE Earned(t)
      <3>1. position'[t].amount_staked =
              IF t = s THEN position[t].amount_staked - amount
                       ELSE position[t].amount_staked
        BY <1>3, <2>1, SettleType DEF UnstakeCollectionTokens
      <3>2. UnstakeTransfer(s, amount) = amount + PendingTokens(s)
            /\ UnstakeTransfer(s, amount) \in Nat
        BY <2>1, <2>2 DEF UnstakeTransfer
      <3>3. /\ wallet'[t] \in Nat /\ foreign'[t] \in Nat
            /\ wallet'[t] + foreign'[t] =
                  IF t = s THEN (wallet[t] + foreign[t]) + (amount + PendingTokens(s))
                           ELSE wallet[t] + foreign[t]
        BY <1>3, <3>2, PayToMoves DEF UnstakeCollectionTokens
      <3> QED BY <2>1, <2>2, <3>1, <3>3 DEF Earned, TypeOK, StakingPoolAssumption
    <2>6. entitled' = entitled
      BY <1>3 DEF UnstakeCollectionTokens
    <2>7. CASE t = s
      BY <1>0, <2>2, <2>4, <2>5, <2>6, <2>7, PayoutWithinEntitlement
    <2>8. CASE t # s
      BY <1>0, <2>4, <2>5, <2>6, <2>8
    <2> QED BY <2>7, <2>8
  <1>4. ASSUME NEW total \in Amounts, NEW bp \in FeeRates, PurchaseAccess(total, bp)
        PROVE  Earned(t)' * Precision + Pending(t)' <= entitled'[t]
    <2> DEFINE amount == AmountToStakers(total, bp)
               gain == position[t].amount_staked * RewardIncrement(amount)
    <2>1. amount \in Nat
      BY PurchaseAmount
    <2>2. AccrueRewards(amount)
      BY <1>4 DEF PurchaseAccess
    <2> HIDE DEF amount
    <2>3. Earned(t)' = Earned(t)
      BY <2>2 DEF AccrueRewards, Earned
    <2>4. CASE pool.total_staked > 0
      <3>1. gain \in Nat /\ Pending(t)' = Pending(t) + gain
        BY <2>1, <2>2, <2>4, AccruePending
      <3>2. entitled'[t] = entitled[t] + gain
        BY <2>2, <2>4 DEF AccrueRewards
      <3> HIDE DEF gain
      <3>3. Earned(t) * Precision \in Int
        BY <1>0 DEF StakingPoolAssumption
      <3> DEFINE e == Earned(t) * Precision
      <3>4. e \in Int /\ e + Pending(t) <= entitled[t]
        BY <1>0, <3>3
      <3>5. Earned(t)' * Precision = e
        BY <2>3
      <3> HIDE DEF e
      <3> QED BY <1>0, <3>1, <3>2, <3>4, <3>5
    <2>5. CASE ~(pool.total_staked > 0)
      BY <1>0, <2>2, <2>3, <2>5 DEF AccrueRewards, Pending, Accumulated
    <2> QED BY <2>4, <2>5
  <1>5. CASE UNCHANGED vars
    BY <1>0, <1>5 DEF vars, Pending, Accumulated, Earned
  <1> QED
    BY <1>1, <1>2, <1>3, <1>4, <1>5 DEF Next

\* A staker is never paid, nor ever owed, more than its share of the purchases made
\* while it was staked: rewards are not retroactive and no reward is paid twice.
THEOREM RewardsNeverOverpaid == Spec => []NeverOverpaid
  <1>1. Init => NeverOverpaid
    BY StakingPoolAssumption
       DEF Init, NeverOverpaid, Earned, Pending, Accumulated, StakingPoolAssumption
  <1>2. TypeOK /\ DebtCovered /\ NeverOverpaid /\ [Next]_vars => NeverOverpaid'
    BY StakingPoolAssumption, NeverOverpaidNext
  <1> QED BY <1>1, <1>2, TypeCorrect, DebtAlwaysCovered, PTL DEF Spec

----------------------------------------------------------------------------
LEMMA DivMono ==
    ASSUME NEW m \in Nat, NEW n \in Nat, m <= n, NEW d \in Nat \ {0}
    PROVE  m \div d <= n \div d
  OBVIOUS

\* A settled position owes no whole token; an untouched one owes what it owed.
LEMMA SettleTokens ==
    ASSUME StakingPoolAssumption, TypeOK, NEW s \in Stakers, NEW amount \in Nat,
           Settle(s, amount), pool'.reward_per_token = pool.reward_per_token
    PROVE  /\ PendingTokens(s)' = 0
           /\ \A t \in Stakers \ {s} : PendingTokens(t)' = PendingTokens(t)
  BY SettlePending DEF PendingTokens, StakingPoolAssumption

LEMMA OnlyTopUpForfeitsNext ==
    ASSUME StakingPoolAssumption, TypeOK, DebtCovered, Next, NEW t \in Stakers
    PROVE  Worth(t)' >= Worth(t) \/ TopsUp(t) \/ SettlesElsewhere(t)
  <1>0. /\ Pending(t) \in Nat
        /\ PendingTokens(t) \in Nat
        /\ wallet[t] \in Nat
        /\ foreign[t] \in Nat
        /\ position[t].amount_staked \in Nat
    BY PendingType DEF DebtCovered, TypeOK
  <1>1. ASSUME NEW s \in Stakers, NEW amount \in Amounts, NEW mint \in Mint,
               StakeCollectionTokens(s, amount, mint), ~TopsUp(t)
        PROVE  Worth(t)' >= Worth(t)
    <2>1. /\ amount \in Nat
          /\ amount > 0
          /\ position[s].amount_staked + amount \in Nat
      BY <1>1 DEF StakeCollectionTokens, StakingPoolAssumption, TypeOK
    <2>2. pool'.reward_per_token = pool.reward_per_token
      BY <1>1 DEF StakeCollectionTokens
    <2>3. /\ PendingTokens(s)' = 0
          /\ t # s => PendingTokens(t)' = PendingTokens(t)
      BY <1>1, <2>1, <2>2, SettleTokens DEF StakeCollectionTokens
    <2>4. /\ wallet'[t] \in Nat
          /\ IF t = s THEN wallet'[t] >= wallet[t] - amount ELSE wallet'[t] = wallet[t]
      BY <1>1, <2>1, TakeFromMoves DEF StakeCollectionTokens
    <2>5. position'[t].amount_staked = IF t = s
                                       THEN position[t].amount_staked + amount
                                       ELSE position[t].amount_staked
      BY <1>1, <2>1, SettleType DEF StakeCollectionTokens
    <2>6. CASE t = s
      <3>1. position[t].amount_staked = 0
        BY <1>0, <1>1, <2>1, <2>5, <2>6 DEF TopsUp
      <3>2. Accumulated(t) = 0
        BY <3>1 DEF Accumulated, TypeOK
      <3>3. Pending(t) = 0
        BY <1>0, <3>2 DEF Pending, TypeOK
      <3>4. PendingTokens(t) = 0
        BY <3>3 DEF PendingTokens, StakingPoolAssumption
      <3> QED
        BY <1>0, <2>1, <2>3, <2>4, <2>5, <2>6, <3>4 DEF Worth
    <2>7. CASE t # s
      BY <1>0, <2>3, <2>4, <2>5, <2>7 DEF Worth
    <2> QED BY <2>6, <2>7
  <1>2. ASSUME NEW s \in Stakers, NEW mint \in Mint,
               ClaimStakingRewards(s, mint), ~SettlesElsewhere(t)
        PROVE  Worth(t)' >= Worth(t)
    <2>1. position[s].amount_staked \in Nat
      BY DEF TypeOK
    <2>2. /\ PendingTokens(s)' = 0
          /\ t # s => PendingTokens(t)' = PendingTokens(t)
      BY <1>2, <2>1, SettleTokens DEF ClaimStakingRewards
    <2>0. PendingTokens(s) \in Nat /\ PendingTokens(s) > 0
      BY <1>2, PendingType DEF ClaimStakingRewards, DebtCovered
    <2>3. wallet'[t] = IF t = s THEN wallet[t] + PendingTokens(t) ELSE wallet[t]
      BY <1>0, <1>2, <2>0, PayToMoves DEF ClaimStakingRewards, SettlesElsewhere
    <2>4. position'[t].amount_staked = position[t].amount_staked
      BY <1>2, <2>1, SettleType DEF ClaimStakingRewards
    <2> QED BY <1>0, <2>2, <2>3, <2>4 DEF Worth
  <1>3. ASSUME NEW s \in Stakers, NEW amount \in Amounts, NEW mint \in Mint,
               UnstakeCollectionTokens(s, amount, mint), ~SettlesElsewhere(t)
        PROVE  Worth(t)' >= Worth(t)
    <2>1. amount \in Nat /\ position[s].amount_staked - amount \in Nat
      BY <1>3 DEF UnstakeCollectionTokens, CanUnstake, StakingPoolAssumption, TypeOK
    <2>2. pool'.reward_per_token = pool.reward_per_token
      BY <1>3 DEF UnstakeCollectionTokens, PoolAfterUnstake, TypeOK
    <2>3. /\ PendingTokens(s)' = 0
          /\ t # s => PendingTokens(t)' = PendingTokens(t)
      BY <1>3, <2>1, <2>2, SettleTokens DEF UnstakeCollectionTokens
    <2>a. PendingTokens(s) \in Nat /\ amount > 0
      BY <1>3, PendingType DEF UnstakeCollectionTokens, CanUnstake, DebtCovered
    <2>b. /\ UnstakeTransfer(s, amount) = amount + PendingTokens(s)
          /\ UnstakeTransfer(s, amount) \in Nat
      BY <2>1, <2>a DEF UnstakeTransfer
    <2>4. wallet'[t] = IF t = s THEN wallet[t] + (amount + PendingTokens(t))
                                ELSE wallet[t]
      BY <1>0, <1>3, <2>1, <2>a, <2>b, PayToMoves
         DEF UnstakeCollectionTokens, SettlesElsewhere
    <2>5. position'[t].amount_staked = IF t = s
                                       THEN position[t].amount_staked - amount
                                       ELSE position[t].amount_staked
      BY <1>3, <2>1, SettleType DEF UnstakeCollectionTokens
    <2> QED BY <1>0, <2>1, <2>3, <2>4, <2>5 DEF Worth
  <1>4. ASSUME NEW total \in Amounts, NEW bp \in FeeRates, PurchaseAccess(total, bp)
        PROVE  Worth(t)' >= Worth(t)
    <2>1. /\ Pending(t)' \in Nat
          /\ Pending(t)' >= Pending(t)
      <3>1. CASE pool.total_staked > 0
        BY <1>0, <1>4, <3>1, PurchaseAmount, AccruePending DEF PurchaseAccess
      <3>2. CASE ~(pool.total_staked > 0)
        BY <1>0, <1>4, <3>2 DEF PurchaseAccess, AccrueRewards, Pending, Accumulated
      <3> QED BY <3>1, <3>2
    <2>2. /\ PendingTokens(t)' \in Nat
          /\ PendingTokens(t)' >= PendingTokens(t)
      BY <1>0, <2>1, DivMono, DivNat DEF PendingTokens, StakingPoolAssumption
    <2>3. wallet' = wallet /\ position' = position
      BY <1>4 DEF PurchaseAccess, AccrueRewards
    <2> QED BY <1>0, <2>2, <2>3 DEF Worth
  <1> QED
    BY <1>1, <1>2, <1>3, <1>4 DEF Next

\* Nobody else's step takes away what a staker holds or is owed in the collection's
\* tokens, and of its own steps only a top-up or a payment taken in another mint.
THEOREM TopUpIsTheOnlyForfeit == Spec => OnlyTopUpForfeits
  <1>1. TypeOK /\ DebtCovered /\ [Next]_vars
          => [\A s \in Stakers : Worth(s)' >= Worth(s) \/ TopsUp(s)
                                  \/ SettlesElsewhere(s)]_vars
    BY StakingPoolAssumption, OnlyTopUpForfeitsNext
  <1> QED
    BY <1>1, TypeCorrect, DebtAlwaysCovered, PTL DEF Spec, OnlyTopUpForfeits

----------------------------------------------------------------------------
(* Sums over the positions. *)

Stakes == [s \in Stakers |-> position[s].amount_staked]

Owed == [s \in Stakers |-> Pending(s)]

LEMMA StakesType ==
    ASSUME StakingPoolAssumption, TypeOK
    PROVE  /\ IsFiniteSet(Stakers)
           /\ Stakes \in [Stakers -> Nat]
           /\ SumOver(Stakes, Stakers) \in Nat
  <1>1. IsFiniteSet(Stakers)
    BY DEF StakingPoolAssumption
  <1>2. Stakes \in [Stakers -> Nat]
    BY DEF Stakes, TypeOK
  <1> QED BY <1>1, <1>2, SumType

\* Settling a position on a new amount moves the sum of the stakes by the difference.
LEMMA SettleStakes ==
    ASSUME StakingPoolAssumption, TypeOK, NEW s \in Stakers, NEW amount \in Nat,
           Settle(s, amount)
    PROVE  SumOver(Stakes', Stakers)
             = SumOver(Stakes, Stakers) - position[s].amount_staked + amount
  <1>1. \A t \in Stakers : Stakes[t] \in Nat
    BY StakesType
  <1>2. \A t \in Stakers : Stakes'[t] \in Nat
    BY SettleType DEF Stakes
  <1>3. \A t \in Stakers \ {s} : Stakes'[t] = Stakes[t]
    BY SettleType DEF Stakes
  <1>4. Stakes[s] = position[s].amount_staked /\ Stakes'[s] = amount
    BY SettleType DEF Stakes
  <1> HIDE DEF Stakes
  <1>5. SumOver(Stakes', Stakers) = SumOver(Stakes, Stakers) - Stakes[s] + Stakes'[s]
    BY <1>1, <1>2, <1>3, StakesType, SumUpdate
  <1> QED BY <1>4, <1>5

LEMMA TotalStakedNext ==
    ASSUME StakingPoolAssumption, TypeOK, TotalStakedIsSum, [Next]_vars
    PROVE  TotalStakedIsSum'
  <1>0. pool.total_staked = SumOver(Stakes, Stakers)
    BY DEF TotalStakedIsSum, Stakes
  <1>a. pool.total_staked \in Nat /\ \A s \in Stakers : position[s].amount_staked \in Nat
    BY DEF TypeOK
  <1> SUFFICES pool'.total_staked = SumOver(Stakes', Stakers)
    BY DEF TotalStakedIsSum, Stakes
  <1>1. ASSUME NEW s \in Stakers, NEW amount \in Amounts, NEW mint \in Mint,
               StakeCollectionTokens(s, amount, mint)
        PROVE  pool'.total_staked = SumOver(Stakes', Stakers)
    <2>1. amount \in Nat /\ position[s].amount_staked + amount \in Nat
      BY DEF StakingPoolAssumption, TypeOK
    <2>2. pool'.total_staked = pool.total_staked + amount
      BY <1>1 DEF StakeCollectionTokens
    <2>3. SumOver(Stakes', Stakers) = SumOver(Stakes, Stakers)
            - position[s].amount_staked + (position[s].amount_staked + amount)
      BY <1>1, <2>1, SettleStakes DEF StakeCollectionTokens
    <2> QED BY <1>0, <1>a, <2>1, <2>2, <2>3
  <1>2. ASSUME NEW s \in Stakers, NEW mint \in Mint,
               ClaimStakingRewards(s, mint)
        PROVE  pool'.total_staked = SumOver(Stakes', Stakers)
    <2>1. SumOver(Stakes', Stakers) = SumOver(Stakes, Stakers)
            - position[s].amount_staked + position[s].amount_staked
      BY <1>2, <1>a, SettleStakes DEF ClaimStakingRewards
    <2>2. pool' = pool
      BY <1>2 DEF ClaimStakingRewards
    <2> QED BY <1>0, <1>a, <2>1, <2>2
  <1>3. ASSUME NEW s \in Stakers, NEW amount \in Amounts, NEW mint \in Mint,
               UnstakeCollectionTokens(s, amount, mint)
        PROVE  pool'.total_staked = SumOver(Stakes', Stakers)
    <2>1. amount \in Nat /\ position[s].amount_staked - amount \in Nat
      BY <1>3 DEF UnstakeCollectionTokens, CanUnstake, StakingPoolAssumption, TypeOK
    <2>2. pool'.total_staked = pool.total_staked - amount
      BY <1>3 DEF UnstakeCollectionTokens, PoolAfterUnstake, TypeOK
    <2>3. SumOver(Stakes', Stakers) = SumOver(Stakes, Stakers)
            - position[s].amount_staked + (position[s].amount_staked - amount)
      BY <1>3, <2>1, SettleStakes DEF UnstakeCollectionTokens
    <2> QED BY <1>0, <1>a, <2>1, <2>2, <2>3
  <1>4. ASSUME NEW total \in Amounts, NEW bp \in FeeRates, PurchaseAccess(total, bp)
        PROVE  pool'.total_staked = SumOver(Stakes', Stakers)
    <2>1. pool'.total_staked = pool.total_staked /\ position' = position
      BY <1>4 DEF PurchaseAccess, AccrueRewards, TypeOK
    <2> QED BY <1>0, <2>1 DEF Stakes
  <1>5. CASE UNCHANGED vars
    BY <1>0, <1>5 DEF vars, Stakes
  <1> QED
    BY <1>1, <1>2, <1>3, <1>4, <1>5 DEF Next

\* The total that every purchase's rewards are divided by is always the sum of the
\* stakes the rewards are multiplied with, for any number of stakers.
THEOREM TotalStakedAlwaysSum == Spec => []TotalStakedIsSum
  <1>1. Init => TotalStakedIsSum
    <2> SUFFICES ASSUME Init PROVE TotalStakedIsSum
      OBVIOUS
    <2>1. \A s \in Stakers : Stakes[s] = 0
      BY DEF Init, Stakes
    <2>2. SumOver(Stakes, Stakers) = 0
      BY <2>1, SumZero, StakingPoolAssumption DEF StakingPoolAssumption
    <2> QED BY <2>2 DEF Init, TotalStakedIsSum, Stakes
  <1>2. TypeOK /\ TotalStakedIsSum /\ [Next]_vars => TotalStakedIsSum'
    BY StakingPoolAssumption, TotalStakedNext
  <1> QED BY <1>1, <1>2, TypeCorrect, PTL DEF Spec

----------------------------------------------------------------------------
(* Solvency.  PoolSolvent counts whole tokens and is not inductive: a       *)
(* purchase may raise several stakers' rewards over a whole token at once.  *)
(* Scaled by Precision it is: the increments of a purchase add up to at     *)
(* most what the pool received.                                             *)

inForeign == SumOver(foreign, Stakers)

\* What the pool holds, or has taken in through other mints, beyond the stakes.
Backing == ((poolTokens + SumOver(ForeignTokens, Stakers)) - pool.total_staked) - inForeign

ScaledSolvent == Backing * Precision >= SumOver(Owed, Stakers)

LEMMA BackingType ==
    ASSUME StakingPoolAssumption, TypeOK
    PROVE  /\ inForeign \in Nat
           /\ SumOver(ForeignTokens, Stakers) \in Nat
           /\ Backing \in Int
  <1>1. inForeign \in Nat /\ SumOver(ForeignTokens, Stakers) \in Nat
    BY SumType DEF inForeign, TypeOK, StakingPoolAssumption
  <1> QED BY <1>1 DEF Backing, TypeOK

\* A transfer that moves n tokens into the pool, of either mint, while the stakes
\* grow by m, leaves n - m more behind what is owed.
LEMMA TransferBacks ==
    ASSUME StakingPoolAssumption, TypeOK, NEW s \in Stakers, NEW n \in Int, NEW m \in Int,
           foreign' \in [Stakers -> Nat], poolTokens' \in Nat,
           \A t \in Stakers \ {s} : foreign'[t] = foreign[t],
           poolTokens' + foreign[s] = (poolTokens + foreign'[s]) + n,
           pool'.total_staked = pool.total_staked + m
    PROVE  Backing' = Backing + (n - m)
  <1>1. IsFiniteSet(Stakers)
    BY DEF StakingPoolAssumption
  <1>2. /\ \A t \in Stakers : foreign[t] \in Nat /\ foreign'[t] \in Nat
        /\ poolTokens \in Nat /\ pool.total_staked \in Nat
    BY DEF TypeOK
  <1>3. inForeign' = inForeign - foreign[s] + foreign'[s]
    BY <1>1, <1>2, SumUpdate DEF inForeign
  <1>4. inForeign \in Nat /\ SumOver(ForeignTokens, Stakers) \in Nat
    BY BackingType
  <1> DEFINE start == SumOver(ForeignTokens, Stakers)
  <1>5. /\ Backing = ((poolTokens + start) - pool.total_staked) - inForeign
        /\ Backing' = ((poolTokens' + start) - pool'.total_staked) - inForeign'
    BY DEF Backing
  <1> HIDE DEF start
  <1> QED BY <1>2, <1>3, <1>4, <1>5 DEF start

LEMMA OwedType ==
    ASSUME StakingPoolAssumption, TypeOK, DebtCovered
    PROVE  /\ \A s \in Stakers : Owed[s] \in Nat
           /\ SumOver(Owed, Stakers) \in Nat
  <1>1. \A s \in Stakers : Owed[s] \in Nat
    BY PendingType DEF Owed, DebtCovered
  <1> QED BY <1>1, StakesType, SumType

\* Settling a position takes what it was owed out of the sum.
LEMMA SettleOwed ==
    ASSUME StakingPoolAssumption, TypeOK, DebtCovered, NEW s \in Stakers,
           NEW amount \in Nat, Settle(s, amount),
           pool'.reward_per_token = pool.reward_per_token
    PROVE  SumOver(Owed', Stakers) = SumOver(Owed, Stakers) - Pending(s)
  <1>1. /\ \A t \in Stakers : Owed[t] \in Nat
        /\ SumOver(Owed, Stakers) \in Nat
    BY OwedType
  <1>2. /\ Owed'[s] = 0
        /\ \A t \in Stakers \ {s} : Owed'[t] = Owed[t]
    BY SettlePending DEF Owed
  <1>3. Owed[s] = Pending(s)
    BY DEF Owed
  <1> HIDE DEF Owed
  <1>4. \A t \in Stakers : Owed'[t] \in Nat
    BY <1>1, <1>2
  <1>5. SumOver(Owed', Stakers) = SumOver(Owed, Stakers) - Owed[s] + Owed'[s]
    BY <1>1, <1>2, <1>4, StakesType, SumUpdate
  <1>6. Owed[s] \in Nat
    BY <1>1
  <1> QED BY <1>1, <1>2, <1>3, <1>5, <1>6

\* A purchase raises the sum of what is owed by the increment on every stake.
LEMMA AccrueOwed ==
    ASSUME StakingPoolAssumption, TypeOK, DebtCovered, TotalStakedIsSum,
           NEW amount \in Nat, AccrueRewards(amount), pool.total_staked > 0
    PROVE  SumOver(Owed', Stakers) = SumOver(Owed, Stakers)
                                       + pool.total_staked * RewardIncrement(amount)
  <1> DEFINE i == RewardIncrement(amount)
  <1>1. i \in Nat
    BY RewardIncrementNat
  <1>2. \A s \in Stakers : Owed[s] \in Nat
    BY OwedType
  <1>3. \A s \in Stakers : Stakes[s] \in Nat
    BY StakesType
  <1>4. \A s \in Stakers : Owed'[s] = Owed[s] + Stakes[s] * i
    BY AccruePending DEF Owed, Stakes
  <1>5. pool.total_staked = SumOver(Stakes, Stakers)
    BY DEF TotalStakedIsSum, Stakes
  <1> HIDE DEF i, Owed, Stakes
  <1>6. SumOver(Owed', Stakers) = SumOver(Owed, Stakers) + SumOver(Stakes, Stakers) * i
    BY <1>1, <1>2, <1>3, <1>4, StakesType, SumLinear
  <1> QED BY <1>5, <1>6 DEF i

LEMMA ScaledSolventNext ==
    ASSUME StakingPoolAssumption, TypeOK, DebtCovered, TotalStakedIsSum,
           ScaledSolvent, [Next]_vars
    PROVE  ScaledSolvent'
  <1> DEFINE owed == SumOver(Owed, Stakers)
             staked == pool.total_staked
  <1>0. /\ owed \in Nat /\ staked \in Nat /\ Backing \in Int
        /\ Precision \in Nat
        /\ Backing * Precision >= owed
    BY OwedType, BackingType DEF ScaledSolvent, TypeOK, StakingPoolAssumption
  <1>a. ASSUME NEW s \in Stakers
        PROVE  /\ Pending(s) \in Nat
               /\ PendingTokens(s) \in Nat
               /\ PendingTokens(s) * Precision <= Pending(s)
               /\ position[s].amount_staked \in Nat
    BY PendingType DEF DebtCovered, TypeOK
  <1>b. ASSUME NEW s \in Stakers, Backing' = Backing - PendingTokens(s),
               SumOver(Owed', Stakers) = owed - Pending(s)
        PROVE  ScaledSolvent'
    <2>1. (Backing - PendingTokens(s)) * Precision
             = Backing * Precision - PendingTokens(s) * Precision
      BY <1>0, <1>a
    <2> HIDE DEF owed
    <2>2. (Backing - PendingTokens(s)) * Precision >= owed - Pending(s)
      BY <1>0, <1>a, <2>1
    <2> QED BY <1>b, <2>2 DEF ScaledSolvent
  <1>1. ASSUME NEW s \in Stakers, NEW amount \in Amounts, NEW mint \in Mint,
               StakeCollectionTokens(s, amount, mint)
        PROVE  ScaledSolvent'
    <2>1. amount \in Nat /\ position[s].amount_staked + amount \in Nat
      BY DEF StakingPoolAssumption, TypeOK
    <2>2. /\ pool'.reward_per_token = pool.reward_per_token
          /\ pool'.total_staked = staked + amount
      BY <1>1 DEF StakeCollectionTokens
    <2>3. SumOver(Owed', Stakers) = owed - Pending(s)
      BY <1>1, <2>1, <2>2, SettleOwed DEF StakeCollectionTokens
    <2>4. Backing' = Backing + (amount - amount)
      BY <1>1, <2>1, <2>2, TakeFromMoves, TransferBacks DEF StakeCollectionTokens
    <2> HIDE DEF owed
    <2> QED BY <1>0, <1>a, <2>1, <2>3, <2>4 DEF ScaledSolvent
  <1>2. ASSUME NEW s \in Stakers, NEW mint \in Mint,
               ClaimStakingRewards(s, mint)
        PROVE  ScaledSolvent'
    <2>1. pool' = pool
      BY <1>2 DEF ClaimStakingRewards
    <2>2. SumOver(Owed', Stakers) = owed - Pending(s)
      BY <1>2, <1>a, <2>1, SettleOwed DEF ClaimStakingRewards
    <2>3. Backing' = Backing + ((0 - PendingTokens(s)) - 0)
      <3>1. /\ foreign' \in [Stakers -> Nat] /\ poolTokens' \in Nat
            /\ \A t \in Stakers \ {s} : foreign'[t] = foreign[t]
            /\ poolTokens' + foreign[s] = (poolTokens + foreign'[s]) - PendingTokens(s)
        BY <1>2, <1>a, PayToMoves DEF ClaimStakingRewards
      <3>2. poolTokens' + foreign[s] = (poolTokens + foreign'[s]) + (0 - PendingTokens(s))
        BY <1>a, <3>1 DEF TypeOK
      <3>3. pool'.total_staked = pool.total_staked + 0
        BY <1>0, <2>1
      <3>4. 0 - PendingTokens(s) \in Int
        BY <1>a
      <3> QED BY <3>1, <3>2, <3>3, <3>4, TransferBacks
    <2> QED BY <1>0, <1>a, <1>b, <2>2, <2>3
  <1>3. ASSUME NEW s \in Stakers, NEW amount \in Amounts, NEW mint \in Mint,
               UnstakeCollectionTokens(s, amount, mint)
        PROVE  ScaledSolvent'
    <2>1. amount \in Nat /\ position[s].amount_staked - amount \in Nat
      BY <1>3 DEF UnstakeCollectionTokens, CanUnstake, StakingPoolAssumption, TypeOK
    <2>2. /\ pool'.reward_per_token = pool.reward_per_token
          /\ pool'.total_staked = staked - amount
      BY <1>3 DEF UnstakeCollectionTokens, PoolAfterUnstake, TypeOK
    <2>3. SumOver(Owed', Stakers) = owed - Pending(s)
      BY <1>3, <2>1, <2>2, SettleOwed DEF UnstakeCollectionTokens
    <2>4. Backing' = Backing + ((0 - (amount + PendingTokens(s))) - (0 - amount))
      <3>0. UnstakeTransfer(s, amount) = amount + PendingTokens(s)
            /\ UnstakeTransfer(s, amount) \in Nat
        BY <1>a, <2>1 DEF UnstakeTransfer
      <3>1. /\ foreign' \in [Stakers -> Nat] /\ poolTokens' \in Nat
            /\ \A t \in Stakers \ {s} : foreign'[t] = foreign[t]
            /\ poolTokens' + foreign[s] = (poolTokens + foreign'[s])
                                              - (amount + PendingTokens(s))
        BY <1>3, <3>0, PayToMoves DEF UnstakeCollectionTokens
      <3>2. poolTokens' + foreign[s] = (poolTokens + foreign'[s])
                                           + (0 - (amount + PendingTokens(s)))
        BY <1>a, <2>1, <3>1 DEF TypeOK
      <3>3. pool'.total_staked = pool.total_staked + (0 - amount)
        BY <1>0, <2>1, <2>2
      <3>4. 0 - (amount + PendingTokens(s)) \in Int /\ 0 - amount \in Int
        BY <1>a, <2>1
      <3> QED BY <3>1, <3>2, <3>3, <3>4, TransferBacks
    <2>5. Backing' = Backing - PendingTokens(s)
      BY <1>0, <1>a, <2>1, <2>4
    <2> QED BY <1>b, <2>3, <2>5
  <1>4. ASSUME NEW total \in Amounts, NEW bp \in FeeRates, PurchaseAccess(total, bp)
        PROVE  ScaledSolvent'
    <2> DEFINE amount == AmountToStakers(total, bp)
    <2>1. amount \in Nat
      BY PurchaseAmount
    <2>2. AccrueRewards(amount)
      BY <1>4 DEF PurchaseAccess
    <2> HIDE DEF amount
    <2>3. Backing' = Backing + amount
      <3>1. /\ poolTokens' = poolTokens + amount /\ pool'.total_staked = staked
            /\ foreign' = foreign
        BY <2>2 DEF AccrueRewards, TypeOK
      <3>2. inForeign' = inForeign
        BY <3>1 DEF inForeign
      <3>3. poolTokens \in Nat
        BY DEF TypeOK
      <3>4. inForeign \in Nat /\ SumOver(ForeignTokens, Stakers) \in Nat
        BY BackingType
      <3> DEFINE start == SumOver(ForeignTokens, Stakers)
      <3>5. /\ Backing = ((poolTokens + start) - staked) - inForeign
            /\ Backing' = ((poolTokens' + start) - pool'.total_staked) - inForeign'
        BY DEF Backing
      <3> HIDE DEF start, staked
      <3> QED BY <1>0, <2>1, <3>1, <3>2, <3>3, <3>4, <3>5 DEF start
    <2>4. amount * Precision \in Nat
          /\ (Backing + amount) * Precision = Backing * Precision + amount * Precision
      BY <1>0, <2>1, MulMono
    <2>5. SumOver(Owed', Stakers) <= owed + amount * Precision
      <3>1. CASE pool.total_staked > 0
        <4>1. SumOver(Owed', Stakers) = owed + staked * RewardIncrement(amount)
          BY <2>1, <2>2, <3>1, AccrueOwed
        <4>2. RewardIncrement(amount) \in Nat
              /\ RewardIncrement(amount) * staked <= amount * Precision
          BY <2>1, <3>1, RewardIncrementNat
        <4> HIDE DEF owed, staked
        <4> DEFINE i == RewardIncrement(amount)
        <4>3. staked * i = i * staked /\ i * staked \in Nat
          BY <1>0, <4>2, MulMono
        <4> HIDE DEF i
        <4> QED BY <1>0, <2>4, <4>1, <4>2, <4>3 DEF i
      <3>2. CASE ~(pool.total_staked > 0)
        <4>1. Owed' = Owed
          BY <2>2, <3>2 DEF AccrueRewards, Owed, Pending, Accumulated
        <4>2. SumOver(Owed', Stakers) = owed
          BY <4>1
        <4> HIDE DEF owed
        <4> QED BY <1>0, <2>4, <4>2
      <3> QED BY <3>1, <3>2
    <2>6. SumOver(Owed', Stakers) \in Nat
      <3>1. TypeOK' /\ DebtCovered'
        BY TypeNext, DebtCoveredNext
      <3>2. \A s \in Stakers : Owed'[s] \in Nat
        <4>1. ASSUME NEW s \in Stakers PROVE Pending(s)' \in Nat
          <5>1. /\ position'[s].amount_staked \in Nat
                /\ position'[s].reward_debt \in Nat
                /\ pool'.reward_per_token \in Nat
            BY <3>1 DEF TypeOK
          <5>2. Pending(s)' \in Int
            BY <5>1, MulMono DEF Pending, Accumulated
          <5> QED BY <3>1, <5>2 DEF DebtCovered
        <4> QED BY <4>1 DEF Owed
      <3> HIDE DEF Owed
      <3> QED BY <3>2, StakesType, SumType
    <2> HIDE DEF owed
    <2>7. (Backing + amount) * Precision >= SumOver(Owed', Stakers)
      BY <1>0, <2>4, <2>5, <2>6
    <2> QED BY <2>3, <2>7 DEF ScaledSolvent
  <1>5. CASE UNCHANGED vars
    BY <1>0, <1>5 DEF vars, ScaledSolvent, Backing, inForeign, Owed, Pending, Accumulated
  <1> QED
    BY <1>1, <1>2, <1>3, <1>4, <1>5 DEF Next

LEMMA ScaledCompare ==
    ASSUME NEW a \in Int, NEW b \in Nat, NEW d \in Nat \ {0}, a * d >= b * d
    PROVE  a >= b
  <1> SUFFICES ASSUME a < b PROVE FALSE
    OBVIOUS
  <1>1. CASE a < 0
    <2>1. 0 - a \in Nat \ {0}
      BY <1>1
    <2>2. (0 - a) * d >= d
      BY <2>1, MulMono
    <2>3. (0 - a) * d = 0 - a * d /\ b * d \in Nat
      BY MulMono
    <2> QED BY <2>2, <2>3
  <1>2. CASE a \in Nat
    <2>1. a + 1 <= b
      BY <1>2
    <2>2. d * (a + 1) <= d * b
      BY <1>2, <2>1, MulMono
    <2>3. d * (a + 1) = a * d + d /\ d * b = b * d
      BY <1>2
    <2> QED BY <2>2, <2>3
  <1> QED BY <1>1, <1>2

LEMMA ScaledIsSolvent ==
    ASSUME StakingPoolAssumption, TypeOK, DebtCovered, ScaledSolvent
    PROVE  PoolSolvent
  <1> DEFINE tokens == [s \in Stakers |-> PendingTokens(s)]
             scaled == [s \in Stakers |-> PendingTokens(s) * Precision]
             nothing == [s \in Stakers |-> 0]
             payable == SumOver(tokens, Stakers)
             owed == SumOver(Owed, Stakers)
  <1>1. ASSUME NEW s \in Stakers
        PROVE  /\ tokens[s] \in Nat
               /\ scaled[s] \in Nat
               /\ scaled[s] <= Owed[s]
               /\ nothing[s] = 0
               /\ scaled[s] = nothing[s] + tokens[s] * Precision
    <2>1. PendingTokens(s) \in Nat /\ PendingTokens(s) * Precision <= Pending(s)
      BY PendingType DEF DebtCovered
    <2>2. PendingTokens(s) * Precision \in Nat
      BY <2>1, MulMono DEF StakingPoolAssumption
    <2> QED BY <2>1, <2>2 DEF Owed
  <1>2. Precision \in Nat \ {0} /\ IsFiniteSet(Stakers)
    BY DEF StakingPoolAssumption
  <1>3. /\ \A s \in Stakers : Owed[s] \in Nat
        /\ owed \in Nat
    BY OwedType
  <1>4. Backing \in Int
    BY BackingType
  <1>5. Backing * Precision >= owed
    BY DEF ScaledSolvent
  <1> HIDE DEF tokens, scaled, nothing, Owed
  <1>6. payable \in Nat
    BY <1>1, <1>2, SumType
  <1>7. SumOver(scaled, Stakers) = SumOver(nothing, Stakers) + payable * Precision
    BY <1>1, <1>2, SumLinear
  <1>8. SumOver(nothing, Stakers) = 0
    BY <1>1, <1>2, SumZero
  <1>9. SumOver(scaled, Stakers) <= owed
    BY <1>1, <1>2, <1>3, SumMono
  <1> HIDE DEF payable, owed
  <1>10. Backing * Precision >= payable * Precision
    <2>1. payable * Precision \in Nat
      BY <1>2, <1>6, MulMono
    <2> QED BY <1>2, <1>3, <1>4, <1>5, <1>6, <1>7, <1>8, <1>9, <2>1
  <1>11. Backing >= payable
    BY <1>2, <1>4, <1>6, <1>10, ScaledCompare
  <1> DEFINE start == SumOver(ForeignTokens, Stakers)
  <1>12. /\ Backing = ((poolTokens + start) - pool.total_staked) - inForeign
         /\ poolTokens \in Nat /\ pool.total_staked \in Nat
         /\ inForeign \in Nat /\ start \in Nat
    BY BackingType DEF Backing, TypeOK
  <1> HIDE DEF start
  <1>13. poolTokens + start >= pool.total_staked + payable + inForeign
    BY <1>6, <1>11, <1>12
  <1> QED BY <1>13 DEF PoolSolvent, payable, tokens, start, inForeign

\* The pool's collection tokens always cover every stake and every payable reward,
\* less what came in through other mints and has not gone out through them, in
\* whatever order stakes, purchases, claims and withdrawals come.
THEOREM PoolAlwaysSolvent == Spec => []PoolSolvent
  <1>1. Init => ScaledSolvent
    <2> SUFFICES ASSUME Init PROVE ScaledSolvent
      OBVIOUS
    <2>1. \A s \in Stakers : Owed[s] = 0
      BY DEF Init, Owed, Pending, Accumulated
    <2>2. SumOver(Owed, Stakers) = 0
      BY <2>1, SumZero, StakingPoolAssumption DEF StakingPoolAssumption
    <2>3. Backing = 0
      <3>1. TypeOK
        BY StakingPoolAssumption, TypeInit
      <3>2. inForeign = SumOver(ForeignTokens, Stakers) /\ inForeign \in Nat
        BY <3>1, StakingPoolAssumption, BackingType DEF Init, inForeign
      <3>3. Backing = ((0 + inForeign) - 0) - inForeign
        BY <3>2 DEF Backing, Init
      <3> QED BY <3>2, <3>3
    <2> QED BY <2>2, <2>3, StakingPoolAssumption DEF ScaledSolvent, StakingPoolAssumption
  <1>2. TypeOK /\ DebtCovered /\ TotalStakedIsSum /\ ScaledSolvent /\ [Next]_vars
          => ScaledSolvent'
    BY StakingPoolAssumption, ScaledSolventNext
  <1>3. TypeOK /\ DebtCovered /\ ScaledSolvent => PoolSolvent
    BY StakingPoolAssumption, ScaledIsSolvent
  <1> QED BY <1>1, <1>2, <1>3, TypeCorrect, DebtAlwaysCovered, TotalStakedAlwaysSum,
             PTL DEF Spec
----------------------------------------------------------------------------
(* Conservation, for the modules that compose the pool with others. *)

\* Whatever a step pays or takes, the pool, the stakers and the rest of the market
\* hold the same together.
LEMMA PoolTokensMove ==
    ASSUME StakingPoolAssumption, TypeOK, Next
    PROVE  (poolTokens + SumOver(wallet, Stakers) + market)'
              = poolTokens + SumOver(wallet, Stakers) + market
  <1> DEFINE inWallets == SumOver(wallet, Stakers)
  <1>1. TypeOK'
    BY TypeNext
  <1>2. /\ inWallets \in Nat
        /\ poolTokens \in Nat /\ poolTokens' \in Nat
        /\ market \in Nat /\ market' \in Nat
    <2>1. /\ IsFiniteSet(Stakers)
          /\ \A s \in Stakers : wallet[s] \in Nat
      BY DEF TypeOK, StakingPoolAssumption
    <2> QED BY <1>1, <2>1, SumType DEF TypeOK
  <1>3. ASSUME NEW s \in Stakers, NEW n \in Int,
               wallet' = [wallet EXCEPT ![s] = wallet[s] + n],
               poolTokens' = poolTokens - n, market' = market
        PROVE  poolTokens' + inWallets' + market' = poolTokens + inWallets + market
    <2>1. /\ \A t \in Stakers : wallet[t] \in Nat /\ wallet'[t] \in Nat
          /\ \A t \in Stakers \ {s} : wallet'[t] = wallet[t]
          /\ wallet'[s] = wallet[s] + n
      BY <1>1, <1>3 DEF TypeOK
    <2>2. inWallets' = inWallets - wallet[s] + wallet'[s]
      BY <2>1, SumUpdate DEF StakingPoolAssumption
    <2>3. wallet[s] \in Nat
      BY <2>1
    <2> HIDE DEF inWallets
    <2> QED BY <1>2, <1>3, <2>1, <2>2, <2>3
  <1>4. ASSUME UNCHANGED <<wallet, poolTokens, market>>
        PROVE  poolTokens' + inWallets' + market' = poolTokens + inWallets + market
    BY <1>4
  <1>5. ASSUME NEW s \in Stakers, NEW amount \in Nat, NEW mint \in Mint,
               PayTo(s, amount, mint), market' = market
        PROVE  poolTokens' + inWallets' + market' = poolTokens + inWallets + market
    <2>1. CASE mint = "collection"
      BY <1>3, <1>5, <2>1 DEF PayTo
    <2>2. CASE mint = "other"
      BY <1>4, <1>5, <2>2 DEF PayTo
    <2> QED BY <2>1, <2>2 DEF Mint
  <1>6. ASSUME NEW s \in Stakers, NEW amount \in Amounts, NEW mint \in Mint
        PROVE  /\ StakeCollectionTokens(s, amount, mint) => poolTokens' + inWallets' + market' = poolTokens + inWallets + market
               /\ UnstakeCollectionTokens(s, amount, mint) => poolTokens' + inWallets' + market' = poolTokens + inWallets + market
    <2>1. amount \in Nat /\ 0 - amount \in Int /\ wallet[s] \in Nat
      BY DEF StakingPoolAssumption, TypeOK
    <2>2. ASSUME StakeCollectionTokens(s, amount, mint)
          PROVE  poolTokens' + inWallets' + market' = poolTokens + inWallets + market
      <3>1. CASE mint = "collection"
        <4>1. /\ wallet[s] - amount = wallet[s] + (0 - amount)
              /\ poolTokens + amount = poolTokens - (0 - amount)
          BY <1>2, <2>1
        <4>2. /\ wallet' = [wallet EXCEPT ![s] = wallet[s] - amount]
              /\ poolTokens' = poolTokens + amount
              /\ market' = market
          BY <2>2, <3>1 DEF StakeCollectionTokens, TakeFrom
        <4>3. wallet' = [wallet EXCEPT ![s] = wallet[s] + (0 - amount)]
          BY <4>1, <4>2
        <4> QED BY <1>3, <2>1, <4>1, <4>2, <4>3
      <3>2. CASE mint = "other"
        BY <1>4, <2>2, <3>2 DEF StakeCollectionTokens, TakeFrom
      <3> QED BY <3>1, <3>2 DEF Mint
    <2>3. ASSUME UnstakeCollectionTokens(s, amount, mint)
          PROVE  poolTokens' + inWallets' + market' = poolTokens + inWallets + market
      <3>1. PendingTokens(s) \in Nat
        BY <2>3, PendingType DEF UnstakeCollectionTokens, PendingComputes
      <3>2. UnstakeTransfer(s, amount) \in Nat
        BY <2>1, <3>1 DEF UnstakeTransfer
      <3> QED BY <1>5, <2>3, <3>2 DEF UnstakeCollectionTokens
    <2> HIDE DEF inWallets
    <2> QED BY <2>2, <2>3
  <1>7. ASSUME NEW total \in Amounts, NEW bp \in FeeRates, PurchaseAccess(total, bp)
        PROVE  poolTokens' + inWallets' + market' = poolTokens + inWallets + market
    <2>1. AmountToStakers(total, bp) \in Nat
      BY PurchaseAmount
    <2>2. /\ poolTokens' = poolTokens + AmountToStakers(total, bp)
          /\ market' = market - AmountToStakers(total, bp)
          /\ wallet' = wallet
      BY <1>7 DEF PurchaseAccess, AccrueRewards
    <2> HIDE DEF inWallets
    <2>3. inWallets' = inWallets
      BY <2>2 DEF inWallets
    <2> QED BY <1>2, <2>1, <2>2, <2>3
  <1>8. CASE \E s \in Stakers, mint \in Mint : ClaimStakingRewards(s, mint)
    <2>1. PICK s \in Stakers, mint \in Mint : ClaimStakingRewards(s, mint)
      BY <1>8
    <2>2. PendingTokens(s) \in Nat
      BY <2>1, PendingType DEF ClaimStakingRewards, PendingComputes
    <2> QED BY <1>5, <2>1, <2>2 DEF ClaimStakingRewards
  <1> HIDE DEF inWallets
  <1> QED BY <1>6, <1>7, <1>8 DEF Next, inWallets

=============================================================================
