--------------------------- MODULE RewardMonitor ---------------------------
(***************************************************************************)
(* The staker's workflow (IntegratedWorkflow.stakeAndMonitorRewards) and   *)
(* the StakingClient calls it makes, over the staking pool of StakingPool. *)
(*                                                                         *)
(* A timer starts a callback every few seconds without waiting for the     *)
(* previous one, so several may be between their awaits at once.  A        *)
(* position and the pool are read one after the other, and a claim is sent *)
(* after both.                                                             *)
(***************************************************************************)
EXTENDS Naturals

CONSTANTS Staker,        \* the wallet that runs the workflow
          StakeAmount,   \* stakeAmount
          RewardThreshold, \* rewardThreshold
          Callbacks,     \* callbacks that may be in flight at once
          RepairedStaking, \* defects of StakingClient, of those named below, taken as
                         \* repaired; as written {}
          Stakers, StakerTokens, ForeignTokens, MarketTokens, Amounts, FeeRates, Precision,
          MaxU128

VARIABLES pool, position, poolTokens, wallet, foreign, market,
          entitled,   \* all these of StakingPool
          workflow,   \* where the workflow's own thread is
          ticking,    \* whether the interval is set
          callback,   \* each callback: where it is and what it has read
          reported    \* rewards reported by the claims of each callback

poolVars == <<pool, position, poolTokens, wallet, foreign, market, entitled>>
monitorVars == <<pool, position, poolTokens, wallet, foreign, market, entitled,
                 workflow, ticking, callback, reported>>

Pool == INSTANCE StakingPool

ASSUME RewardMonitorAssumption ==
    /\ Pool!StakingPoolAssumption
    /\ Staker \in Stakers
    /\ StakeAmount \in Nat
    /\ RewardThreshold \in Nat \ {0}   \* with 0 a claim of nothing throws forever

NoCallback == [at |-> "idle", seen |-> [amount_staked |-> 0, reward_debt |-> 0], owed |-> 0]

MonitorInit ==
    /\ Pool!Init
    /\ workflow = "idle"
    /\ ticking = FALSE
    /\ callback = [k \in Callbacks |-> NoCallback]
    /\ reported = [k \in Callbacks |-> 0]

(* StakingClient.stakeCollectionTokens: the position's address comes from the *)
(* pool, and must come from the collection; the mint is missing.              *)
StakeAndWatch ==
    /\ workflow = "idle"
    /\ {"position seeds", "mint"} \subseteq RepairedStaking
    /\ Pool!StakeCollectionTokens(Staker, StakeAmount, "collection")
    /\ workflow' = "watching"
    /\ ticking' = TRUE
    /\ UNCHANGED <<callback, reported>>

(* The monitoring time is over: the totals are returned, the timer stays. *)
ReturnTotals ==
    /\ workflow = "watching"
    /\ workflow' = "returned"
    /\ UNCHANGED <<poolVars, ticking, callback, reported>>

(* unstakeCollectionTokens(null): the amount is the one read before. *)
BeginUnstake ==
    /\ workflow = "returned"
    /\ workflow' = "leaving"
    /\ UNCHANGED <<poolVars, ticking, callback, reported>>

SubmitUnstake ==
    /\ workflow = "leaving"
    /\ Pool!UnstakeCollectionTokens(Staker, StakeAmount, "collection")
    /\ workflow' = "left"
    /\ UNCHANGED <<ticking, callback, reported>>

----------------------------------------------------------------------------
(* One callback of the interval. *)

At(k, place) == callback[k].at = place

Moves(k, to) == callback' = [callback EXCEPT ![k].at = to]

Ends(k) == callback' = [callback EXCEPT ![k] = NoCallback]

OwedOn_Gross(seen) == (seen.amount_staked * pool.reward_per_token) \div Precision

\* calculatePendingRewards of the position that was read and the pool as it is now.
OwedOn(seen) ==
    (seen.amount_staked * pool.reward_per_token - seen.reward_debt) \div Precision

Fire(k) ==
    /\ ticking
    /\ At(k, "idle")
    /\ Moves(k, "looking")
    /\ UNCHANGED <<poolVars, workflow, ticking, reported>>

\* The first of the two fetches, of getStakerPosition and of claimStakingRewards.
FetchPosition(k, from, to) ==
    /\ At(k, from)
    /\ callback' = [callback EXCEPT ![k] = [at |-> to, seen |-> position[Staker], owed |-> 0]]
    /\ UNCHANGED <<poolVars, workflow, ticking, reported>>

LookAtPosition(k) == FetchPosition(k, "looking", "comparing")

AfterLowReward_GivesUp(k) == Ends(k)

AfterLowReward(k) == Moves(k, "finishing")

(* getStakerPosition ends, and the reward is compared with the threshold. *)
CompareReward(k) ==
    /\ At(k, "comparing")
    /\ IF OwedOn(callback[k].seen) >= RewardThreshold
       THEN Moves(k, "claiming")
       ELSE AfterLowReward(k)
    /\ UNCHANGED <<poolVars, workflow, ticking, reported>>

(* getStakerPosition answers a failed fetch, of either account, with null, and the *)
(* callback returns.                                                              *)
FetchFails(k) ==
    /\ At(k, "comparing")
    /\ Ends(k)
    /\ UNCHANGED <<poolVars, workflow, ticking, reported>>

(* claimStakingRewards reads both accounts again and throws when nothing is owed ... *)
ReadBeforeClaim(k) == FetchPosition(k, "claiming", "computing")

ComputeReward(k) ==
    /\ At(k, "computing")
    /\ LET owed == OwedOn(callback[k].seen)
       IN  IF owed > 0
           THEN callback' = [callback EXCEPT ![k] = [at |-> "sending", seen |-> @.seen,
                                                     owed |-> owed]]
           ELSE Ends(k)
    /\ UNCHANGED <<poolVars, workflow, ticking, reported>>

(* ... and sends the transaction, which pays what is pending by then; what is *)
(* added up is the reward read before.                                        *)
SubmitClaim(k) ==
    /\ At(k, "sending")
    /\ Pool!ClaimStakingRewards(Staker, "collection")
    /\ reported' = [reported EXCEPT ![k] = @ + callback[k].owed]
    /\ Moves(k, "finishing")
    /\ UNCHANGED <<workflow, ticking>>

(* A claim with nothing pending, because another one came first, is refused. *)
ClaimRefused(k) ==
    /\ At(k, "sending")
    /\ \/ position[Staker].amount_staked = 0
       \/ Pool!PendingTokens(Staker) = 0
    /\ Ends(k)
    /\ UNCHANGED <<poolVars, workflow, ticking, reported>>

(* The end of a callback that got there: only here is the interval cleared. *)
FinishCallback(k) ==
    /\ At(k, "finishing")
    /\ Ends(k)
    /\ ticking' = (ticking /\ workflow \in {"idle", "watching"})
    /\ UNCHANGED <<poolVars, workflow, reported>>

----------------------------------------------------------------------------
(* The rest of the world uses the same pool. *)

(* Somebody buys access, and the stakers' half reaches the pool. *)
SomebodyBuys(total, bp) ==
    /\ Pool!PurchaseAccess(total, bp)
    /\ UNCHANGED <<workflow, ticking, callback, reported>>

(* The other stakers share it. *)
OthersStake ==
    /\ \E s \in Stakers \ {Staker}, mint \in Pool!Mint :
          \/ \E amount \in Amounts : \/ Pool!StakeCollectionTokens(s, amount, mint)
                                    \/ Pool!UnstakeCollectionTokens(s, amount, mint)
          \/ Pool!ClaimStakingRewards(s, mint)
    /\ UNCHANGED <<workflow, ticking, callback, reported>>

CallbackStep(k) ==
    \/ LookAtPosition(k) \/ CompareReward(k) \/ ReadBeforeClaim(k)
    \/ ComputeReward(k) \/ SubmitClaim(k) \/ ClaimRefused(k) \/ FinishCallback(k)

MonitorNext ==
    \/ StakeAndWatch \/ ReturnTotals \/ BeginUnstake \/ SubmitUnstake
    \/ \E k \in Callbacks : Fire(k) \/ CallbackStep(k) \/ FetchFails(k)
    \/ \E total \in Amounts, bp \in FeeRates : SomebodyBuys(total, bp)
    \/ OthersStake

\* The timer keeps firing and every call is answered, with success again and again.
MonitorFairness ==
    \A k \in Callbacks :
        /\ WF_monitorVars(Fire(k))
        /\ WF_monitorVars(CallbackStep(k))
        /\ SF_monitorVars(CompareReward(k))

MonitorSpec == MonitorInit /\ [][MonitorNext]_monitorVars /\ MonitorFairness

----------------------------------------------------------------------------
(* Properties *)

\* Although a claim reports what was owed before it was sent, from two accounts
\* read at different times, the reports of one callback after another never exceed
\* what the purchases earned the staker.  Two overlapping callbacks may each report
\* the same rewards, so the bound is per chain of callbacks.
ReportsWereEarned ==
    \A k \in Callbacks : reported[k] * Precision <= entitled[Staker]

\* The interval is cleared once the workflow has returned: neither claims that
\* overtake each other nor failed calls leave it running forever.
MonitorStops == workflow = "returned" ~> ~ticking

=============================================================================
