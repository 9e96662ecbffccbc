-------------------------- MODULE ModeratorStaking --------------------------
(***************************************************************************)
(* The stakes in CAPGM that make a wallet a moderator (instructions/       *)
(* staking.rs) and the part of GlobalState they depend on (admin.rs): the  *)
(* minimum stake, the CAPGM mint, and the switch that freezes both.        *)
(*                                                                         *)
(* The staking vault is the associated token account of the GlobalState    *)
(* PDA for the CURRENT mint, so there is one vault per mint, while a       *)
(* ModeratorStake records an amount and no mint.                           *)
(***************************************************************************)
EXTENDS Integers, FiniteSets, TokenSums

CONSTANTS Moderators,    \* wallets that may stake
          Mints,         \* mints GlobalState.capgm_mint may name
          CapgmHeld,     \* what each wallet holds of each mint at the start
          StakeAmounts,  \* amounts a moderator may name
          Minimums       \* values of moderator_stake_minimum

ASSUME ModeratorStakingAssumption ==
    /\ IsFiniteSet(Moderators)
    /\ IsFiniteSet(Mints)
    /\ CapgmHeld \in [Moderators -> [Mints -> Nat]]
    /\ StakeAmounts \subseteq Nat
    /\ Minimums \subseteq Nat

VARIABLES
    global_state,    \* GlobalState: moderator_stake_minimum, capgm_mint, updates_disabled
    moderator_stake, \* ModeratorStake of each wallet (all zero before it exists)
    staking_vault,   \* balance of the vault of each mint
    capgm,           \* CAPGM of each mint in the wallets
    treasury         \* CAPGM of each mint in the treasury

stakeVars == <<global_state, moderator_stake, staking_vault, capgm, treasury>>

StakeInit ==
    /\ global_state \in [moderator_stake_minimum : Minimums, capgm_mint : Mints,
                         updates_disabled : {FALSE}]
    /\ moderator_stake = [m \in Moderators |->
                            [stake_amount |-> 0, is_active |-> FALSE, slash_count |-> 0]]
    /\ staking_vault = [g \in Mints |-> 0]
    /\ capgm = CapgmHeld
    /\ treasury = [g \in Mints |-> 0]

\* The constraints on a moderator in every instruction that resolves a ticket.
InGoodStanding(m) ==
    /\ moderator_stake[m].is_active
    /\ moderator_stake[m].stake_amount >= global_state.moderator_stake_minimum

(* stake_moderator: every deposit, not their sum, reaches the minimum. *)
StakeModerator(m, amount) ==
    LET g == global_state.capgm_mint
    IN  /\ amount >= global_state.moderator_stake_minimum
        /\ amount <= capgm[m][g]
        /\ capgm' = [capgm EXCEPT ![m][g] = @ - amount]
        /\ staking_vault' = [staking_vault EXCEPT ![g] = @ + amount]
        /\ moderator_stake' = [moderator_stake EXCEPT
                                  ![m] = [stake_amount |-> @.stake_amount + amount,
                                          is_active    |-> TRUE,
                                          slash_count  |-> @.slash_count]]
        /\ UNCHANGED <<global_state, treasury>>

AfterSlash_StakeKept(m) ==
    [moderator_stake EXCEPT ![m].is_active = FALSE, ![m].slash_count = @ + 1]

AfterSlash(m) ==
    [moderator_stake EXCEPT ![m] = [stake_amount |-> 0, is_active |-> FALSE,
                                    slash_count |-> @.slash_count + 1]]

\* The whole stake goes to the treasury.
SlashedAmount(m) == moderator_stake[m].stake_amount

(* slash_moderator, by the admin; paid from the vault of the current mint. *)
SlashModerator(m) ==
    LET g == global_state.capgm_mint
    IN  /\ moderator_stake[m].stake_amount > 0
        /\ SlashedAmount(m) <= staking_vault[g]
        /\ staking_vault' = [staking_vault EXCEPT ![g] = @ - SlashedAmount(m)]
        /\ treasury' = [treasury EXCEPT ![g] = @ + SlashedAmount(m)]
        /\ moderator_stake' = AfterSlash(m)
        /\ UNCHANGED <<global_state, capgm>>

(* update_global_state: the fields moderation depends on; each may keep its *)
(* value.                                                                   *)
UpdateGlobalState(minimum, mint) ==
    /\ ~global_state.updates_disabled
    /\ global_state' = [global_state EXCEPT !.moderator_stake_minimum = minimum,
                                            !.capgm_mint = mint]
    /\ UNCHANGED <<moderator_stake, staking_vault, capgm, treasury>>

(* disable_global_state_updates *)
DisableGlobalStateUpdates ==
    /\ ~global_state.updates_disabled
    /\ global_state' = [global_state EXCEPT !.updates_disabled = TRUE]
    /\ UNCHANGED <<moderator_stake, staking_vault, capgm, treasury>>

StakeNext ==
    \/ \E m \in Moderators : \/ \E amount \in StakeAmounts : StakeModerator(m, amount)
                             \/ SlashModerator(m)
    \/ \E minimum \in Minimums, mint \in Mints : UpdateGlobalState(minimum, mint)
    \/ DisableGlobalStateUpdates

StakeSpec == StakeInit /\ [][StakeNext]_stakeVars

----------------------------------------------------------------------------
(* Properties *)

\* Types of the accounts' fields.
StakeTypeOK ==
    /\ global_state \in [moderator_stake_minimum : Nat, capgm_mint : Mints,
                         updates_disabled : BOOLEAN]
    /\ moderator_stake \in [Moderators -> [stake_amount : Nat, is_active : BOOLEAN,
                                           slash_count : Nat]]
    /\ staking_vault \in [Mints -> Nat]
    /\ capgm \in [Moderators -> [Mints -> Nat]]
    /\ treasury \in [Mints -> Nat]

\* The vaults hold exactly what the stakes record, whatever mint each deposit came
\* in and each slash went out: no stake is counted twice or left behind.
StakesBacked ==
    SumOver(staking_vault, Mints)
        = SumOver([m \in Moderators |-> moderator_stake[m].stake_amount], Moderators)

=============================================================================
