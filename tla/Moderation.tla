----------------------------- MODULE Moderation -----------------------------
(***************************************************************************)
(* Tickets, the moderators that resolve them (instructions/moderation.rs)  *)
(* and the claim vaults that approved copyright claims are paid from       *)
(* (mint and burn in instructions/user.rs).                                *)
(*                                                                         *)
(* A ticket is a PDA of its target alone: a target has one ticket, ever.   *)
(* It does not record a collection, so the collection an instruction works *)
(* on is whichever account the caller passes.                              *)
(***************************************************************************)
EXTENDS Integers, Sequences, FiniteSets, Functions, ModeratorStaking

CONSTANTS Collections,
          NoCollection,     \* an optional collection account that is not passed
          Targets,          \* target_ids tickets may name
          TotalVideos,      \* CollectionState.total_videos
          ClaimShare,       \* CollectionState.claim_share_percent
          MintAmounts,      \* amounts a creator may mint
          ClaimIndices,     \* lists of video indices a ticket may carry
          Videos,           \* video indices a moderator may name
          VaultOwners,      \* which PDA may own a claim vault's token account
          ResolveTicketDecodes \* whether resolve_ticket gets past its arguments

CollectionSigner == "collection"       \* the PDA that signs a claim's payout
ClaimVaultSigner == "claim_vault"      \* the PDA that signs the burn

ASSUME ModerationAssumption ==
    /\ IsFiniteSet(Targets)
    /\ NoCollection \notin Collections
    /\ TotalVideos \in [Collections -> Nat \ {0}]
    /\ ClaimShare \in [Collections -> 0 .. 89]
    /\ MintAmounts \subseteq Nat
    /\ ClaimIndices \subseteq Seq(Nat)
    /\ Videos \subseteq Nat
    /\ VaultOwners \subseteq {CollectionSigner, ClaimVaultSigner}
    /\ ResolveTicketDecodes \in BOOLEAN

VARIABLES
    ticket,          \* ModTicket of each target, and whether it exists
    collection,      \* the part of CollectionState moderation works on
    vault_owner,     \* owner of each claim vault's token account
    claim_vault,     \* balance of each claim vault
    holders,         \* collection tokens of the creator and the liquidity reserve
    claimants,       \* collection tokens paid to claimants
    burned,          \* collection tokens destroyed
    deadlinePassed,  \* whether the clock has reached claim_deadline
    paidBy           \* history: the collection whose vault paid a ticket's claim

vaultVars == <<vault_owner, claim_vault, holders, claimants, burned>>
vars == <<stakeVars, ticket, collection, vaultVars, deadlinePassed, paidBy>>

NoTicket == [exists |-> FALSE]

TicketTypes == {"ContentReport", "CopyrightClaim", "CidCensorship"}

Init ==
    /\ StakeInit
    /\ ticket = [t \in Targets |-> NoTicket]
    /\ collection = [c \in Collections |->
                        [tokens_minted |-> FALSE, claim_vault_initial_amount |-> 0,
                         claimed |-> {}, censored |-> {}, is_blacklisted |-> FALSE]]
    /\ vault_owner \in [Collections -> VaultOwners]
    /\ claim_vault = [c \in Collections |-> 0]
    /\ holders = [c \in Collections |-> 0]
    /\ claimants = [c \in Collections |-> 0]
    /\ burned = [c \in Collections |-> 0]
    /\ deadlinePassed = [c \in Collections |-> FALSE]
    /\ paidBy = [t \in Targets |-> NoCollection]

----------------------------------------------------------------------------
(* mint_collection_tokens: once per collection. *)

Part(amount, percent) == (amount * percent) \div 100

ReserveAmount_NoRemainder(c, amount) == Part(amount, 90 - ClaimShare[c])

\* The reserve's percentage and what truncating the three parts left over.
ReserveAmount(c, amount) ==
    LET reserve == Part(amount, 90 - ClaimShare[c])
        remainder == amount - (reserve + Part(amount, 10) + Part(amount, ClaimShare[c]))
    IN  reserve + remainder

MintCollectionTokens(c, amount) ==
    /\ amount > 0
    /\ ~collection[c].tokens_minted
    /\ holders' = [holders EXCEPT ![c] = @ + Part(amount, 10) + ReserveAmount(c, amount)]
    /\ claim_vault' = [claim_vault EXCEPT ![c] = @ + Part(amount, ClaimShare[c])]
    /\ collection' = [collection EXCEPT
                        ![c].tokens_minted = TRUE,
                        ![c].claim_vault_initial_amount = Part(amount, ClaimShare[c])]
    /\ UNCHANGED <<stakeVars, ticket, vault_owner, claimants, burned,
                   deadlinePassed, paidBy>>

(* burn_unclaimed_tokens, by anybody once the deadline has passed. *)
BurnUnclaimedTokens(c) ==
    /\ deadlinePassed[c]
    /\ claim_vault[c] > 0
    /\ vault_owner[c] = ClaimVaultSigner
    /\ burned' = [burned EXCEPT ![c] = @ + claim_vault[c]]
    /\ claim_vault' = [claim_vault EXCEPT ![c] = 0]
    /\ UNCHANGED <<stakeVars, ticket, collection, vault_owner, holders, claimants,
                   deadlinePassed, paidBy>>

----------------------------------------------------------------------------
(* create_ticket.  Only a copyright claim looks at the collection passed and *)
(* at the indices; other types store the indices and nobody reads them.      *)
CreateTicket(t, type, indices, c) ==
    /\ ~ticket[t].exists
    /\ type = "CopyrightClaim" =>
           /\ c # NoCollection
           /\ ~deadlinePassed[c]
           /\ Range(indices) \subseteq 0 .. TotalVideos[c] - 1
    /\ ticket' = [ticket EXCEPT ![t] = [exists        |-> TRUE,
                                        ticket_type   |-> type,
                                        claim_indices |-> indices,
                                        resolved      |-> FALSE,
                                        verdict       |-> FALSE,
                                        resolver      |-> {}]]
    /\ UNCHANGED <<stakeVars, collection, vaultVars, deadlinePassed, paidBy>>

Open_NotChecked(t) == ticket[t].exists

\* The ticket exists and has no verdict yet.
Open(t) == ticket[t].exists /\ ~ticket[t].resolved

\* m decides t; the checks and the three fields shared by all resolutions.
Decide(m, t, verdict) ==
    /\ InGoodStanding(m)
    /\ Open(t)
    /\ ticket' = [ticket EXCEPT ![t].resolved = TRUE,
                                ![t].verdict = verdict,
                                ![t].resolver = {m}]

(* resolve_ticket: of any type.  An approved report blacklists the collection *)
(* that is passed, if one is.  ResolveTicket is declared with a target_id the *)
(* instruction does not have, which Anchor fails to decode from the verdict.  *)
ResolveTicket(m, t, verdict, c) ==
    /\ ResolveTicketDecodes
    /\ Decide(m, t, verdict)
    /\ IF ticket[t].ticket_type = "ContentReport" /\ verdict /\ c # NoCollection
       THEN collection' = [collection EXCEPT ![c].is_blacklisted = TRUE]
       ELSE UNCHANGED collection
    /\ UNCHANGED <<stakeVars, vaultVars, deadlinePassed, paidBy>>

----------------------------------------------------------------------------
(* resolve_copyright_claim *)

\* The bitmaps have whole bytes, so they reach past the last video.
BitmapBits(c) == 8 * ((TotalVideos[c] + 7) \div 8)

PerVideoShare_OfBalance(c) == claim_vault[c] \div TotalVideos[c]

\* What one video is worth: a share of the vault's initial amount.
PerVideoShare(c) == collection[c].claim_vault_initial_amount \div TotalVideos[c]

Payout(t, c) == PerVideoShare(c) * Len(ticket[t].claim_indices)

NotYetClaimed_NotChecked(t, c) == TRUE

\* The bitmap check; it reads the bitmap before any bit of this ticket is set.
NotYetClaimed(t, c) ==
    \A i \in DOMAIN ticket[t].claim_indices :
        ticket[t].claim_indices[i] \notin collection[c].claimed

IsOfType_Any(t, type) == TRUE

IsOfType(t, type) == ticket[t].ticket_type = type

PayClaim(t, c) ==
    /\ collection[c].tokens_minted
    /\ collection[c].claim_vault_initial_amount > 0
    /\ ticket[t].claim_indices # <<>>
    /\ Range(ticket[t].claim_indices) \subseteq 0 .. BitmapBits(c) - 1
    /\ NotYetClaimed(t, c)
    /\ Payout(t, c) > 0
    /\ vault_owner[c] = CollectionSigner
    /\ Payout(t, c) <= claim_vault[c]
    /\ collection' = [collection EXCEPT
                        ![c].claimed = @ \cup Range(ticket[t].claim_indices)]
    /\ claim_vault' = [claim_vault EXCEPT ![c] = @ - Payout(t, c)]
    /\ claimants' = [claimants EXCEPT ![c] = @ + Payout(t, c)]
    /\ paidBy' = [paidBy EXCEPT ![t] = c]

ResolveCopyrightClaim(m, t, verdict, c) ==
    /\ Decide(m, t, verdict)
    /\ IsOfType(t, "CopyrightClaim")
    /\ IF verdict THEN PayClaim(t, c)
                  ELSE UNCHANGED <<collection, claim_vault, claimants, paidBy>>
    /\ UNCHANGED <<stakeVars, vault_owner, holders, burned, deadlinePassed>>

\* An approval sets the video's bit, a rejection clears it.
CensoredAfter(c, video, verdict) ==
    IF verdict THEN collection[c].censored \cup {video}
               ELSE collection[c].censored \ {video}

IsVideo_Inclusive(c, video) == video <= TotalVideos[c]

IsVideo(c, video) == video < TotalVideos[c]

(* resolve_cid_censorship: the moderator names the video. *)
ResolveCidCensorship(m, t, verdict, c, video) ==
    /\ Decide(m, t, verdict)
    /\ IsOfType(t, "CidCensorship")
    /\ IsVideo(c, video)
    /\ collection' = [collection EXCEPT ![c].censored = CensoredAfter(c, video, verdict)]
    /\ UNCHANGED <<stakeVars, vaultVars, deadlinePassed, paidBy>>

----------------------------------------------------------------------------
(* The clock reaches a collection's claim deadline. *)
PassDeadline(c) ==
    /\ ~deadlinePassed[c]
    /\ deadlinePassed' = [deadlinePassed EXCEPT ![c] = TRUE]
    /\ UNCHANGED <<stakeVars, ticket, collection, vaultVars, paidBy>>

CollectionStep(c) ==
    \/ \E amount \in MintAmounts : MintCollectionTokens(c, amount)
    \/ BurnUnclaimedTokens(c)
    \/ PassDeadline(c)

TicketStep(t) ==
    \/ \E c \in Collections \cup {NoCollection}, indices \in ClaimIndices :
          CreateTicket(t, "CopyrightClaim", indices, c)
    \/ \E type \in TicketTypes \ {"CopyrightClaim"} :
          CreateTicket(t, type, <<>>, NoCollection)
    \/ \E m \in Moderators, verdict \in BOOLEAN :
          \/ \E c \in Collections \cup {NoCollection} : ResolveTicket(m, t, verdict, c)
          \/ \E c \in Collections :
                \/ ResolveCopyrightClaim(m, t, verdict, c)
                \/ \E video \in Videos :
                      ResolveCidCensorship(m, t, verdict, c, video)

StakeStep ==
    /\ StakeNext
    /\ UNCHANGED <<ticket, collection, vaultVars, deadlinePassed, paidBy>>

Next ==
    \/ \E c \in Collections : CollectionStep(c)
    \/ \E t \in Targets : TicketStep(t)
    \/ StakeStep

Spec == Init /\ [][Next]_vars

----------------------------------------------------------------------------
(* Properties *)

TicketRecord == [exists : {TRUE}, ticket_type : TicketTypes,
                 claim_indices : Seq(Nat), resolved : BOOLEAN, verdict : BOOLEAN,
                 resolver : SUBSET Moderators]

\* Types of the accounts' fields; only bits of real videos are censored, and only
\* bits the bitmap has are claimed.
TypeOK ==
    /\ StakeTypeOK
    /\ ticket \in [Targets -> TicketRecord \cup {NoTicket}]
    /\ collection \in [Collections ->
          [tokens_minted : BOOLEAN, claim_vault_initial_amount : Nat,
           claimed : SUBSET Nat, censored : SUBSET Nat, is_blacklisted : BOOLEAN]]
    /\ \A c \in Collections :
          /\ collection[c].claimed \subseteq 0 .. BitmapBits(c) - 1
          /\ collection[c].censored \subseteq 0 .. TotalVideos[c] - 1
    /\ vault_owner \in [Collections -> VaultOwners]
    /\ claim_vault \in [Collections -> Nat]
    /\ holders \in [Collections -> Nat]
    /\ claimants \in [Collections -> Nat]
    /\ burned \in [Collections -> Nat]
    /\ deadlinePassed \in [Collections -> BOOLEAN]
    /\ paidBy \in [Targets -> Collections \cup {NoCollection}]

\* What was minted is in somebody's hands, in the vault, paid out or burned; nothing
\* is minted outside the one mint, and the three shares add up to its amount.
MintAccounted ==
    \A c \in Collections :
        LET everywhere == holders[c] + claim_vault[c] + claimants[c] + burned[c]
        IN  everywhere \in IF collection[c].tokens_minted THEN MintAmounts ELSE {0}

PaidTickets(c) == {t \in Targets : paidBy[t] = c}

\* No video is paid for under two different tickets, and the bitmap records exactly
\* the videos that were paid for.
OneClaimPerVideo ==
    \A c \in Collections :
        /\ collection[c].claimed =
              UNION {Range(ticket[t].claim_indices) : t \in PaidTickets(c)}
        /\ \A t, u \in PaidTickets(c) :
              t # u => Range(ticket[t].claim_indices)
                         \cap Range(ticket[u].claim_indices) = {}

\* Every claimed index of a collection is worth the same, however much of the vault
\* earlier claims have taken ("maintain stable value per video").
StableValuePerVideo ==
    \A c \in Collections :
        claimants[c] =
            (collection[c].claim_vault_initial_amount \div TotalVideos[c])
            * SumOver([t \in PaidTickets(c) |-> Len(ticket[t].claim_indices)],
                      PaidTickets(c))

\* The step decides t.
DecidedNow(t) == Open(t) /\ ticket'[t].resolved

\* A verdict is final: no instruction decides a ticket again or reopens it, whichever
\* of the three resolutions was used first.
VerdictsAreFinal ==
    [][\A t \in Targets :
          ticket[t].exists /\ ticket[t].resolved => ticket'[t] = ticket[t]]_vars

\* The step decides some ticket of this type, in this way.
DecidedAs(type, verdict) ==
    \E t \in Targets : /\ DecidedNow(t)
                       /\ ticket[t].ticket_type = type
                       /\ ticket'[t].verdict = verdict

EffectsFollow(c) ==
    LET old == collection[c]
        new == collection'[c]
    IN  /\ new.claimed # old.claimed \/ claimants'[c] # claimants[c] =>
               DecidedAs("CopyrightClaim", TRUE)
        /\ new.censored \ old.censored # {} => DecidedAs("CidCensorship", TRUE)
        /\ old.censored \ new.censored # {} => DecidedAs("CidCensorship", FALSE)
        /\ new.is_blacklisted # old.is_blacklisted => DecidedAs("ContentReport", TRUE)

\* Videos are claimed, censored or cleared, collections blacklisted and vaults paid
\* out only by the verdict, in the same step, of one ticket of the matching type.
EffectsFollowVerdicts == [][\A c \in Collections : EffectsFollow(c)]_vars

\* Until the burn the vault still holds a share for every video nobody has claimed
\* ("Check Bitmap for double-claims").  The code does not keep this.
VaultCoversUnclaimed ==
    \A c \in Collections :
        burned[c] = 0 =>
            claim_vault[c] >=
                (collection[c].claim_vault_initial_amount \div TotalVideos[c])
                * Cardinality((0 .. TotalVideos[c] - 1) \ collection[c].claimed)

=============================================================================
