--------------------------- MODULE ModerationDesk ---------------------------
(***************************************************************************)
(* ModerationClient: the application's side of tickets and moderators,     *)
(* over the stakes of ModeratorStaking.                                    *)
(*                                                                         *)
(* The client fetches an account, awaits, and then acts on what it read;   *)
(* stakes, the minimum and tickets may change in between.                  *)
(***************************************************************************)
EXTENDS ModeratorStaking

CONSTANTS Tickets,       \* target_ids
          TypeOf,        \* the type each of them is filed with
          Repaired       \* mismatches between client and program taken as repaired, of
                         \* those named below; as written {}

ASSUME ModerationDeskAssumption ==
    TypeOf \in [Tickets -> {"ContentReport", "CopyrightClaim", "CidCensorship"}]

VARIABLES
    open,       \* tickets filed and not decided
    closed,     \* tickets decided: by which method of the client, or by others
    deskCall,   \* the decision under way: method, moderator and ticket
    stakeCall,  \* stakeModerator under way: the amount and whose
    asking,     \* isModerator under way: the stake it read
    answered    \* history: the last answer, and the facts of that moment

deskVars == <<stakeVars, open, closed, deskCall, stakeCall, asking, answered>>

NoCall == [op |-> "none"]

DeskInit ==
    /\ StakeInit
    /\ open = {}
    /\ closed = [t \in Tickets |-> "none"]
    /\ deskCall = NoCall
    /\ stakeCall = NoCall
    /\ asking = NoCall
    /\ answered = [yes |-> FALSE, held |-> FALSE, moved |-> FALSE]

Unfiled(t) == t \notin open /\ closed[t] = "none"

----------------------------------------------------------------------------
(* Filing.  The program wants the ticket at the address of its target. *)

TicketAddress(t) == <<"ticket", t>>

\* The three filing methods pass three of the four arguments, and an address of their
\* own choice.  A target_id, longer than a seed may be, has no address.
Files(t, address) ==
    /\ Unfiled(t)
    /\ open' = IF /\ {"create_ticket arguments", "target_id length"} \subseteq Repaired
                  /\ address = TicketAddress(t)
               THEN open \cup {t} ELSE open
    /\ UNCHANGED <<stakeVars, closed, deskCall, stakeCall, asking, answered>>

SubmitCopyrightClaim(t, claimant) ==
    /\ TypeOf[t] = "CopyrightClaim"
    /\ Files(t, <<"copyright_claim", t, claimant>>)

ReportContent(t, reporter) ==
    /\ TypeOf[t] = "ContentReport"
    /\ Files(t, <<"content_report", t, reporter>>)

SubmitCidCensorship(t) ==
    /\ TypeOf[t] = "CidCensorship"
    /\ Files(t, <<"ticket", t>>)

(* create_ticket by a client of their own. *)
FileByOthers(t) ==
    /\ Unfiled(t)
    /\ open' = open \cup {t}
    /\ UNCHANGED <<stakeVars, closed, deskCall, stakeCall, asking, answered>>

----------------------------------------------------------------------------
(* Deciding *)

\* The moderator's call fetches the ticket, of any type, decided or not.
FetchTicket(op, m, t) ==
    /\ deskCall = NoCall
    /\ ~Unfiled(t)
    /\ deskCall' = [op |-> op, moderator |-> m, ticket |-> t]
    /\ UNCHANGED <<stakeVars, open, closed, stakeCall, asking, answered>>

\* The program reads a target_id that resolve_ticket is not given.
BlacklistSends(t) ==
    TypeOf[t] = "ContentReport" /\ "resolve_ticket arguments" \in Repaired

CensorshipSends(t) == TypeOf[t] = "CidCensorship"

TicketFields ==
    {"reporter", "target_id", "ticket_type", "reason", "resolved", "verdict", "resolver",
     "created_at", "claim_indices", "bump"}

\* Approving and rejecting read the collection and the claimant of the ticket, and
\* throw where it has none.
ApproveSends == {"collection", "claimant"} \subseteq TicketFields

RejectSends == {"collection", "claimant"} \subseteq TicketFields

Sends(op, t) ==
    \/ op = "blacklistCollection" /\ BlacklistSends(t)
    \/ op = "resolveCidCensorship" /\ CensorshipSends(t)
    \/ op = "approveCopyrightClaim" /\ ApproveSends
    \/ op = "rejectCopyrightClaim" /\ RejectSends

(* The client's check of the type, and the transaction. *)
SendDecision ==
    /\ deskCall # NoCall
    /\ deskCall' = NoCall
    /\ LET t == deskCall.ticket
       IN  IF Sends(deskCall.op, t) /\ t \in open /\ InGoodStanding(deskCall.moderator)
           THEN /\ open' = open \ {t}
                /\ closed' = [closed EXCEPT ![t] = deskCall.op]
           ELSE UNCHANGED <<open, closed>>
    /\ UNCHANGED <<stakeVars, stakeCall, asking, answered>>

DecideByOthers(t) ==
    /\ t \in open
    /\ open' = open \ {t}
    /\ closed' = [closed EXCEPT ![t] = "others"]
    /\ UNCHANGED <<stakeVars, deskCall, stakeCall, asking, answered>>

----------------------------------------------------------------------------
(* Moderators *)

(* stakeModerator: the minimum is read and tested here ... *)
BeginStake(m, amount) ==
    /\ stakeCall = NoCall
    /\ amount >= global_state.moderator_stake_minimum
    /\ stakeCall' = [op |-> "stake", moderator |-> m, amount |-> amount]
    /\ UNCHANGED <<stakeVars, open, closed, deskCall, asking, answered>>

(* ... and by the program again, which is given no mint and no vault. *)
SendStake ==
    /\ stakeCall # NoCall
    /\ stakeCall' = NoCall
    /\ \/ "stake accounts" \in Repaired /\ StakeModerator(stakeCall.moderator, stakeCall.amount)
       \/ /\ \/ "stake accounts" \notin Repaired
             \/ stakeCall.amount < global_state.moderator_stake_minimum
             \/ stakeCall.amount > capgm[stakeCall.moderator][global_state.capgm_mint]
          /\ UNCHANGED stakeVars
    /\ UNCHANGED <<open, closed, deskCall, asking, answered>>

(* isModerator: getModeratorStake ... *)
ReadStake(m) ==
    /\ asking = NoCall
    /\ asking' = [op |-> "isModerator", stake |-> moderator_stake[m],
                  held |-> InGoodStanding(m),
                  minimum |-> global_state.moderator_stake_minimum]
    /\ UNCHANGED <<stakeVars, open, closed, deskCall, stakeCall, answered>>

IsModerator_ByAmount(stake) ==
    stake.stake_amount >= global_state.moderator_stake_minimum

\* ... and then the minimum.
IsModerator(stake) ==
    stake.is_active /\ stake.stake_amount >= global_state.moderator_stake_minimum

AnswerIsModerator ==
    /\ asking # NoCall
    /\ asking' = NoCall
    /\ answered' = [yes   |-> IsModerator(asking.stake),
                    held  |-> asking.held,
                    moved |-> global_state.moderator_stake_minimum < asking.minimum]
    /\ UNCHANGED <<stakeVars, open, closed, deskCall, stakeCall>>

(* slashModerator, by the admin's key or another. *)
SlashAtDesk(m) ==
    /\ "stake accounts" \in Repaired
    /\ SlashModerator(m)
    /\ UNCHANGED <<open, closed, deskCall, stakeCall, asking, answered>>

(* Other clients stake, and the admin updates. *)
StakesMove == StakeNext /\ UNCHANGED <<open, closed, deskCall, stakeCall, asking, answered>>

DeskNext ==
    \/ \E t \in Tickets :
          \/ \E m \in Moderators :
                \/ SubmitCopyrightClaim(t, m)
                \/ ReportContent(t, m)
                \/ \E op \in {"approveCopyrightClaim", "rejectCopyrightClaim",
                              "blacklistCollection", "resolveCidCensorship"} :
                      FetchTicket(op, m, t)
          \/ SubmitCidCensorship(t)
          \/ FileByOthers(t)
          \/ DecideByOthers(t)
    \/ SendDecision
    \/ \E m \in Moderators : \/ \E amount \in StakeAmounts : BeginStake(m, amount)
                             \/ ReadStake(m)
                             \/ SlashAtDesk(m)
    \/ SendStake
    \/ AnswerIsModerator
    \/ StakesMove

DeskSpec == DeskInit /\ [][DeskNext]_deskVars

----------------------------------------------------------------------------
(* Properties *)

\* isModerator reads the stake and the minimum at different times.  When it says
\* yes, the wallet was in good standing at the moment its stake was read, unless the
\* minimum was lowered before that was read: raising the minimum in between cannot
\* mislead it.  It says nothing of the moment of the answer, when the stake may have
\* been slashed.
ModeratorYesHeld == answered.yes => answered.held \/ answered.moved

=============================================================================
