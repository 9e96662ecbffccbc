-------------------------- MODULE ModerationProofs --------------------------
(***************************************************************************)
(* Proofs about Moderation: verdicts are final, and no video is paid for   *)
(* under two tickets, for any number of moderators, targets, collections   *)
(* and whatever lists of indices the tickets carry.                        *)
(***************************************************************************)
EXTENDS Moderation, TokenArithmetic

CollectionRecord == [tokens_minted : BOOLEAN, claim_vault_initial_amount : Nat,
                     claimed : SUBSET Nat, censored : SUBSET Nat,
                     is_blacklisted : BOOLEAN]

Indices(t) == Range(ticket[t].claim_indices)

\* Types of what the two properties read.
TicketsTyped ==
    /\ ticket \in [Targets -> TicketRecord \cup {NoTicket}]
    /\ paidBy \in [Targets -> Collections \cup {NoCollection}]

\* Only a ticket with a verdict has been paid: the next verdict cannot change what
\* a paid ticket lists, nor be about it.
PaidIsResolved ==
    \A t \in Targets :
        paidBy[t] # NoCollection => ticket[t].exists /\ ticket[t].resolved

ClaimedIsPaid ==
    \A c \in Collections :
        collection[c].claimed = UNION {Indices(t) : t \in PaidTickets(c)}

PaidIsDisjoint ==
    \A c \in Collections : \A t, u \in PaidTickets(c) :
        t # u => Indices(t) \cap Indices(u) = {}

ClaimInv ==
    /\ TicketsTyped
    /\ collection \in [Collections -> CollectionRecord]
    /\ PaidIsResolved
    /\ ClaimedIsPaid
    /\ PaidIsDisjoint

----------------------------------------------------------------------------
LEMMA RecordIn ==
    ASSUME NEW A, NEW B, NEW C, NEW D, NEW E, NEW F,
           NEW a \in A, NEW b \in B, NEW c \in C, NEW d \in D, NEW e \in E, NEW f \in F
    PROVE  [exists |-> a, ticket_type |-> b, claim_indices |-> c, resolved |-> d,
            verdict |-> e, resolver |-> f]
              \in [exists : A, ticket_type : B, claim_indices : C, resolved : D,
                   verdict : E, resolver : F]
  OBVIOUS

LEMMA UnionOneMore ==
    ASSUME NEW S, NEW A
    PROVE  UNION (S \cup {A}) = (UNION S) \cup A
  OBVIOUS

(* What a step does to one ticket. *)

LEMMA TicketCases ==
    ASSUME TicketsTyped, NEW t \in Targets, ticket[t].exists
    PROVE  ticket[t] \in TicketRecord
  BY DEF TicketsTyped, NoTicket

\* A new ticket takes a free target.
LEMMA CreateFrame ==
    ASSUME TicketsTyped, NEW t \in Targets, NEW type \in TicketTypes,
           NEW indices \in Seq(Nat), NEW c, CreateTicket(t, type, indices, c)
    PROVE  /\ TicketsTyped'
           /\ ~ticket[t].exists
           /\ \A u \in Targets \ {t} : ticket'[u] = ticket[u]
  <1> DEFINE new == [exists        |-> TRUE,
                     ticket_type   |-> type,
                     claim_indices |-> indices,
                     resolved      |-> FALSE,
                     verdict       |-> FALSE,
                     resolver      |-> {}]
  <1>1. new \in TicketRecord
    BY DEF TicketRecord
  <1>2. ticket' = [ticket EXCEPT ![t] = new]
    BY DEF CreateTicket
  <1>3. paidBy' = paidBy
    BY DEF CreateTicket
  <1>4. ~ticket[t].exists
    BY DEF CreateTicket
  <1> HIDE DEF new
  <1> QED BY <1>1, <1>2, <1>3, <1>4 DEF TicketsTyped

\* A verdict is given on an open ticket, and keeps what the ticket lists.
LEMMA DecideFrame ==
    ASSUME TicketsTyped, NEW m \in Moderators, NEW t \in Targets,
           NEW verdict \in BOOLEAN, Decide(m, t, verdict)
    PROVE  /\ ticket' \in [Targets -> TicketRecord \cup {NoTicket}]
           /\ Open(t)
           /\ ticket'[t].exists /\ ticket'[t].resolved
           /\ ticket'[t].claim_indices = ticket[t].claim_indices
           /\ ticket'[t].verdict = verdict
           /\ \A u \in Targets \ {t} : ticket'[u] = ticket[u]
  <1>1. ticket[t].exists
    BY DEF Decide, Open
  <1>2. ticket[t] \in TicketRecord
    BY <1>1, TicketCases
  <1>3. ticket'[t] = [ticket[t] EXCEPT !.resolved = TRUE, !.verdict = verdict,
                                       !.resolver = {m}]
    BY DEF Decide, TicketsTyped
  <1>4. ticket'[t] \in TicketRecord
    <2> DEFINE r == ticket[t]
    <2>1. r = [exists        |-> r.exists,
               ticket_type   |-> r.ticket_type,
               claim_indices |-> r.claim_indices,
               resolved      |-> r.resolved,
               verdict       |-> r.verdict,
               resolver      |-> r.resolver]
      BY <1>2 DEF TicketRecord
    <2>2. ticket'[t] = [exists        |-> r.exists,
                        ticket_type   |-> r.ticket_type,
                        claim_indices |-> r.claim_indices,
                        resolved      |-> TRUE,
                        verdict       |-> verdict,
                        resolver      |-> {m}]
      BY <1>3, <2>1
    <2>3. /\ r.exists \in {TRUE} /\ r.ticket_type \in TicketTypes
          /\ r.claim_indices \in Seq(Nat)
      BY <1>2 DEF TicketRecord
    <2>4. /\ {m} \in SUBSET Moderators
          /\ TRUE \in BOOLEAN /\ verdict \in BOOLEAN
      OBVIOUS
    <2> HIDE DEF r
    <2>5. [exists        |-> r.exists,
           ticket_type   |-> r.ticket_type,
           claim_indices |-> r.claim_indices,
           resolved      |-> TRUE,
           verdict       |-> verdict,
           resolver      |-> {m}] \in TicketRecord
      BY <2>3, <2>4, RecordIn, Zenon DEF TicketRecord
    <2> QED BY <2>2, <2>5, Zenon
  <1>5. /\ ticket'[t].exists /\ ticket'[t].resolved
        /\ ticket'[t].claim_indices = ticket[t].claim_indices
        /\ ticket'[t].verdict = verdict
    BY <1>2, <1>3 DEF TicketRecord
  <1>6. /\ Open(t)
        /\ \A u \in Targets \ {t} : ticket'[u] = ticket[u]
    BY DEF Decide, TicketsTyped
  <1>7. ticket' \in [Targets -> TicketRecord \cup {NoTicket}]
    BY <1>4, <1>6 DEF Decide, TicketsTyped
  <1> QED BY <1>5, <1>6, <1>7

\* The kinds of steps: mint, burn, deadline and stakes leave tickets and verdicts
\* alone.
LEMMA StepCases ==
    ASSUME ModerationAssumption, [Next]_vars
    PROVE  \/ UNCHANGED <<ticket, paidBy>>
              /\ \/ UNCHANGED collection
                 \/ \E c \in Collections, amount \in MintAmounts :
                       MintCollectionTokens(c, amount)
           \/ \E t \in Targets, type \in TicketTypes, indices \in Seq(Nat),
                 c \in Collections \cup {NoCollection} : CreateTicket(t, type, indices, c)
           \/ \E t \in Targets, m \in Moderators, verdict \in BOOLEAN :
                 \/ \E c \in Collections \cup {NoCollection} :
                       ResolveTicket(m, t, verdict, c)
                 \/ \E c \in Collections : ResolveCopyrightClaim(m, t, verdict, c)
                 \/ \E c \in Collections, video \in Nat :
                       ResolveCidCensorship(m, t, verdict, c, video)
  <1>1. ASSUME NEW c \in Collections, CollectionStep(c)
        PROVE  UNCHANGED <<ticket, paidBy>>
               /\ \/ UNCHANGED collection
                  \/ \E d \in Collections, amount \in MintAmounts :
                        MintCollectionTokens(d, amount)
    BY <1>1 DEF CollectionStep, MintCollectionTokens, BurnUnclaimedTokens, PassDeadline
  <1>2. CASE StakeStep
    BY <1>2 DEF StakeStep
  <1>3. CASE UNCHANGED vars
    BY <1>3 DEF vars
  <1>4. ASSUME NEW t \in Targets, TicketStep(t)
        PROVE  \/ \E type \in TicketTypes, indices \in Seq(Nat),
                     c \in Collections \cup {NoCollection} :
                        CreateTicket(t, type, indices, c)
               \/ \E m \in Moderators, verdict \in BOOLEAN :
                     \/ \E c \in Collections \cup {NoCollection} :
                           ResolveTicket(m, t, verdict, c)
                     \/ \E c \in Collections : ResolveCopyrightClaim(m, t, verdict, c)
                     \/ \E c \in Collections, video \in Nat :
                           ResolveCidCensorship(m, t, verdict, c, video)
    <2>1. ASSUME NEW c \in Collections \cup {NoCollection}, NEW indices \in ClaimIndices,
                 CreateTicket(t, "CopyrightClaim", indices, c)
          PROVE  \E type \in TicketTypes, i \in Seq(Nat),
                    d \in Collections \cup {NoCollection} : CreateTicket(t, type, i, d)
      <3>1. indices \in Seq(Nat) /\ "CopyrightClaim" \in TicketTypes
        BY DEF ModerationAssumption, TicketTypes
      <3> QED BY <2>1, <3>1
    <2>2. ASSUME NEW type \in TicketTypes \ {"CopyrightClaim"},
                 CreateTicket(t, type, <<>>, NoCollection)
          PROVE  \E ty \in TicketTypes, i \in Seq(Nat),
                    d \in Collections \cup {NoCollection} : CreateTicket(t, ty, i, d)
      <3>1. <<>> \in Seq(Nat)
        OBVIOUS
      <3> QED BY <2>2, <3>1
    <2> QED
      BY <1>4, <2>1, <2>2 DEF TicketStep, ModerationAssumption
  <1> QED
    BY <1>1, <1>2, <1>3, <1>4 DEF Next

----------------------------------------------------------------------------
(* Preservation. *)

LEMMA ClaimInit == Init => ClaimInv
  <1> SUFFICES ASSUME Init PROVE ClaimInv
    OBVIOUS
  <1>1. TicketsTyped
    BY DEF Init, TicketsTyped
  <1>2. collection \in [Collections -> CollectionRecord]
    BY DEF Init, CollectionRecord
  <1>3. \A t \in Targets : paidBy[t] = NoCollection
    BY DEF Init
  <1>4. \A c \in Collections : PaidTickets(c) = {}
    BY <1>3, ModerationAssumption DEF PaidTickets, ModerationAssumption
  <1>5. PaidIsResolved /\ PaidIsDisjoint
    BY <1>3, <1>4 DEF PaidIsResolved, PaidIsDisjoint
  <1>6. ClaimedIsPaid
    BY <1>4 DEF Init, ClaimedIsPaid
  <1> QED BY <1>1, <1>2, <1>5, <1>6 DEF ClaimInv

\* A step that pays nobody keeps the claims as they are, as long as the tickets that
\* were paid and the bitmaps stay.
LEMMA QuietStep ==
    ASSUME ClaimInv, paidBy' = paidBy,
           \A t \in Targets : ticket[t].exists /\ ticket[t].resolved =>
                                  ticket'[t] = ticket[t],
           \A c \in Collections : collection'[c].claimed = collection[c].claimed
    PROVE  PaidIsResolved' /\ ClaimedIsPaid' /\ PaidIsDisjoint'
  <1>1. \A c \in Collections : PaidTickets(c)' = PaidTickets(c)
    BY DEF PaidTickets
  <1>2. \A c \in Collections : \A t \in PaidTickets(c) :
            t \in Targets /\ paidBy[t] # NoCollection
    BY ModerationAssumption DEF PaidTickets, ModerationAssumption
  <1>3. \A t \in Targets : paidBy[t] # NoCollection => ticket'[t] = ticket[t]
    BY DEF ClaimInv, PaidIsResolved
  <1>4. \A c \in Collections : \A t \in PaidTickets(c) : Indices(t)' = Indices(t)
    BY <1>2, <1>3 DEF Indices
  <1>5. PaidIsResolved'
    BY <1>3 DEF ClaimInv, PaidIsResolved
  <1>6. PaidIsDisjoint'
    BY <1>1, <1>4 DEF ClaimInv, PaidIsDisjoint
  <1>7. ASSUME NEW c \in Collections
        PROVE  collection'[c].claimed = UNION {Indices(t)' : t \in PaidTickets(c)'}
    <2>1. {Indices(t)' : t \in PaidTickets(c)'} = {Indices(t) : t \in PaidTickets(c)}
      BY <1>1, <1>4
    <2> QED BY <2>1 DEF ClaimInv, ClaimedIsPaid
  <1>8. ClaimedIsPaid'
    BY <1>7 DEF ClaimedIsPaid
  <1> QED BY <1>5, <1>6, <1>8

\* The payment of a claim: its indices are new to the bitmap, hence to every ticket
\* paid before.
LEMMA PayStep ==
    ASSUME ClaimInv, NEW m \in Moderators, NEW t \in Targets, NEW c \in Collections,
           Decide(m, t, TRUE), PayClaim(t, c)
    PROVE  ClaimInv'
  <1>1. /\ ticket' \in [Targets -> TicketRecord \cup {NoTicket}]
        /\ Open(t)
        /\ ticket'[t].exists /\ ticket'[t].resolved
        /\ ticket'[t].claim_indices = ticket[t].claim_indices
        /\ \A u \in Targets \ {t} : ticket'[u] = ticket[u]
    BY DecideFrame DEF ClaimInv
  <1>2. /\ paidBy' = [paidBy EXCEPT ![t] = c]
        /\ paidBy' \in [Targets -> Collections \cup {NoCollection}]
    BY DEF PayClaim, ClaimInv, TicketsTyped
  <1>3. paidBy[t] = NoCollection
    BY <1>1 DEF ClaimInv, PaidIsResolved, Open
  <1>4. \A u \in Targets : Indices(u)' = Indices(u)
    BY <1>1 DEF Indices
  <1>5. /\ PaidTickets(c)' = PaidTickets(c) \cup {t}
        /\ \A d \in Collections \ {c} : PaidTickets(d)' = PaidTickets(d)
        /\ \A d \in Collections : PaidTickets(d) \subseteq Targets \ {t}
    BY <1>2, <1>3, ModerationAssumption
    DEF PaidTickets, ClaimInv, TicketsTyped, ModerationAssumption
  <1>6. Indices(t) \subseteq Nat
    <2>1. ticket[t] \in TicketRecord
      BY <1>1, TicketCases DEF ClaimInv, Open
    <2>2. ticket[t].claim_indices \in Seq(Nat)
      BY <2>1 DEF TicketRecord
    <2> QED BY <2>2 DEF Indices, Range
  <1>7. /\ collection'[c].claimed = collection[c].claimed \cup Indices(t)
        /\ \A d \in Collections \ {c} : collection'[d] = collection[d]
        /\ collection' \in [Collections -> CollectionRecord]
    BY <1>6 DEF PayClaim, ClaimInv, CollectionRecord, Indices
  <1>8. PaidIsResolved'
    BY <1>1, <1>2 DEF ClaimInv, PaidIsResolved
  <1>9. ClaimedIsPaid'
    <2>1. ASSUME NEW d \in Collections
          PROVE  collection'[d].claimed = UNION {Indices(u)' : u \in PaidTickets(d)'}
      <3>1. CASE d = c
        <4> DEFINE before == {Indices(u) : u \in PaidTickets(c)}
                   after  == {Indices(u)' : u \in PaidTickets(c)'}
                   new    == Indices(t)
        <4>1. after = before \cup {new}
          BY <1>4, <1>5
        <4>2. collection[c].claimed = UNION before
          BY DEF ClaimInv, ClaimedIsPaid
        <4>3. collection'[c].claimed = collection[c].claimed \cup new
          BY <1>7
        <4>4. collection'[c].claimed = UNION after
          <5> HIDE DEF before, after, new
          <5>1. UNION after = (UNION before) \cup new
            BY <4>1, UnionOneMore
          <5> QED BY <4>2, <4>3, <5>1
        <4> QED BY <3>1, <4>4
      <3>2. CASE d # c
        <4>1. {Indices(u)' : u \in PaidTickets(d)'} = {Indices(u) : u \in PaidTickets(d)}
          BY <1>4, <1>5, <3>2
        <4> QED BY <1>7, <3>2, <4>1 DEF ClaimInv, ClaimedIsPaid
      <3> QED BY <3>1, <3>2
    <2> QED BY <2>1 DEF ClaimedIsPaid
  <1>10. PaidIsDisjoint'
    <2>1. Indices(t) \cap collection[c].claimed = {}
      BY DEF PayClaim, NotYetClaimed, Indices, Range
    <2>2. \A u \in PaidTickets(c) : Indices(u) \subseteq collection[c].claimed
      BY DEF ClaimInv, ClaimedIsPaid
    <2>3. \A u \in PaidTickets(c) : Indices(t) \cap Indices(u) = {}
      BY <2>1, <2>2
    <2> QED BY <1>4, <1>5, <2>3 DEF ClaimInv, PaidIsDisjoint
  <1> QED BY <1>1, <1>2, <1>7, <1>8, <1>9, <1>10 DEF ClaimInv, TicketsTyped

LEMMA ClaimNext ==
    ASSUME ClaimInv, [Next]_vars
    PROVE  ClaimInv'
  <1>1. ASSUME UNCHANGED <<ticket, paidBy>>, UNCHANGED collection
        PROVE  ClaimInv'
    BY <1>1, QuietStep DEF ClaimInv, TicketsTyped
  <1>2. ASSUME NEW c \in Collections, NEW amount \in MintAmounts,
               MintCollectionTokens(c, amount)
        PROVE  ClaimInv'
    <2>1. /\ collection' \in [Collections -> CollectionRecord]
          /\ \A d \in Collections : collection'[d].claimed = collection[d].claimed
      <3>1. Part(amount, ClaimShare[c]) \in Nat
        <4>1. amount \in Nat /\ ClaimShare[c] \in 0 .. 89
          BY ModerationAssumption DEF ModerationAssumption
        <4>2. amount * ClaimShare[c] \in Nat
          BY <4>1
        <4> QED BY <4>2 DEF Part
      <3> QED BY <1>2, <3>1 DEF MintCollectionTokens, ClaimInv, CollectionRecord
    <2> QED
      BY <1>2, <2>1, QuietStep DEF MintCollectionTokens, ClaimInv, TicketsTyped
  <1>3. ASSUME NEW t \in Targets, NEW type \in TicketTypes, NEW indices \in Seq(Nat),
               NEW c \in Collections \cup {NoCollection},
               CreateTicket(t, type, indices, c)
        PROVE  ClaimInv'
    <2>1. collection' = collection /\ paidBy' = paidBy
      BY <1>3 DEF CreateTicket
    <2>2. /\ TicketsTyped'
          /\ \A u \in Targets : ticket[u].exists => ticket'[u] = ticket[u]
      BY <1>3, CreateFrame DEF ClaimInv
    <2> QED
      BY <2>1, <2>2, QuietStep DEF ClaimInv
  <1>4. ASSUME NEW t \in Targets, NEW m \in Moderators, NEW verdict \in BOOLEAN,
               Decide(m, t, verdict), paidBy' = paidBy,
               collection' \in [Collections -> CollectionRecord],
               \A d \in Collections : collection'[d].claimed = collection[d].claimed
        PROVE  ClaimInv'
    <2>1. /\ ticket' \in [Targets -> TicketRecord \cup {NoTicket}]
          /\ \A u \in Targets : ticket[u].exists /\ ticket[u].resolved =>
                                    ticket'[u] = ticket[u]
      BY <1>4, DecideFrame DEF ClaimInv, Open
    <2>2. TicketsTyped'
      BY <1>4, <2>1 DEF ClaimInv, TicketsTyped
    <2> QED BY <1>4, <2>1, <2>2, QuietStep DEF ClaimInv
  <1>5. ASSUME NEW t \in Targets, NEW m \in Moderators, NEW verdict \in BOOLEAN,
               NEW c \in Collections \cup {NoCollection}, ResolveTicket(m, t, verdict, c)
        PROVE  ClaimInv'
    <2>1. /\ collection' \in [Collections -> CollectionRecord]
          /\ \A d \in Collections : collection'[d].claimed = collection[d].claimed
      <3>1. CASE UNCHANGED collection
        BY <3>1 DEF ClaimInv
      <3>2. CASE /\ c \in Collections
                 /\ collection' = [collection EXCEPT ![c].is_blacklisted = TRUE]
        <4>1. [collection[c] EXCEPT !.is_blacklisted = TRUE] \in CollectionRecord
          BY <3>2 DEF ClaimInv, CollectionRecord
        <4>2. [collection[c] EXCEPT !.is_blacklisted = TRUE].claimed
                = collection[c].claimed
          BY <3>2 DEF ClaimInv, CollectionRecord
        <4> QED BY <3>2, <4>1, <4>2 DEF ClaimInv
      <3> QED BY <1>5, <3>1, <3>2 DEF ResolveTicket
    <2> QED BY <1>4, <1>5, <2>1 DEF ResolveTicket
  <1>6. ASSUME NEW t \in Targets, NEW m \in Moderators, NEW verdict \in BOOLEAN,
               NEW c \in Collections, ResolveCopyrightClaim(m, t, verdict, c)
        PROVE  ClaimInv'
    <2>1. CASE verdict
      BY <1>6, <2>1, PayStep DEF ResolveCopyrightClaim
    <2>2. CASE ~verdict
      BY <1>4, <1>6, <2>2 DEF ResolveCopyrightClaim, ClaimInv
    <2> QED BY <2>1, <2>2
  <1>7. ASSUME NEW t \in Targets, NEW m \in Moderators, NEW verdict \in BOOLEAN,
               NEW c \in Collections, NEW video \in Nat,
               ResolveCidCensorship(m, t, verdict, c, video)
        PROVE  ClaimInv'
    <2>1. CensoredAfter(c, video, verdict) \in SUBSET Nat
      BY DEF CensoredAfter, ClaimInv, CollectionRecord
    <2>2. /\ collection' \in [Collections -> CollectionRecord]
          /\ \A d \in Collections : collection'[d].claimed = collection[d].claimed
      BY <1>7, <2>1 DEF ResolveCidCensorship, ClaimInv, CollectionRecord
    <2> QED BY <1>4, <1>7, <2>2 DEF ResolveCidCensorship
  <1> QED
    BY <1>1, <1>2, <1>3, <1>5, <1>6, <1>7, StepCases, ModerationAssumption

\* However tickets overlap and in whatever order they are decided, no video of a
\* collection is paid for under two of them, and the bitmap knows every paid video.
THEOREM NoVideoInTwoClaims == Spec => []OneClaimPerVideo
  <1>1. ClaimInv => OneClaimPerVideo
    BY DEF ClaimInv, ClaimedIsPaid, PaidIsDisjoint, OneClaimPerVideo, Indices
  <1>2. ClaimInv /\ [Next]_vars => ClaimInv'
    BY ClaimNext
  <1> QED BY ClaimInit, <1>1, <1>2, PTL DEF Spec

\* A ticket that has a verdict keeps it: none of the three resolutions, in any order
\* and by any moderator, decides it again.
THEOREM VerdictsStayFinal == Spec => VerdictsAreFinal
  <1> DEFINE Kept == \A t \in Targets :
                ticket[t].exists /\ ticket[t].resolved => ticket'[t] = ticket[t]
  <1>1. ClaimInv /\ [Next]_vars => Kept
    <2> SUFFICES ASSUME ClaimInv, [Next]_vars PROVE Kept
      OBVIOUS
    <2>1. ASSUME NEW t \in Targets, NEW m \in Moderators, NEW verdict \in BOOLEAN,
                 Decide(m, t, verdict)
          PROVE  Kept
      BY <2>1, DecideFrame DEF ClaimInv, Open
    <2>2. ASSUME NEW t \in Targets, NEW type \in TicketTypes, NEW indices \in Seq(Nat),
                 NEW c \in Collections \cup {NoCollection},
                 CreateTicket(t, type, indices, c)
          PROVE  Kept
      BY <2>2, CreateFrame DEF ClaimInv
    <2> QED
      BY <2>1, <2>2, StepCases, ModerationAssumption
      DEF ResolveTicket, ResolveCopyrightClaim, ResolveCidCensorship
  <1>2. ClaimInv /\ [Next]_vars => ClaimInv'
    BY ClaimNext
  <1> QED BY ClaimInit, <1>1, <1>2, PTL DEF Spec, VerdictsAreFinal

----------------------------------------------------------------------------
(* The moderators' stakes. *)

Stakes == [m \in Moderators |-> moderator_stake[m].stake_amount]

StakeInv == StakeTypeOK /\ StakesBacked

LEMMA StakeStart == StakeInit => StakeInv
  <1> SUFFICES ASSUME StakeInit PROVE StakeInv
    OBVIOUS
  <1>1. StakeTypeOK
    BY ModeratorStakingAssumption DEF StakeInit, StakeTypeOK, ModeratorStakingAssumption
  <1>2. SumOver(staking_vault, Mints) = 0
    <2>1. \A g \in Mints : staking_vault[g] = 0
      BY DEF StakeInit
    <2> QED BY <2>1, SumZero, ModeratorStakingAssumption DEF ModeratorStakingAssumption
  <1>3. SumOver(Stakes, Moderators) = 0
    <2>1. \A m \in Moderators : Stakes[m] = 0
      BY DEF StakeInit, Stakes
    <2> QED BY <2>1, SumZero, ModeratorStakingAssumption DEF ModeratorStakingAssumption
  <1> QED BY <1>1, <1>2, <1>3 DEF StakeInv, StakesBacked, Stakes

\* A deposit or a slash moves one stake and the vault of one mint alike, whichever
\* mint that is.
LEMMA StakeMoves ==
    ASSUME StakeInv, StakeTypeOK', NEW m \in Moderators, NEW g \in Mints,
           \A n \in Moderators \ {m} : moderator_stake'[n] = moderator_stake[n],
           \A h \in Mints \ {g} : staking_vault'[h] = staking_vault[h],
           staking_vault'[g] - staking_vault[g]
               = moderator_stake'[m].stake_amount - moderator_stake[m].stake_amount
    PROVE  StakesBacked'
  <1>1. /\ \A n \in Moderators : Stakes[n] \in Nat /\ Stakes'[n] \in Nat
        /\ \A n \in Moderators \ {m} : Stakes'[n] = Stakes[n]
        /\ Stakes[m] = moderator_stake[m].stake_amount
        /\ Stakes'[m] = moderator_stake'[m].stake_amount
    BY DEF Stakes, StakeInv, StakeTypeOK
  <1>2. SumOver(Stakes', Moderators) = SumOver(Stakes, Moderators) - Stakes[m] + Stakes'[m]
    <2> HIDE DEF Stakes
    <2> QED BY <1>1, SumUpdate, ModeratorStakingAssumption DEF ModeratorStakingAssumption
  <1>3. \A h \in Mints : staking_vault[h] \in Nat /\ staking_vault'[h] \in Nat
    BY DEF StakeInv, StakeTypeOK
  <1>4. SumOver(staking_vault', Mints)
            = SumOver(staking_vault, Mints) - staking_vault[g] + staking_vault'[g]
    BY <1>3, SumUpdate, ModeratorStakingAssumption DEF ModeratorStakingAssumption
  <1>5. SumOver(staking_vault, Mints) \in Nat /\ SumOver(Stakes, Moderators) \in Nat
    BY <1>1, <1>3, SumType, ModeratorStakingAssumption DEF ModeratorStakingAssumption
  <1>6. SumOver(staking_vault, Mints) = SumOver(Stakes, Moderators)
    BY DEF StakeInv, StakesBacked, Stakes
  <1>7. SumOver(staking_vault', Mints) = SumOver(Stakes', Moderators)
    <2> DEFINE v == SumOver(staking_vault, Mints)
               w == SumOver(staking_vault', Mints)
               a == SumOver(Stakes, Moderators)
               b == SumOver(Stakes', Moderators)
    <2>1. /\ v \in Nat /\ a \in Nat /\ v = a
          /\ w = v - staking_vault[g] + staking_vault'[g]
          /\ b = a - Stakes[m] + Stakes'[m]
      BY <1>2, <1>4, <1>5, <1>6
    <2>2. /\ staking_vault[g] \in Nat /\ staking_vault'[g] \in Nat
          /\ Stakes[m] \in Nat /\ Stakes'[m] \in Nat
          /\ staking_vault'[g] - staking_vault[g] = Stakes'[m] - Stakes[m]
      BY <1>1, <1>3
    <2> HIDE DEF v, w, a, b, Stakes
    <2>3. w = b
      BY <2>1, <2>2
    <2> QED BY <2>3 DEF w, b
  <1> QED BY <1>7 DEF StakesBacked, Stakes

LEMMA StakeInvNext ==
    ASSUME StakeInv, StakeNext
    PROVE  StakeInv'
  <1> USE ModeratorStakingAssumption
  <1> DEFINE g == global_state.capgm_mint
             StakeRecord == [stake_amount : Nat, is_active : BOOLEAN, slash_count : Nat]
  <1>1. /\ g \in Mints
        /\ \A m \in Moderators : moderator_stake[m] \in StakeRecord
    BY DEF StakeInv, StakeTypeOK
  <1>2. ASSUME NEW m \in Moderators, NEW amount \in StakeAmounts,
               StakeModerator(m, amount)
        PROVE  StakeInv'
    <2>1. amount \in Nat /\ amount <= capgm[m][g]
      BY <1>2 DEF StakeModerator, ModeratorStakingAssumption
    <2>2. /\ moderator_stake' \in [Moderators -> StakeRecord]
          /\ moderator_stake'[m].stake_amount = moderator_stake[m].stake_amount + amount
          /\ \A n \in Moderators \ {m} : moderator_stake'[n] = moderator_stake[n]
      BY <1>1, <1>2, <2>1 DEF StakeModerator, StakeInv, StakeTypeOK
    <2>3. /\ staking_vault' \in [Mints -> Nat]
          /\ staking_vault'[g] = staking_vault[g] + amount
          /\ \A h \in Mints \ {g} : staking_vault'[h] = staking_vault[h]
      BY <1>1, <1>2, <2>1 DEF StakeModerator, StakeInv, StakeTypeOK
    <2>4. capgm' \in [Moderators -> [Mints -> Nat]]
      <3>1. [capgm[m] EXCEPT ![g] = @ - amount] \in [Mints -> Nat]
        BY <1>1, <2>1 DEF StakeInv, StakeTypeOK
      <3>2. capgm' = [capgm EXCEPT ![m] = [capgm[m] EXCEPT ![g] = @ - amount]]
        BY <1>2 DEF StakeModerator, StakeInv, StakeTypeOK
      <3> QED BY <3>1, <3>2 DEF StakeInv, StakeTypeOK
    <2>5. StakeTypeOK'
      BY <1>2, <2>2, <2>3, <2>4 DEF StakeModerator, StakeInv, StakeTypeOK
    <2>6. staking_vault'[g] - staking_vault[g]
            = moderator_stake'[m].stake_amount - moderator_stake[m].stake_amount
      BY <1>1, <2>1, <2>2, <2>3 DEF StakeInv, StakeTypeOK
    <2>7. StakesBacked'
      BY <1>1, <2>2, <2>3, <2>5, <2>6, StakeMoves
    <2> QED BY <2>5, <2>7 DEF StakeInv
  <1>3. ASSUME NEW m \in Moderators, SlashModerator(m)
        PROVE  StakeInv'
    <2> DEFINE amount == moderator_stake[m].stake_amount
    <2>1. amount \in Nat /\ amount <= staking_vault[g]
      BY <1>1, <1>3 DEF SlashModerator, SlashedAmount
    <2>2. /\ moderator_stake' \in [Moderators -> StakeRecord]
          /\ moderator_stake'[m].stake_amount = 0
          /\ \A n \in Moderators \ {m} : moderator_stake'[n] = moderator_stake[n]
      BY <1>1, <1>3 DEF SlashModerator, AfterSlash, StakeInv, StakeTypeOK
    <2>3. /\ staking_vault' \in [Mints -> Nat]
          /\ staking_vault'[g] = staking_vault[g] - amount
          /\ \A h \in Mints \ {g} : staking_vault'[h] = staking_vault[h]
      BY <1>1, <1>3, <2>1 DEF SlashModerator, SlashedAmount, StakeInv, StakeTypeOK
    <2>4. treasury' \in [Mints -> Nat]
      BY <1>1, <1>3, <2>1 DEF SlashModerator, SlashedAmount, StakeInv, StakeTypeOK
    <2>5. StakeTypeOK'
      BY <1>3, <2>2, <2>3, <2>4 DEF SlashModerator, StakeInv, StakeTypeOK
    <2>6. staking_vault'[g] - staking_vault[g]
            = moderator_stake'[m].stake_amount - moderator_stake[m].stake_amount
      <3>1. staking_vault[g] \in Nat
        BY <1>1 DEF StakeInv, StakeTypeOK
      <3> QED BY <2>1, <2>2, <2>3, <3>1
    <2>7. StakesBacked'
      BY <1>1, <2>2, <2>3, <2>5, <2>6, StakeMoves
    <2> QED BY <2>5, <2>7 DEF StakeInv
  <1>4. ASSUME NEW minimum \in Minimums, NEW mint \in Mints,
               UpdateGlobalState(minimum, mint)
        PROVE  StakeInv'
    BY <1>4 DEF UpdateGlobalState, StakeInv, StakeTypeOK, StakesBacked,
                ModeratorStakingAssumption
  <1>5. CASE DisableGlobalStateUpdates
    BY <1>5 DEF DisableGlobalStateUpdates, StakeInv, StakeTypeOK, StakesBacked
  <1> QED BY <1>2, <1>3, <1>4, <1>5 DEF StakeNext


----------------------------------------------------------------------------
(* The claim vaults. *)

\* Types of the accounts that ClaimInv does not speak of.
VaultsTyped ==
    /\ vault_owner \in [Collections -> VaultOwners]
    /\ claim_vault \in [Collections -> Nat]
    /\ holders \in [Collections -> Nat]
    /\ claimants \in [Collections -> Nat]
    /\ burned \in [Collections -> Nat]
    /\ deadlinePassed \in [Collections -> BOOLEAN]

BitsInBitmap ==
    \A c \in Collections :
        /\ collection[c].claimed \subseteq 0 .. BitmapBits(c) - 1
        /\ collection[c].censored \subseteq 0 .. TotalVideos[c] - 1

Listed(c) == [t \in PaidTickets(c) |-> Len(ticket[t].claim_indices)]

\* Before the mint the vault has no initial amount and nobody was paid: the value of
\* a video is fixed by the mint before the first claim uses it.
UnmintedIsUnpaid ==
    \A c \in Collections :
        ~collection[c].tokens_minted => PaidTickets(c) = {} /\ claimants[c] = 0

VaultInv ==
    /\ ClaimInv
    /\ StakeInv
    /\ VaultsTyped
    /\ BitsInBitmap
    /\ MintAccounted
    /\ UnmintedIsUnpaid
    /\ StableValuePerVideo

Everywhere(c) == holders[c] + claim_vault[c] + claimants[c] + burned[c]

LEMMA NextCases ==
    ASSUME [Next]_vars
    PROVE  \/ \E c \in Collections :
                 \/ \E amount \in MintAmounts : MintCollectionTokens(c, amount)
                 \/ BurnUnclaimedTokens(c)
                 \/ PassDeadline(c)
           \/ \E t \in Targets, type \in TicketTypes, indices \in Seq(Nat),
                 c \in Collections \cup {NoCollection} : CreateTicket(t, type, indices, c)
           \/ \E t \in Targets, m \in Moderators, verdict \in BOOLEAN :
                 \/ \E c \in Collections \cup {NoCollection} :
                       ResolveTicket(m, t, verdict, c)
                 \/ \E c \in Collections : ResolveCopyrightClaim(m, t, verdict, c)
                 \/ \E c \in Collections, video \in Nat :
                       ResolveCidCensorship(m, t, verdict, c, video)
           \/ StakeStep
           \/ UNCHANGED vars
  <1>1. CASE \E t \in Targets : TicketStep(t)
    <2>1. PICK t \in Targets : TicketStep(t)
      BY <1>1
    <2>2. /\ "CopyrightClaim" \in TicketTypes
          /\ ClaimIndices \subseteq Seq(Nat)
          /\ <<>> \in Seq(Nat)
          /\ NoCollection \in Collections \cup {NoCollection}
          /\ Videos \subseteq Nat
      BY ModerationAssumption DEF TicketTypes, ModerationAssumption
    <2>3. CASE \E c \in Collections \cup {NoCollection}, indices \in ClaimIndices :
                  CreateTicket(t, "CopyrightClaim", indices, c)
      BY <2>2, <2>3
    <2>4. CASE \E type \in TicketTypes \ {"CopyrightClaim"} :
                  CreateTicket(t, type, <<>>, NoCollection)
      BY <2>2, <2>4
    <2>5. CASE \E m \in Moderators, verdict \in BOOLEAN :
                \/ \E c \in Collections \cup {NoCollection} :
                      ResolveTicket(m, t, verdict, c)
                \/ \E c \in Collections :
                      \/ ResolveCopyrightClaim(m, t, verdict, c)
                      \/ \E video \in Videos : ResolveCidCensorship(m, t, verdict, c, video)
      BY <2>2, <2>5
    <2> QED BY <2>1, <2>3, <2>4, <2>5 DEF TicketStep
  <1>2. CASE \E c \in Collections : CollectionStep(c)
    BY <1>2 DEF CollectionStep
  <1> QED BY <1>1, <1>2 DEF Next

\* The three parts of a mint are amounts, and the reserve's part takes what
\* truncating left over.
LEMMA MintParts ==
    ASSUME NEW c \in Collections, NEW amount \in MintAmounts
    PROVE  /\ amount \in Nat
           /\ Part(amount, 10) \in Nat
           /\ Part(amount, ClaimShare[c]) \in Nat
           /\ ReserveAmount(c, amount) \in Nat
           /\ Part(amount, 10) + ReserveAmount(c, amount) + Part(amount, ClaimShare[c])
                = amount
  <1> DEFINE k == ClaimShare[c]
             x == amount * 10
             y == amount * k
             z == amount * (90 - k)
  <1>1. amount \in Nat /\ k \in 0 .. 89
    BY ModerationAssumption DEF ModerationAssumption
  <1>2. x \in Nat /\ y \in Nat /\ z \in Nat /\ x + y + z = amount * 100
    <2>1. k \in Nat /\ 90 - k \in Nat
      BY <1>1
    <2>2. x \in Nat /\ y \in Nat /\ z \in Nat
      BY <1>1, <2>1, MulMono
    <2>3. y + z = amount * 90
      BY <1>1
    <2> QED BY <1>1, <2>2, <2>3
  <1> HIDE DEF x, y, z
  <1>3. /\ x \div 100 \in Nat /\ y \div 100 \in Nat /\ z \div 100 \in Nat
        /\ x \div 100 + y \div 100 + z \div 100 <= amount
    BY <1>1, <1>2
  <1>4. /\ Part(amount, 10) = x \div 100
        /\ Part(amount, k) = y \div 100
        /\ Part(amount, 90 - k) = z \div 100
    BY DEF Part, x, y, z
  <1>5. ReserveAmount(c, amount)
          = z \div 100 + (amount - (z \div 100 + x \div 100 + y \div 100))
    BY <1>4 DEF ReserveAmount
  <1> QED BY <1>1, <1>3, <1>4, <1>5

LEMMA VaultStart == Init => VaultInv
  <1> SUFFICES ASSUME Init PROVE VaultInv
    OBVIOUS
  <1>1. ClaimInv /\ StakeInv
    BY ClaimInit, StakeStart DEF Init
  <1>2. VaultsTyped /\ BitsInBitmap
    BY DEF Init, VaultsTyped, BitsInBitmap
  <1>3. MintAccounted
    BY DEF Init, MintAccounted
  <1>4. \A c \in Collections : PaidTickets(c) = {}
    BY ModerationAssumption DEF Init, PaidTickets, ModerationAssumption
  <1>5. UnmintedIsUnpaid
    BY <1>4 DEF Init, UnmintedIsUnpaid
  <1>6. StableValuePerVideo
    <2>1. ASSUME NEW c \in Collections
          PROVE  claimants[c] = (collection[c].claim_vault_initial_amount
                                    \div TotalVideos[c])
                                 * SumOver(Listed(c), PaidTickets(c))
      <3>1. SumOver(Listed(c), PaidTickets(c)) = 0
        BY <1>4, SumOfNobody
      <3>2. claimants[c] = 0 /\ collection[c].claim_vault_initial_amount = 0
        BY DEF Init
      <3>3. TotalVideos[c] \in Nat \ {0}
        BY ModerationAssumption DEF ModerationAssumption
      <3> QED BY <3>1, <3>2, <3>3
    <2> QED BY <2>1 DEF StableValuePerVideo, Listed
  <1> QED BY <1>1, <1>2, <1>3, <1>5, <1>6 DEF VaultInv


(* Preservation. *)

AccountsOK == MintAccounted /\ UnmintedIsUnpaid /\ StableValuePerVideo

\* A paid ticket has its verdict, so a step that respects verdicts does not touch
\* what paid tickets list.
LEMMA PaidListsStay ==
    ASSUME ClaimInv, paidBy' = paidBy,
           \A t \in Targets : ticket[t].exists /\ ticket[t].resolved =>
                                  ticket'[t] = ticket[t]
    PROVE  \A c \in Collections : /\ PaidTickets(c)' = PaidTickets(c)
                                  /\ Listed(c)' = Listed(c)
  <1>1. \A c \in Collections : PaidTickets(c)' = PaidTickets(c)
    BY DEF PaidTickets
  <1>2. \A c \in Collections : \A t \in PaidTickets(c) :
            t \in Targets /\ paidBy[t] # NoCollection
    BY ModerationAssumption DEF PaidTickets, ModerationAssumption
  <1>3. \A c \in Collections : \A t \in PaidTickets(c) : ticket'[t] = ticket[t]
    BY <1>2 DEF ClaimInv, PaidIsResolved
  <1> QED BY <1>1, <1>3 DEF Listed

\* A step that mints nothing and pays nobody moves tokens at most between a vault and
\* the burned ones.
LEMMA QuietAccounts ==
    ASSUME VaultInv, paidBy' = paidBy, claimants' = claimants,
           \A t \in Targets : ticket[t].exists /\ ticket[t].resolved =>
                                  ticket'[t] = ticket[t],
           \A c \in Collections :
              /\ collection'[c].tokens_minted = collection[c].tokens_minted
              /\ collection'[c].claim_vault_initial_amount
                    = collection[c].claim_vault_initial_amount
              /\ Everywhere(c)' = Everywhere(c)
    PROVE  AccountsOK'
  <1>1. \A c \in Collections : /\ PaidTickets(c)' = PaidTickets(c)
                               /\ Listed(c)' = Listed(c)
    BY PaidListsStay DEF VaultInv
  <1>2. MintAccounted'
    BY DEF VaultInv, MintAccounted, Everywhere
  <1>3. UnmintedIsUnpaid'
    BY <1>1 DEF VaultInv, UnmintedIsUnpaid
  <1>4. StableValuePerVideo'
    <2>1. ASSUME NEW c \in Collections
          PROVE  claimants'[c] = (collection'[c].claim_vault_initial_amount
                                    \div TotalVideos[c])
                                  * SumOver(Listed(c)', PaidTickets(c)')
      BY <1>1 DEF VaultInv, StableValuePerVideo, Listed
    <2> QED BY <2>1 DEF StableValuePerVideo, Listed
  <1> QED BY <1>2, <1>3, <1>4 DEF AccountsOK

LEMMA MintStep ==
    ASSUME VaultInv, NEW c \in Collections, NEW amount \in MintAmounts,
           MintCollectionTokens(c, amount)
    PROVE  /\ VaultsTyped' /\ BitsInBitmap' /\ AccountsOK'
  <1> DEFINE toVault == Part(amount, ClaimShare[c])
             toHolders == Part(amount, 10) + ReserveAmount(c, amount)
  <1>1. /\ toVault \in Nat /\ toHolders \in Nat /\ amount \in Nat
        /\ toHolders + toVault = amount
    BY MintParts
  <1>2. /\ holders' = [holders EXCEPT ![c] = @ + Part(amount, 10) + ReserveAmount(c, amount)]
        /\ claim_vault' = [claim_vault EXCEPT ![c] = @ + toVault]
        /\ collection' = [collection EXCEPT ![c].tokens_minted = TRUE,
                                            ![c].claim_vault_initial_amount = toVault]
        /\ ~collection[c].tokens_minted
        /\ UNCHANGED <<ticket, vault_owner, claimants, burned, deadlinePassed, paidBy>>
    BY DEF MintCollectionTokens
  <1>3. /\ holders'[c] = holders[c] + toHolders
        /\ holders' \in [Collections -> Nat]
        /\ claim_vault'[c] = claim_vault[c] + toVault
        /\ claim_vault' \in [Collections -> Nat]
        /\ \A d \in Collections \ {c} :
              holders'[d] = holders[d] /\ claim_vault'[d] = claim_vault[d]
    <2>1. Part(amount, 10) \in Nat /\ ReserveAmount(c, amount) \in Nat
      BY MintParts
    <2> HIDE DEF toVault
    <2> QED BY <1>1, <1>2, <2>1 DEF VaultInv, VaultsTyped
  <1>4. /\ collection'[c].tokens_minted
        /\ collection'[c].claim_vault_initial_amount = toVault
        /\ collection'[c].claimed = collection[c].claimed
        /\ collection'[c].censored = collection[c].censored
        /\ \A d \in Collections \ {c} : collection'[d] = collection[d]
    BY <1>2 DEF VaultInv, ClaimInv, CollectionRecord
  <1>5. VaultsTyped'
    BY <1>2, <1>3 DEF VaultInv, VaultsTyped
  <1>6. BitsInBitmap'
    <2>1. \A d \in Collections : /\ collection'[d].claimed = collection[d].claimed
                                 /\ collection'[d].censored = collection[d].censored
      BY <1>4
    <2> QED BY <2>1 DEF VaultInv, BitsInBitmap, BitmapBits
  <1>7. PaidTickets(c) = {} /\ claimants[c] = 0
    BY <1>2 DEF VaultInv, UnmintedIsUnpaid
  <1>8. \A d \in Collections : /\ PaidTickets(d)' = PaidTickets(d)
                               /\ Listed(d)' = Listed(d)
    BY <1>2 DEF PaidTickets, Listed
  <1>9. MintAccounted'
    <2>1. ASSUME NEW d \in Collections
          PROVE  Everywhere(d)' \in IF collection'[d].tokens_minted THEN MintAmounts ELSE {0}
      <3>1. CASE d = c
        <4>1. /\ holders[c] \in Nat /\ claim_vault[c] \in Nat /\ claimants[c] \in Nat
              /\ burned[c] \in Nat
          BY DEF VaultInv, VaultsTyped
        <4>2. Everywhere(c)' = amount
          <5>1. Everywhere(c)' = holders'[c] + claim_vault'[c] + claimants[c] + burned[c]
            BY <1>2 DEF Everywhere
          <5>2. /\ holders[c] = 0 /\ claim_vault[c] = 0
                /\ claimants[c] = 0 /\ burned[c] = 0
            <6>1. holders[c] + claim_vault[c] + claimants[c] + burned[c] \in {0}
              BY <1>2, Zenon DEF VaultInv, MintAccounted
            <6>2. \A h, v, p, b \in Nat :
                    h + v + p + b \in {0} => h = 0 /\ v = 0 /\ p = 0 /\ b = 0
              OBVIOUS
            <6> QED BY <4>1, <6>1, <6>2, Zenon
          <5>3. holders'[c] = toHolders /\ claim_vault'[c] = toVault
            BY <1>1, <1>3, <5>2
          <5> HIDE DEF toVault, toHolders
          <5>4. holders'[c] + claim_vault'[c] + claimants[c] + burned[c] = amount
            BY <1>1, <5>2, <5>3
          <5> QED BY <5>1, <5>4
        <4> QED BY <1>4, <3>1, <4>2
      <3>2. CASE d # c
        BY <1>2, <1>3, <1>4, <3>2 DEF VaultInv, MintAccounted, Everywhere
      <3> QED BY <3>1, <3>2
    <2> QED BY <2>1 DEF MintAccounted, Everywhere
  <1>10. UnmintedIsUnpaid'
    BY <1>2, <1>4, <1>8 DEF VaultInv, UnmintedIsUnpaid
  <1>11. StableValuePerVideo'
    <2>1. ASSUME NEW d \in Collections
          PROVE  claimants'[d] = (collection'[d].claim_vault_initial_amount
                                    \div TotalVideos[d])
                                  * SumOver(Listed(d)', PaidTickets(d)')
      <3>1. CASE d = c
        <4>1. SumOver(Listed(c)', PaidTickets(c)') = 0
          BY <1>7, <1>8, SumOfNobody
        <4>2. TotalVideos[c] \in Nat \ {0}
          BY ModerationAssumption DEF ModerationAssumption
        <4>3. toVault \div TotalVideos[c] \in Nat
          BY <1>1, <4>2, DivNat
        <4> HIDE DEF toVault
        <4> QED BY <1>2, <1>4, <1>7, <3>1, <4>1, <4>3
      <3>2. CASE d # c
        <4>1. /\ claimants'[d] = claimants[d]
              /\ collection'[d] = collection[d]
              /\ Listed(d)' = Listed(d) /\ PaidTickets(d)' = PaidTickets(d)
          BY <1>2, <1>4, <1>8, <3>2
        <4> QED BY <4>1 DEF VaultInv, StableValuePerVideo, Listed
      <3> QED BY <3>1, <3>2
    <2> QED BY <2>1 DEF StableValuePerVideo, Listed
  <1> QED BY <1>5, <1>6, <1>9, <1>10, <1>11 DEF AccountsOK


\* A payment takes from the vault, for every index the ticket lists, what one video
\* has been worth since the mint.
LEMMA PayAccounts ==
    ASSUME VaultInv, NEW m \in Moderators, NEW t \in Targets, NEW c \in Collections,
           ResolveCopyrightClaim(m, t, TRUE, c)
    PROVE  /\ VaultsTyped' /\ BitsInBitmap' /\ AccountsOK'
  <1> DEFINE n == Len(ticket[t].claim_indices)
             share == PerVideoShare(c)
             payout == Payout(t, c)
  <1>1. /\ Decide(m, t, TRUE) /\ PayClaim(t, c)
        /\ UNCHANGED <<vault_owner, holders, burned, deadlinePassed>>
    BY DEF ResolveCopyrightClaim
  <1>2. /\ Open(t)
        /\ ticket'[t].claim_indices = ticket[t].claim_indices
        /\ \A u \in Targets \ {t} : ticket'[u] = ticket[u]
    BY <1>1, DecideFrame DEF VaultInv, ClaimInv
  <1>3. n \in Nat
    <2>1. ticket[t] \in TicketRecord
      BY <1>2, TicketCases DEF VaultInv, ClaimInv, Open
    <2>2. ticket[t].claim_indices \in Seq(Nat)
      BY <2>1 DEF TicketRecord
    <2> QED BY <2>2
  <1>4. share \in Nat
    <2>1. collection[c].claim_vault_initial_amount \in Nat
      BY DEF VaultInv, ClaimInv, CollectionRecord
    <2>2. TotalVideos[c] \in Nat \ {0}
      BY ModerationAssumption DEF ModerationAssumption
    <2> QED BY <2>1, <2>2, DivNat DEF PerVideoShare
  <1>5. payout = share * n /\ payout \in Nat /\ payout <= claim_vault[c]
    BY <1>1, <1>3, <1>4 DEF Payout, PayClaim
  <1>6. /\ claim_vault' = [claim_vault EXCEPT ![c] = @ - payout]
        /\ claimants' = [claimants EXCEPT ![c] = @ + payout]
        /\ paidBy' = [paidBy EXCEPT ![t] = c]
        /\ collection[c].tokens_minted
    BY <1>1 DEF PayClaim
  <1> HIDE DEF payout, share, n
  <1>7. /\ claim_vault \in [Collections -> Nat] /\ claimants \in [Collections -> Nat]
        /\ claim_vault'[c] = claim_vault[c] - payout
        /\ claimants'[c] = claimants[c] + payout
        /\ claim_vault' \in [Collections -> Nat] /\ claimants' \in [Collections -> Nat]
        /\ \A d \in Collections \ {c} : /\ claim_vault'[d] = claim_vault[d]
                                        /\ claimants'[d] = claimants[d]
    BY <1>5, <1>6 DEF VaultInv, VaultsTyped
  <1>8. VaultsTyped'
    BY <1>1, <1>7 DEF VaultInv, VaultsTyped
  <1>9. /\ collection'[c].tokens_minted = collection[c].tokens_minted
        /\ collection'[c].claim_vault_initial_amount
              = collection[c].claim_vault_initial_amount
        /\ collection'[c].claimed
              = collection[c].claimed \cup Range(ticket[t].claim_indices)
        /\ collection'[c].censored = collection[c].censored
        /\ \A d \in Collections \ {c} : collection'[d] = collection[d]
        /\ Range(ticket[t].claim_indices) \subseteq 0 .. BitmapBits(c) - 1
    BY <1>1 DEF PayClaim, VaultInv, ClaimInv, CollectionRecord
  <1>10. BitsInBitmap'
    BY <1>9 DEF VaultInv, BitsInBitmap, BitmapBits
  <1>11. MintAccounted'
    <2>1. ASSUME NEW d \in Collections
          PROVE  Everywhere(d)' = Everywhere(d)
      <3>1. CASE d = c
        <4>1. holders[c] \in Nat /\ burned[c] \in Nat
          BY DEF VaultInv, VaultsTyped
        <4>2. holders[c] + claim_vault'[c] + claimants'[c] + burned[c]
                = holders[c] + claim_vault[c] + claimants[c] + burned[c]
          BY <1>5, <1>7, <4>1
        <4> QED BY <1>1, <3>1, <4>2 DEF Everywhere
      <3>2. CASE d # c
        BY <1>1, <1>7, <3>2 DEF Everywhere
      <3> QED BY <3>1, <3>2
    <2>2. \A d \in Collections :
             collection'[d].tokens_minted = collection[d].tokens_minted
      BY <1>9
    <2> QED BY <2>1, <2>2 DEF VaultInv, MintAccounted, Everywhere
  <1>12. paidBy[t] = NoCollection
    BY <1>2 DEF VaultInv, ClaimInv, PaidIsResolved, Open
  <1>13. /\ PaidTickets(c)' = PaidTickets(c) \cup {t}
         /\ \A d \in Collections \ {c} : PaidTickets(d)' = PaidTickets(d)
         /\ \A d \in Collections : PaidTickets(d) \subseteq Targets \ {t}
    BY <1>6, <1>12, ModerationAssumption
    DEF PaidTickets, VaultInv, ClaimInv, TicketsTyped, ModerationAssumption
  <1>14. UnmintedIsUnpaid'
    BY <1>6, <1>7, <1>9, <1>13 DEF VaultInv, UnmintedIsUnpaid
  <1>15. \A u \in Targets : ticket'[u].claim_indices = ticket[u].claim_indices
    BY <1>2
  <1>16. ASSUME NEW d \in Collections
         PROVE  \A u \in PaidTickets(d) : Listed(d)[u] \in Nat
    <2>1. ASSUME NEW u \in PaidTickets(d)
          PROVE  Len(ticket[u].claim_indices) \in Nat
      <3>1. u \in Targets /\ paidBy[u] # NoCollection
        BY ModerationAssumption DEF PaidTickets, ModerationAssumption
      <3>2. ticket[u] \in TicketRecord
        BY <3>1, TicketCases DEF VaultInv, ClaimInv, PaidIsResolved
      <3>3. ticket[u].claim_indices \in Seq(Nat)
        BY <3>2 DEF TicketRecord
      <3> QED BY <3>3
    <2> QED BY <2>1 DEF Listed
  <1>17. SumOver(Listed(c)', PaidTickets(c)') = SumOver(Listed(c), PaidTickets(c)) + n
    <2> DEFINE S == PaidTickets(c) \cup {t}
               f == Listed(c)'
    <2>1. IsFiniteSet(S)
      <3>1. S \subseteq Targets
        BY <1>13
      <3> QED BY <3>1, FS_Subset, ModerationAssumption DEF ModerationAssumption
    <2>2. f = [u \in S |-> Len(ticket'[u].claim_indices)]
      BY <1>13 DEF Listed
    <2>3. f[t] = n
      BY <1>2, <2>2 DEF n
    <2>4. \A u \in PaidTickets(c) : f[u] = Listed(c)[u]
      BY <1>13, <1>15, <2>2 DEF Listed
    <2>5. \A u \in S : f[u] \in Nat
      BY <1>3, <1>16, <2>3, <2>4
    <2>6. S \ {t} = PaidTickets(c) /\ t \in S
      BY <1>13
    <2>7. PaidTickets(c)' = S
      BY <1>13
    <2> HIDE DEF f, S
    <2>8. SumOver(f, S) = f[t] + SumOver(f, PaidTickets(c))
          /\ SumOver(f, PaidTickets(c)) \in Nat /\ IsFiniteSet(PaidTickets(c))
      BY <2>1, <2>5, <2>6, SumRemove
    <2>9. SumOver(f, PaidTickets(c)) = SumOver(Listed(c), PaidTickets(c))
      BY <1>16, <2>4, <2>8, SumSame
    <2>10. SumOver(f, S) = SumOver(Listed(c), PaidTickets(c)) + n
      BY <1>3, <2>3, <2>8, <2>9
    <2> QED BY <2>7, <2>10 DEF f
  <1>18. SumOver(Listed(c), PaidTickets(c)) \in Nat
    <2>1. IsFiniteSet(PaidTickets(c))
      <3>1. PaidTickets(c) \subseteq Targets
        BY <1>13
      <3> QED BY <3>1, FS_Subset, ModerationAssumption DEF ModerationAssumption
    <2> QED BY <1>16, <2>1, SumType
  <1>19. StableValuePerVideo'
    <2>1. ASSUME NEW d \in Collections
          PROVE  claimants'[d] = (collection'[d].claim_vault_initial_amount
                                    \div TotalVideos[d])
                                  * SumOver(Listed(d)', PaidTickets(d)')
      <3>1. CASE d = c
        <4>1. claimants[c] = share * SumOver(Listed(c), PaidTickets(c))
          BY DEF share, PerVideoShare, VaultInv, StableValuePerVideo, Listed
        <4>2. share * (SumOver(Listed(c), PaidTickets(c)) + n)
                = share * SumOver(Listed(c), PaidTickets(c)) + share * n
          <5>1. \A k \in Nat : share * (k + n) = share * k + share * n
            BY <1>3, <1>4
          <5> QED BY <1>18, <5>1
        <4>3. claimants'[c] = share * SumOver(Listed(c)', PaidTickets(c)')
          BY <1>5, <1>7, <1>17, <4>1, <4>2
        <4>4. share = collection'[c].claim_vault_initial_amount \div TotalVideos[c]
          BY <1>9 DEF share, PerVideoShare
        <4> QED BY <3>1, <4>3, <4>4
      <3>2. CASE d # c
        <4>1. /\ claimants'[d] = claimants[d]
              /\ collection'[d] = collection[d]
              /\ PaidTickets(d)' = PaidTickets(d)
          BY <1>7, <1>9, <1>13, <3>2
        <4>2. Listed(d)' = Listed(d)
          BY <1>13, <1>15, <4>1 DEF Listed
        <4> QED BY <4>1, <4>2 DEF VaultInv, StableValuePerVideo, Listed
      <3> QED BY <3>1, <3>2
    <2> QED BY <2>1 DEF StableValuePerVideo, Listed
  <1> QED BY <1>8, <1>10, <1>11, <1>14, <1>19 DEF AccountsOK


LEMMA VaultNext ==
    ASSUME VaultInv, [Next]_vars
    PROVE  VaultInv'
  <1>1. ClaimInv'
    BY ClaimNext DEF VaultInv
  <1>2. SUFFICES StakeInv' /\ VaultsTyped' /\ BitsInBitmap' /\ AccountsOK'
    BY <1>1 DEF VaultInv, AccountsOK
  <1>3. ASSUME UNCHANGED stakeVars
        PROVE  StakeInv'
    BY <1>3 DEF stakeVars, VaultInv, StakeInv, StakeTypeOK, StakesBacked
  <1>4. ASSUME UNCHANGED <<collection, vaultVars, deadlinePassed, paidBy>>,
               \A t \in Targets : ticket[t].exists /\ ticket[t].resolved =>
                                      ticket'[t] = ticket[t]
        PROVE  VaultsTyped' /\ BitsInBitmap' /\ AccountsOK'
    <2>1. VaultsTyped' /\ BitsInBitmap'
      BY <1>4 DEF vaultVars, VaultInv, VaultsTyped, BitsInBitmap, BitmapBits
    <2>2. AccountsOK'
      BY <1>4, QuietAccounts DEF vaultVars, Everywhere
    <2> QED BY <2>1, <2>2
  <1>5. ASSUME NEW c \in Collections, NEW amount \in MintAmounts,
               MintCollectionTokens(c, amount)
        PROVE  StakeInv' /\ VaultsTyped' /\ BitsInBitmap' /\ AccountsOK'
    BY <1>3, <1>5, MintStep DEF MintCollectionTokens
  <1>6. ASSUME NEW c \in Collections, BurnUnclaimedTokens(c)
        PROVE  StakeInv' /\ VaultsTyped' /\ BitsInBitmap' /\ AccountsOK'
    <2>1. /\ burned' = [burned EXCEPT ![c] = @ + claim_vault[c]]
          /\ claim_vault' = [claim_vault EXCEPT ![c] = 0]
          /\ UNCHANGED <<stakeVars, ticket, collection, vault_owner, holders,
                         claimants, deadlinePassed, paidBy>>
      BY <1>6 DEF BurnUnclaimedTokens
    <2>2. VaultsTyped' /\ BitsInBitmap'
      BY <2>1 DEF VaultInv, VaultsTyped, BitsInBitmap, BitmapBits
    <2>3. \A d \in Collections : Everywhere(d)' = Everywhere(d)
      <3>1. ASSUME NEW d \in Collections PROVE Everywhere(d)' = Everywhere(d)
        <4>1. /\ holders[d] \in Nat /\ claim_vault[d] \in Nat /\ claimants[d] \in Nat
              /\ burned[d] \in Nat
          BY DEF VaultInv, VaultsTyped
        <4>2. burned'[d] + claim_vault'[d] = burned[d] + claim_vault[d]
          BY <2>1, <4>1 DEF VaultInv, VaultsTyped
        <4>3. burned'[d] \in Nat /\ claim_vault'[d] \in Nat
          BY <2>2 DEF VaultsTyped
        <4> QED BY <2>1, <4>1, <4>2, <4>3 DEF Everywhere
      <3> QED BY <3>1
    <2>4. AccountsOK'
      BY <2>1, <2>3, QuietAccounts
    <2> QED BY <1>3, <2>1, <2>2, <2>4
  <1>7. ASSUME NEW c \in Collections, PassDeadline(c)
        PROVE  StakeInv' /\ VaultsTyped' /\ BitsInBitmap' /\ AccountsOK'
    <2>1. /\ deadlinePassed' = [deadlinePassed EXCEPT ![c] = TRUE]
          /\ UNCHANGED <<stakeVars, ticket, collection, vaultVars, paidBy>>
      BY <1>7 DEF PassDeadline
    <2>2. VaultsTyped' /\ BitsInBitmap'
      BY <2>1 DEF vaultVars, VaultInv, VaultsTyped, BitsInBitmap, BitmapBits
    <2>3. AccountsOK'
      BY <2>1, QuietAccounts DEF vaultVars, Everywhere
    <2> QED BY <1>3, <2>1, <2>2, <2>3
  <1>8. ASSUME NEW t \in Targets, NEW type \in TicketTypes, NEW indices \in Seq(Nat),
               NEW c \in Collections \cup {NoCollection}, CreateTicket(t, type, indices, c)
        PROVE  StakeInv' /\ VaultsTyped' /\ BitsInBitmap' /\ AccountsOK'
    <2>1. \A u \in Targets : ticket[u].exists /\ ticket[u].resolved =>
                                 ticket'[u] = ticket[u]
      BY <1>8, CreateFrame DEF VaultInv, ClaimInv
    <2> QED BY <1>3, <1>4, <1>8, <2>1 DEF CreateTicket
  <1>9. ASSUME NEW t \in Targets, NEW m \in Moderators, NEW verdict \in BOOLEAN,
               Decide(m, t, verdict)
        PROVE  \A u \in Targets : ticket[u].exists /\ ticket[u].resolved =>
                                      ticket'[u] = ticket[u]
    BY <1>9, DecideFrame DEF VaultInv, ClaimInv, Open
  <1>10. ASSUME NEW t \in Targets, NEW m \in Moderators, NEW verdict \in BOOLEAN,
                NEW c \in Collections \cup {NoCollection}, ResolveTicket(m, t, verdict, c)
         PROVE  StakeInv' /\ VaultsTyped' /\ BitsInBitmap' /\ AccountsOK'
    <2>1. UNCHANGED <<stakeVars, vaultVars, deadlinePassed, paidBy>>
      BY <1>10 DEF ResolveTicket
    <2>2. \A d \in Collections :
             /\ collection'[d].tokens_minted = collection[d].tokens_minted
             /\ collection'[d].claim_vault_initial_amount
                   = collection[d].claim_vault_initial_amount
             /\ collection'[d].claimed = collection[d].claimed
             /\ collection'[d].censored = collection[d].censored
      BY <1>10 DEF ResolveTicket, VaultInv, ClaimInv, CollectionRecord
    <2>3. VaultsTyped' /\ BitsInBitmap'
      BY <2>1, <2>2 DEF vaultVars, VaultInv, VaultsTyped, BitsInBitmap, BitmapBits
    <2>4. AccountsOK'
      BY <1>9, <1>10, <2>1, <2>2, QuietAccounts DEF ResolveTicket, vaultVars, Everywhere
    <2> QED BY <1>3, <2>1, <2>3, <2>4
  <1>11. ASSUME NEW t \in Targets, NEW m \in Moderators, NEW verdict \in BOOLEAN,
                NEW c \in Collections, ResolveCopyrightClaim(m, t, verdict, c)
         PROVE  StakeInv' /\ VaultsTyped' /\ BitsInBitmap' /\ AccountsOK'
    <2>1. UNCHANGED stakeVars
      BY <1>11 DEF ResolveCopyrightClaim
    <2>2. CASE verdict = TRUE
      BY <1>3, <1>11, <2>1, <2>2, PayAccounts
    <2>3. CASE verdict = FALSE
      BY <1>3, <1>4, <1>9, <1>11, <2>1, <2>3 DEF ResolveCopyrightClaim, vaultVars
    <2> QED BY <2>2, <2>3
  <1>12. ASSUME NEW t \in Targets, NEW m \in Moderators, NEW verdict \in BOOLEAN,
                NEW c \in Collections, NEW video \in Nat,
                ResolveCidCensorship(m, t, verdict, c, video)
         PROVE  StakeInv' /\ VaultsTyped' /\ BitsInBitmap' /\ AccountsOK'
    <2>1. UNCHANGED <<stakeVars, vaultVars, deadlinePassed, paidBy>>
      BY <1>12 DEF ResolveCidCensorship
    <2>2. /\ \A d \in Collections :
                /\ collection'[d].tokens_minted = collection[d].tokens_minted
                /\ collection'[d].claim_vault_initial_amount
                      = collection[d].claim_vault_initial_amount
                /\ collection'[d].claimed = collection[d].claimed
          /\ \A d \in Collections \ {c} : collection'[d] = collection[d]
          /\ collection'[c].censored = CensoredAfter(c, video, verdict)
      BY <1>12 DEF ResolveCidCensorship, VaultInv, ClaimInv, CollectionRecord
    <2>3. CensoredAfter(c, video, verdict) \subseteq 0 .. TotalVideos[c] - 1
      <3>1. video < TotalVideos[c] /\ TotalVideos[c] \in Nat
        BY <1>12, ModerationAssumption DEF ResolveCidCensorship, IsVideo,
                                           ModerationAssumption
      <3>2. video \in 0 .. TotalVideos[c] - 1
        BY <3>1
      <3> QED BY <3>2 DEF VaultInv, BitsInBitmap, CensoredAfter
    <2>4. VaultsTyped' /\ BitsInBitmap'
      BY <2>1, <2>2, <2>3 DEF vaultVars, VaultInv, VaultsTyped, BitsInBitmap, BitmapBits
    <2>5. AccountsOK'
      BY <1>9, <1>12, <2>1, <2>2, QuietAccounts
      DEF ResolveCidCensorship, vaultVars, Everywhere
    <2> QED BY <1>3, <2>1, <2>4, <2>5
  <1>13. CASE StakeStep
    <2>1. StakeInv'
      BY <1>13, StakeInvNext DEF StakeStep, VaultInv
    <2> QED BY <1>4, <1>13, <2>1 DEF StakeStep
  <1>14. CASE UNCHANGED vars
    BY <1>3, <1>4, <1>14 DEF vars
  <1> QED BY <1>5, <1>6, <1>7, <1>8, <1>10, <1>11, <1>12, <1>13, <1>14, NextCases

LEMMA VaultAlways == Spec => []VaultInv
  <1>1. VaultInv /\ [Next]_vars => VaultInv'
    BY VaultNext
  <1> QED BY VaultStart, <1>1, PTL DEF Spec

\* Accounts keep their types through every instruction of the program; no claim sets a
\* bit outside the bitmap and no verdict censors a video the collection does not have.
THEOREM TypeCorrect == Spec => []TypeOK
  <1>1. VaultInv => TypeOK
    BY DEF VaultInv, ClaimInv, TicketsTyped, StakeInv, VaultsTyped, BitsInBitmap, TypeOK,
           CollectionRecord
  <1> QED BY VaultAlways, <1>1, PTL

\* However much is claimed, and whenever the rest is burned, every token minted is
\* with its holders, in the claim vault, with the claimants or burned.
THEOREM MintAlwaysAccounted == Spec => []MintAccounted
  BY VaultAlways, PTL DEF VaultInv

\* All claims of a collection are paid the same for each index they list, whatever was
\* claimed before: the payout divides the initial amount and not what is left.
THEOREM VideoValueIsStable == Spec => []StableValuePerVideo
  BY VaultAlways, PTL DEF VaultInv

\* The vaults of all mints together hold what the moderators' stakes record, although
\* a stake and its slash may go through different vaults.
THEOREM StakesAlwaysBacked == Spec => []StakesBacked
  BY VaultAlways, PTL DEF VaultInv, StakeInv


\* A video is claimed, censored or cleared, a collection blacklisted and a vault paid
\* out only in the step in which a moderator decides a ticket of the type that says so:
\* no other instruction, and no verdict on another type of ticket, has these effects.
THEOREM EffectsNeedVerdicts == Spec => EffectsFollowVerdicts
  <1> DEFINE Same(c) == /\ collection'[c].claimed = collection[c].claimed
                        /\ collection'[c].censored = collection[c].censored
                        /\ collection'[c].is_blacklisted = collection[c].is_blacklisted
                        /\ claimants'[c] = claimants[c]
  <1>1. VaultInv /\ [Next]_vars => \A c \in Collections : EffectsFollow(c)
    <2> SUFFICES ASSUME VaultInv, [Next]_vars PROVE \A c \in Collections : EffectsFollow(c)
      OBVIOUS
    <2>1. ASSUME NEW c \in Collections, Same(c) PROVE EffectsFollow(c)
      BY <2>1 DEF EffectsFollow
    <2>2. /\ collection \in [Collections -> CollectionRecord]
          /\ claimants \in [Collections -> Nat]
      BY DEF VaultInv, ClaimInv, VaultsTyped
    <2>3. ASSUME NEW t \in Targets, NEW m \in Moderators, NEW verdict \in BOOLEAN,
                 Decide(m, t, verdict)
          PROVE  DecidedAs(ticket[t].ticket_type, verdict)
      BY <2>3, DecideFrame DEF VaultInv, ClaimInv, DecidedNow, DecidedAs
    <2>4. ASSUME NEW c \in Collections, NEW amount \in MintAmounts,
                 MintCollectionTokens(c, amount), NEW d \in Collections
          PROVE  Same(d)
      BY <2>2, <2>4 DEF MintCollectionTokens, CollectionRecord
    <2>5. ASSUME NEW t \in Targets, NEW m \in Moderators, NEW verdict \in BOOLEAN,
                 NEW c \in Collections \cup {NoCollection},
                 ResolveTicket(m, t, verdict, c), NEW d \in Collections
          PROVE  EffectsFollow(d)
      <3>1. /\ collection'[d].claimed = collection[d].claimed
            /\ collection'[d].censored = collection[d].censored
            /\ claimants'[d] = claimants[d]
        BY <2>2, <2>5 DEF ResolveTicket, vaultVars, CollectionRecord
      <3>2. CASE ticket[t].ticket_type = "ContentReport" /\ verdict
        <4>1. DecidedAs("ContentReport", TRUE)
          BY <2>3, <2>5, <3>2 DEF ResolveTicket
        <4> QED BY <3>1, <4>1 DEF EffectsFollow
      <3>3. CASE ~(ticket[t].ticket_type = "ContentReport" /\ verdict)
        <4>1. collection' = collection
          BY <2>5, <3>3 DEF ResolveTicket
        <4> QED BY <3>1, <4>1 DEF EffectsFollow
      <3> QED BY <3>2, <3>3
    <2>6. ASSUME NEW t \in Targets, NEW m \in Moderators, NEW verdict \in BOOLEAN,
                 NEW c \in Collections, ResolveCopyrightClaim(m, t, verdict, c),
                 NEW d \in Collections
          PROVE  EffectsFollow(d)
      <3>1. CASE verdict = TRUE
        <4>1. /\ collection'[d].censored = collection[d].censored
              /\ collection'[d].is_blacklisted = collection[d].is_blacklisted
          <5>1. collection' = [collection EXCEPT ![c].claimed =
                                  @ \cup Range(ticket[t].claim_indices)]
            BY <2>6, <3>1 DEF ResolveCopyrightClaim, PayClaim
          <5> DEFINE added == Range(ticket[t].claim_indices)
          <5> HIDE DEF added
          <5> QED BY <2>2, <5>1 DEF CollectionRecord, added
        <4>2. DecidedAs("CopyrightClaim", TRUE)
          BY <2>3, <2>6, <3>1 DEF ResolveCopyrightClaim, IsOfType
        <4> QED BY <4>1, <4>2 DEF EffectsFollow
      <3>2. CASE verdict = FALSE
        BY <2>1, <2>6, <3>2 DEF ResolveCopyrightClaim
      <3> QED BY <3>1, <3>2
    <2>7. ASSUME NEW t \in Targets, NEW m \in Moderators, NEW verdict \in BOOLEAN,
                 NEW c \in Collections, NEW video \in Nat,
                 ResolveCidCensorship(m, t, verdict, c, video), NEW d \in Collections
          PROVE  EffectsFollow(d)
      <3>1. /\ collection'[d].claimed = collection[d].claimed
            /\ collection'[d].is_blacklisted = collection[d].is_blacklisted
            /\ claimants'[d] = claimants[d]
            /\ d # c => collection'[d] = collection[d]
            /\ collection'[c].censored = CensoredAfter(c, video, verdict)
        BY <2>2, <2>7 DEF ResolveCidCensorship, vaultVars, CollectionRecord
      <3>2. DecidedAs("CidCensorship", verdict)
        BY <2>3, <2>7 DEF ResolveCidCensorship, IsOfType
      <3>3. /\ collection'[d].censored \ collection[d].censored # {} => verdict = TRUE
            /\ collection[d].censored \ collection'[d].censored # {} => verdict = FALSE
        BY <3>1 DEF CensoredAfter
      <3> QED BY <3>1, <3>2, <3>3 DEF EffectsFollow
    <2>8. CASE UNCHANGED <<collection, claimants>>
      BY <2>1, <2>8
    <2> QED
      BY <2>1, <2>4, <2>5, <2>6, <2>7, <2>8, NextCases
      DEF BurnUnclaimedTokens, PassDeadline, CreateTicket, StakeStep, vars, vaultVars
  <1> QED BY VaultAlways, <1>1, PTL DEF Spec, EffectsFollowVerdicts

----------------------------------------------------------------------------
(* What makes a claim vault short. *)

\* The claim lists each video at most once, and no bit of c's bitmap that is past
\* its last video.
ListsVideosOnce(t, c) ==
    LET list == ticket[t].claim_indices
    IN  /\ \A i, j \in DOMAIN list : list[i] = list[j] => i = j
        /\ Range(list) \subseteq 0 .. TotalVideos[c] - 1

\* Until the burn the vault and the claimants together have what the mint gave the
\* vault: nothing else draws on it.
VaultKeepsTheRest ==
    \A c \in Collections :
        burned[c] = 0 =>
            claim_vault[c] + claimants[c] = collection[c].claim_vault_initial_amount

\* Before the burn a vault that cannot pay a share for every unclaimed video has paid
\* a claim with a repeated index or with an index past the collection's videos.
ShortVaultsHaveACause ==
    \A c \in Collections :
        burned[c] = 0 /\ (\A t \in PaidTickets(c) : ListsVideosOnce(t, c)) =>
            claim_vault[c] >=
                PerVideoShare(c)
                * Cardinality((0 .. TotalVideos[c] - 1) \ collection[c].claimed)

LEMMA RestStart == Init => VaultKeepsTheRest
  BY DEF Init, VaultKeepsTheRest

LEMMA RestNext ==
    ASSUME VaultInv, VaultKeepsTheRest, [Next]_vars
    PROVE  VaultKeepsTheRest'
  <1> DEFINE Same(d) ==
        /\ collection'[d].claim_vault_initial_amount
              = collection[d].claim_vault_initial_amount
        /\ claim_vault'[d] = claim_vault[d]
        /\ claimants'[d] = claimants[d]
        /\ burned'[d] = burned[d]
  <1>1. ASSUME \A d \in Collections : Same(d) PROVE VaultKeepsTheRest'
    BY <1>1 DEF VaultKeepsTheRest
  <1>2. /\ collection \in [Collections -> CollectionRecord]
        /\ claim_vault \in [Collections -> Nat] /\ claimants \in [Collections -> Nat]
        /\ burned \in [Collections -> Nat] /\ holders \in [Collections -> Nat]
    BY DEF VaultInv, ClaimInv, VaultsTyped
  <1>3. ASSUME NEW c \in Collections, NEW amount \in MintAmounts,
               MintCollectionTokens(c, amount)
        PROVE  VaultKeepsTheRest'
    <2> DEFINE toVault == Part(amount, ClaimShare[c])
    <2>1. toVault \in Nat
      BY MintParts
    <2>2. /\ claim_vault' = [claim_vault EXCEPT ![c] = @ + toVault]
          /\ collection' = [collection EXCEPT ![c].tokens_minted = TRUE,
                                              ![c].claim_vault_initial_amount = toVault]
          /\ ~collection[c].tokens_minted
          /\ UNCHANGED <<claimants, burned>>
      BY <1>3 DEF MintCollectionTokens
    <2>3. claim_vault[c] = 0 /\ claimants[c] = 0
      <3>1. holders[c] + claim_vault[c] + claimants[c] + burned[c] \in {0}
        BY <2>2, Zenon DEF VaultInv, MintAccounted
      <3>2. \A h, v, p, b \in Nat : h + v + p + b \in {0} => v = 0 /\ p = 0
        OBVIOUS
      <3>3. /\ holders[c] \in Nat /\ claim_vault[c] \in Nat /\ claimants[c] \in Nat
            /\ burned[c] \in Nat
        BY <1>2
      <3> QED BY <3>1, <3>2, <3>3, Zenon
    <2> HIDE DEF toVault
    <2>4. /\ claim_vault'[c] + claimants'[c] = toVault
          /\ collection'[c].claim_vault_initial_amount = toVault
      BY <1>2, <2>1, <2>2, <2>3 DEF CollectionRecord
    <2>5. \A d \in Collections \ {c} : Same(d)
      BY <1>2, <2>2 DEF CollectionRecord
    <2> QED BY <2>4, <2>5 DEF VaultKeepsTheRest
  <1>4. ASSUME NEW c \in Collections, BurnUnclaimedTokens(c)
        PROVE  VaultKeepsTheRest'
    <2>1. burned'[c] # 0
      BY <1>2, <1>4 DEF BurnUnclaimedTokens
    <2>2. \A d \in Collections \ {c} : Same(d)
      BY <1>2, <1>4 DEF BurnUnclaimedTokens
    <2> QED BY <2>1, <2>2 DEF VaultKeepsTheRest
  <1>5. ASSUME NEW t \in Targets, NEW m \in Moderators, NEW verdict \in BOOLEAN,
               NEW c \in Collections, ResolveCopyrightClaim(m, t, verdict, c)
        PROVE  VaultKeepsTheRest'
    <2>1. CASE verdict = TRUE
      <3> DEFINE payout == Payout(t, c)
                 added == Range(ticket[t].claim_indices)
      <3>1. /\ claim_vault' = [claim_vault EXCEPT ![c] = @ - payout]
            /\ claimants' = [claimants EXCEPT ![c] = @ + payout]
            /\ collection' = [collection EXCEPT ![c].claimed = @ \cup added]
            /\ burned' = burned
        BY <1>5, <2>1 DEF ResolveCopyrightClaim, PayClaim
      <3>2. payout \in Int
        <4>1. ticket[t] \in TicketRecord
          BY <1>5, TicketCases DEF ResolveCopyrightClaim, Decide, Open, VaultInv, ClaimInv
        <4>2. Len(ticket[t].claim_indices) \in Nat
          BY <4>1 DEF TicketRecord
        <4>3. PerVideoShare(c) \in Nat
          BY <1>2, ModerationAssumption, DivNat
          DEF ModerationAssumption, PerVideoShare, CollectionRecord
        <4> QED BY <4>2, <4>3, MulMono DEF Payout
      <3> HIDE DEF payout, added
      <3>3. \A d \in Collections :
               /\ collection'[d].claim_vault_initial_amount
                     = collection[d].claim_vault_initial_amount
               /\ claim_vault'[d] + claimants'[d] = claim_vault[d] + claimants[d]
               /\ burned'[d] = burned[d]
        BY <1>2, <3>1, <3>2 DEF CollectionRecord
      <3> QED BY <3>3 DEF VaultKeepsTheRest
    <2>2. CASE verdict = FALSE
      BY <1>1, <1>5, <2>2 DEF ResolveCopyrightClaim
    <2> QED BY <2>1, <2>2
  <1>6. ASSUME NEW t \in Targets, NEW m \in Moderators, NEW verdict \in BOOLEAN,
               NEW c \in Collections \cup {NoCollection},
               ResolveTicket(m, t, verdict, c)
        PROVE  VaultKeepsTheRest'
    <2>1. \A d \in Collections : Same(d)
      BY <1>2, <1>6 DEF ResolveTicket, vaultVars, CollectionRecord
    <2> QED BY <1>1, <2>1
  <1>7. ASSUME NEW t \in Targets, NEW m \in Moderators, NEW verdict \in BOOLEAN,
               NEW c \in Collections, NEW video \in Nat,
               ResolveCidCensorship(m, t, verdict, c, video)
        PROVE  VaultKeepsTheRest'
    <2>1. \A d \in Collections : Same(d)
      BY <1>2, <1>7 DEF ResolveCidCensorship, vaultVars, CollectionRecord
    <2> QED BY <1>1, <2>1
  <1>8. CASE UNCHANGED <<collection, claim_vault, claimants, burned>>
    BY <1>1, <1>8
  <1> HIDE DEF Same
  <1> QED
    BY <1>3, <1>4, <1>5, <1>6, <1>7, <1>8, NextCases
    DEF PassDeadline, CreateTicket, StakeStep, vars, vaultVars

LEMMA RestAlways == Spec => [](VaultInv /\ VaultKeepsTheRest)
  <1>1. Init => VaultInv /\ VaultKeepsTheRest
    BY VaultStart, RestStart
  <1>2. VaultInv /\ VaultKeepsTheRest /\ [Next]_vars => (VaultInv /\ VaultKeepsTheRest)'
    BY VaultNext, RestNext
  <1> QED BY <1>1, <1>2, PTL DEF Spec

\* When no claim repeats an index, each entry of each paid list is the claim of
\* another video: as many bits are set as entries were paid for.
LEMMA ClaimedCounted ==
    ASSUME VaultInv, NEW c \in Collections,
           \A t \in PaidTickets(c) : ListsVideosOnce(t, c)
    PROVE  /\ IsFiniteSet(collection[c].claimed)
           /\ Cardinality(collection[c].claimed) = SumOver(Listed(c), PaidTickets(c))
  <1> DEFINE Paid == PaidTickets(c)
             Entries == TokensOf(Listed(c), Paid)
             video == [e \in Entries |-> ticket[e[1]].claim_indices[e[2]]]
  <1>1. IsFiniteSet(Paid)
    BY ModerationAssumption, FS_Subset DEF ModerationAssumption, PaidTickets
  <1>2. ASSUME NEW t \in Paid
        PROVE  /\ ticket[t].claim_indices \in Seq(Nat)
               /\ Listed(c)[t] = Len(ticket[t].claim_indices)
               /\ Listed(c)[t] \in Nat
               /\ DOMAIN ticket[t].claim_indices = 1 .. Listed(c)[t]
    <2>1. t \in Targets /\ paidBy[t] # NoCollection
      BY ModerationAssumption DEF PaidTickets, ModerationAssumption
    <2>2. ticket[t] \in TicketRecord
      BY <2>1, TicketCases DEF VaultInv, ClaimInv, PaidIsResolved
    <2>3. ticket[t].claim_indices \in Seq(Nat)
      BY <2>2 DEF TicketRecord
    <2> QED BY <2>3 DEF Listed
  <1>3. \A e : e \in Entries <=>
                 \E t \in Paid : \E i \in DOMAIN ticket[t].claim_indices : e = <<t, i>>
    BY <1>2 DEF TokensOf
  <1>4. \A x : x \in collection[c].claimed <=>
                 \E t \in Paid : \E i \in DOMAIN ticket[t].claim_indices :
                    x = ticket[t].claim_indices[i]
    BY DEF VaultInv, ClaimInv, ClaimedIsPaid, Indices, Range
  <1>5. video \in Bijection(Entries, collection[c].claimed)
    <2>1. video \in [Entries -> collection[c].claimed]
      BY <1>3, <1>4
    <2>2. ASSUME NEW d \in Entries, NEW e \in Entries, video[d] = video[e]
          PROVE  d = e
      <3>1. PICK t \in Paid : \E i \in DOMAIN ticket[t].claim_indices : d = <<t, i>>
        BY <1>3
      <3>2. PICK i \in DOMAIN ticket[t].claim_indices : d = <<t, i>>
        BY <3>1
      <3>3. PICK u \in Paid : \E j \in DOMAIN ticket[u].claim_indices : e = <<u, j>>
        BY <1>3
      <3>4. PICK j \in DOMAIN ticket[u].claim_indices : e = <<u, j>>
        BY <3>3
      <3>5. ticket[t].claim_indices[i] = ticket[u].claim_indices[j]
        BY <2>2, <3>2, <3>4
      <3>6. t = u
        <4>1. ticket[t].claim_indices[i] \in Indices(t)
          BY DEF Indices, Range
        <4>2. ticket[u].claim_indices[j] \in Indices(u)
          BY DEF Indices, Range
        <4> QED BY <3>5, <4>1, <4>2 DEF VaultInv, ClaimInv, PaidIsDisjoint
      <3>7. i = j
        BY <3>5, <3>6 DEF ListsVideosOnce
      <3> QED BY <3>2, <3>4, <3>6, <3>7
    <2>3. ASSUME NEW x \in collection[c].claimed
          PROVE  \E e \in Entries : video[e] = x
      <3>1. PICK t \in Paid : \E i \in DOMAIN ticket[t].claim_indices :
                                 x = ticket[t].claim_indices[i]
        BY <1>4
      <3>2. PICK i \in DOMAIN ticket[t].claim_indices : x = ticket[t].claim_indices[i]
        BY <3>1
      <3>3. <<t, i>> \in Entries
        BY <1>3
      <3>4. video[<<t, i>>] = x
        <4> DEFINE e == <<t, i>>
        <4>1. video[e] = ticket[e[1]].claim_indices[e[2]]
          BY <3>3
        <4>2. e[1] = t /\ e[2] = i
          OBVIOUS
        <4>3. video[e] = x
          <5> HIDE DEF e, video
          <5> QED BY <3>2, <4>1, <4>2
        <4> QED BY <4>3
      <3> QED BY <3>3, <3>4
    <2> HIDE DEF video, Entries
    <2> QED BY <2>1, <2>2, <2>3 DEF Bijection, Injection, IsInjective, Surjection
  <1>6. IsFiniteSet(Entries)
    BY <1>1, <1>2, TokensStep
  <1>7. SumOver(Listed(c), Paid) = Cardinality(Entries)
    BY <1>1, <1>2, SumIsCount
  <1>8. ExistsBijection(Entries, collection[c].claimed)
    BY <1>5 DEF ExistsBijection
  <1> HIDE DEF Entries
  <1> QED BY <1>6, <1>7, <1>8, FS_Bijection

\* Only two kinds of claim can leave a vault without the share of a video nobody has
\* claimed: one that lists an index twice, which is paid twice, and one whose indices
\* reach into the bits of the bitmap past the last video, which is paid for no video.
\* Without them the vault has, until the burn, a share for every unclaimed video after
\* any sequence of claims.
THEOREM ShortVaultsAreExplained == Spec => []ShortVaultsHaveACause
  <1>1. ASSUME VaultInv, VaultKeepsTheRest PROVE ShortVaultsHaveACause
    <2> SUFFICES ASSUME NEW c \in Collections, burned[c] = 0,
                        \A t \in PaidTickets(c) : ListsVideosOnce(t, c)
                 PROVE  claim_vault[c] >=
                          PerVideoShare(c)
                          * Cardinality((0 .. TotalVideos[c] - 1) \ collection[c].claimed)
      BY DEF ShortVaultsHaveACause
    <2> DEFINE share == PerVideoShare(c)
               initial == collection[c].claim_vault_initial_amount
               total == TotalVideos[c]
               claimed == collection[c].claimed
               n == Cardinality(claimed)
               rest == Cardinality((0 .. total - 1) \ claimed)
    <2>1. total \in Nat \ {0} /\ initial \in Nat
      BY <1>1, ModerationAssumption
      DEF ModerationAssumption, VaultInv, ClaimInv, CollectionRecord
    <2>2. share \in Nat /\ share * total <= initial
      BY <2>1, DivNat DEF PerVideoShare
    <2>3. IsFiniteSet(claimed) /\ n = SumOver(Listed(c), PaidTickets(c))
      BY <1>1, ClaimedCounted
    <2>4. n + rest = total /\ n \in Nat /\ rest \in Nat
      <3> DEFINE unclaimed == (0 .. total - 1) \ claimed
      <3>1. claimed \subseteq 0 .. total - 1
        <4>1. claimed = UNION {Indices(t) : t \in PaidTickets(c)}
          BY <1>1 DEF VaultInv, ClaimInv, ClaimedIsPaid
        <4> HIDE DEF claimed, total
        <4> QED BY <4>1 DEF ListsVideosOnce, Indices, total
      <3>2. IsFiniteSet(0 .. total - 1) /\ Cardinality(0 .. total - 1) = total
        BY <2>1, FS_Interval
      <3>3. IsFiniteSet(unclaimed)
        BY <3>2, FS_Subset
      <3>4. claimed \cup unclaimed = 0 .. total - 1 /\ claimed \cap unclaimed = {}
        BY <3>1
      <3>5. Cardinality(claimed \cup unclaimed)
              = n + Cardinality(unclaimed) - Cardinality(claimed \cap unclaimed)
        BY <2>3, <3>3, FS_Union
      <3>6. Cardinality(claimed \cap unclaimed) = 0
        BY <3>4, FS_EmptySet
      <3>7. n \in Nat /\ Cardinality(unclaimed) \in Nat
        BY <2>3, <3>3, FS_CardinalityType
      <3>8. Cardinality(claimed \cup unclaimed) = total
        BY <3>2, <3>4
      <3>9. rest = Cardinality(unclaimed)
        OBVIOUS
      <3> HIDE DEF unclaimed, n, rest, total, claimed
      <3> QED BY <3>5, <3>6, <3>7, <3>8, <3>9
    <2>5. claimants[c] = share * n
      BY <1>1, <2>3 DEF VaultInv, StableValuePerVideo, PerVideoShare, Listed
    <2>6. claim_vault[c] + claimants[c] = initial
      BY <1>1 DEF VaultKeepsTheRest
    <2>7. claim_vault[c] \in Nat
      BY <1>1 DEF VaultInv, VaultsTyped
    <2>8. claim_vault[c] >= share * rest
      <3> HIDE DEF share, initial, total, n, rest
      <3>1. share * n + share * rest = share * total
        <4>1. \A a, b \in Nat : share * a + share * b = share * (a + b)
          BY <2>2
        <4> QED BY <2>4, <4>1
      <3>2. share * n \in Nat /\ share * rest \in Nat /\ share * total \in Nat
        BY <2>1, <2>2, <2>4, MulMono
      <3> QED BY <2>1, <2>2, <2>5, <2>6, <2>7, <3>1, <3>2
    <2> QED BY <2>8
  <1> QED BY RestAlways, <1>1, PTL

=============================================================================
