---------------------------- MODULE AccessEscrow ----------------------------
(***************************************************************************)
(* The access escrows of one collection (instructions/access.rs), the      *)
(* peers' trust accounts and the hosts registered in pinner.rs.            *)
(*                                                                         *)
(* Every instruction is one transaction: its checks either all pass and    *)
(* its effects happen together, or it changes nothing.  An escrow is a PDA *)
(* of (purchaser, collection), so a purchaser has at most one at a time.   *)
(* Only the age of an escrow matters, never its absolute created_at.       *)
(*                                                                         *)
(* An escrow does not record its token account.  Each instruction is given *)
(* one: a purchase checks that the escrow's PDA owns it, the older creation*)
(* checks nothing, and a release or a burn needs the PDA's signature to be *)
(* good for it.  So a PDA may own several accounts, and an escrow may be   *)
(* opened with one, or with none of its own, and closed with another.      *)
(*                                                                         *)
(* Three defects of the code keep every release or burn from going through.*)
(* Repaired says which of them are taken as mended, so that what comes     *)
(* after them can be studied too.                                          *)
(***************************************************************************)
EXTENDS Integers, Sequences, FiniteSets, PurchaseSplit, TokenSums

CONSTANTS Purchasers,       \* wallets that buy access
          Peers,            \* wallets that pin and serve the content
          EscrowAccounts,   \* the collection's token accounts that escrow PDAs own
          OwnerOf,          \* the purchaser whose escrow PDA owns each of those
          PurchaserTokens,  \* what each purchaser holds at the start
          OtherTokens,      \* what everybody else holds at the start
          ElsewhereTokens,  \* what the escrows of other collections may pay out
          Amounts,          \* amounts a caller may name
          FeeRates,         \* the fees GlobalState may hold at a purchase
          Weights,          \* peer weights a purchaser may name
          MaxPeerListLength,\* MAX_PEER_LIST_LENGTH
          Expiry,           \* ESCROW_EXPIRY_SECONDS, in clock steps
          MaxU64,           \* checked u64 arithmetic fails above this
          Repaired          \* the defects taken as mended

Defects == {"burn authority", \* the burn names the token account as authority
            "open borrows",   \* account data is borrowed during the token calls
            "trust record"}   \* trust is read 8 bytes after the discriminator

ASSUME AccessEscrowAssumption ==
    /\ IsFiniteSet(Purchasers)
    /\ IsFiniteSet(Peers)
    /\ IsFiniteSet(EscrowAccounts)
    /\ Purchasers \cap Peers = {}
    /\ EscrowAccounts \cap (Purchasers \cup Peers) = {}
    /\ "rest" \notin Purchasers \cup Peers \cup EscrowAccounts
    /\ "none" \notin Purchasers \cup Peers \cup EscrowAccounts
    /\ OwnerOf \in [EscrowAccounts -> Purchasers]
    /\ PurchaserTokens \in [Purchasers -> Nat]
    /\ OtherTokens \in Nat
    /\ ElsewhereTokens \in Nat
    /\ Amounts \subseteq Nat
    /\ FeeRates \subseteq FeeRate
    /\ Weights \subseteq Nat
    /\ MaxPeerListLength \in Nat \ {0}
    /\ Expiry \in Nat
    /\ MaxU64 \in Nat
    /\ Repaired \subseteq Defects

VARIABLES
    escrow,       \* AccessEscrow of each purchaser, and whether it exists
    lot,          \* history: where the tokens of its opening went
    escrowTokens, \* balance of each token account an escrow PDA owns
    wallet,       \* collection tokens in each purchaser's own account
    paid,         \* collection tokens in each peer's own account
    rest,         \* collection tokens of everybody else: treasury, stakers, ...
    burned,       \* collection tokens destroyed
    paidElsewhere,\* what the releases of other collections paid each peer
    trust,        \* PeerTrustState of each peer, one for all collections
    totalTrust,   \* CollectionState.total_trust_score
    otherTrust,   \* total_trust_score of another collection, for all the others
    isHost,       \* whether the peer's PinnerState exists (it is then active)
    reveal,       \* CidReveal of (escrow PDA, pinner): none, or for which purchase
    isBlacklisted \* CollectionState.is_blacklisted

vars == <<escrow, lot, escrowTokens, wallet, paid, rest, burned, paidElsewhere,
          trust, totalTrust, otherTrust, isHost, reveal, isBlacklisted>>

tokens == <<escrowTokens, wallet, paid, rest, burned>>
reputation == <<paidElsewhere, trust, totalTrust, otherTrust>>

\* Every token account of the collection's mint, those of everybody else as one.
Destinations == EscrowAccounts \cup Purchasers \cup Peers \cup {"rest"}

\* What account x gets of n tokens sent to account `to`.
Arrives(x, to, n) == IF x = to THEN n ELSE 0

U64(n) == n <= MaxU64

NoEscrow == [exists |-> FALSE, amount_locked |-> 0, age |-> 0,
             is_cid_revealed |-> FALSE]

NoTrust == [exists |-> FALSE, serves |-> 0, score |-> 0]

IsExpired(b) == escrow[b].age > Expiry

----------------------------------------------------------------------------
Init ==
    /\ escrow = [b \in Purchasers |-> NoEscrow]
    /\ lot = [b \in Purchasers |-> "none"]
    /\ escrowTokens = [a \in EscrowAccounts |-> 0]
    /\ wallet = PurchaserTokens
    /\ paid = [p \in Peers |-> 0]
    /\ rest = OtherTokens
    /\ burned = 0
    /\ paidElsewhere = [p \in Peers |-> 0]
    /\ trust = [p \in Peers |-> NoTrust]
    /\ totalTrust = 0
    /\ otherTrust = 0
    /\ isHost = [p \in Peers |-> FALSE]
    /\ reveal = [b \in Purchasers |-> [p \in Peers |-> "none"]]
    /\ isBlacklisted = FALSE

(* A new escrow of b, its tokens sent to the account `to`: the PDA must be   *)
(* free.  The CidReveal accounts of earlier purchases by b keep existing and *)
(* are now about a past purchase.                                            *)
OpenEscrow(b, locked, to) ==
    /\ ~isBlacklisted
    /\ ~escrow[b].exists
    /\ escrow' = [escrow EXCEPT ![b] = [exists          |-> TRUE,
                                        amount_locked   |-> locked,
                                        age             |-> 0,
                                        is_cid_revealed |-> FALSE]]
    /\ lot' = [lot EXCEPT ![b] = to]
    /\ escrowTokens' = [a \in EscrowAccounts |->
                           escrowTokens[a] + Arrives(a, to, locked)]
    /\ paid' = [p \in Peers |-> paid[p] + Arrives(p, to, locked)]
    /\ reveal' = [reveal EXCEPT ![b] =
                    [p \in Peers |-> IF @[p] = "current" THEN "past" ELSE @[p]]]
    /\ UNCHANGED <<burned, reputation, isHost, isBlacklisted>>

\* amount_locked of a purchase.
Locked(total, bp) == AmountToEscrow(total, bp)

\* The checked operations of the purchase's split; its subtractions never fail.
SplitComputes(total, bp) ==
    /\ U64(total * bp + FeeDenominator - 1)
    /\ U64(AmountAfterFee(total, bp) * SplitToPeersEscrow)

(* purchase_access into account a; the Access NFT it mints is not used by the *)
(* escrow.                                                                     *)
PurchaseAccess(b, total, bp, a) ==
    /\ OwnerOf[a] = b
    /\ total > 0
    /\ SplitComputes(total, bp)
    /\ total <= wallet[b]
    /\ wallet' = [wallet EXCEPT ![b] = @ - total]
    /\ rest' = rest + TotalFee(total, bp) + AmountToStakers(total, bp)
    /\ OpenEscrow(b, Locked(total, bp), a)

(* create_access_escrow: the whole amount is locked, in whatever account the *)
(* purchaser names.                                                           *)
CreateAccessEscrow(b, amount, to) ==
    /\ amount > 0
    /\ amount <= wallet[b]
    /\ wallet' = [c \in Purchasers |->
                     wallet[c] - Arrives(c, b, amount) + Arrives(c, to, amount)]
    /\ rest' = rest + Arrives("rest", to, amount)
    /\ OpenEscrow(b, amount, to)

----------------------------------------------------------------------------
(* release_escrow: the purchaser names peers and weights. *)

PeerList == UNION {[1 .. n -> [wallet : Peers, weight : Weights]] :
                        n \in 1 .. MaxPeerListLength}

WeightsOf(list) == [i \in DOMAIN list |-> list[i].weight]

TotalWeight(list) == SumOver(WeightsOf(list), DOMAIN list)

PeerShare(locked, list, i) == (locked * list[i].weight) \div TotalWeight(list)

\* TotalSent(locked, list)[i]: what the first i peers got before the sweep; no
\* peer gets more than what is left of the locked amount.
TotalSent(locked, list) ==
    LET sent[i \in 0 .. Len(list)] ==
            IF i = 0 THEN 0
            ELSE LET share == PeerShare(locked, list, i)
                     remaining == locked - sent[i-1]
                 IN  sent[i-1] + (IF share > remaining THEN remaining ELSE share)
    IN  sent

\* The amount of each entry of the list.
PeerAmounts(locked, list) ==
    LET sent == TotalSent(locked, list)
    IN  [i \in DOMAIN list |-> sent[i] - sent[i-1]]

EntriesOf(list, p) == {i \in DOMAIN list : list[i].wallet = p}

\* What the entries of p get; a peer may be named more than once.
Payment(amounts, list, p) == SumOver(amounts, EntriesOf(list, p))

Dust_Forgotten(balance, amounts, list) == 0

\* The balance still in the account after the payments, deposits included.
Dust(balance, amounts, list) == balance - SumOver(amounts, DOMAIN list)

\* Where the dust may go: to the account passed for the last entry.  That account
\* was checked to be the peer's only if the entry was paid something.
SweepTargets(amounts, list, a) ==
    IF amounts[Len(list)] > 0 THEN {list[Len(list)].wallet}
                              ELSE Destinations \ {a}

CreditedEntries_All(amounts, list, p) == EntriesOf(list, p)

\* Only an entry that is paid a positive amount touches the peer's trust account.
CreditedEntries(amounts, list, p) == {i \in EntriesOf(list, p) : amounts[i] > 0}

TrustGain(amounts, list, p) ==
    SumOver(WeightsOf(list), CreditedEntries(amounts, list, p))

TrustAfter(amounts, list, p) ==
    [exists |-> trust[p].exists,
     serves |-> trust[p].serves + Cardinality(CreditedEntries(amounts, list, p)),
     score  |-> trust[p].score + TrustGain(amounts, list, p)]

CollectionGain_FirstPeer(list) == list[1].weight

\* The collection's trust grows by every weight named, credited to a peer or not.
CollectionGain(list) == TotalWeight(list)

\* No checked operation of the distribution overflows, whatever trust the
\* collection has so far.
DistributionComputes(locked, list, trustSoFar) ==
    /\ TotalWeight(list) > 0
    /\ U64(TotalWeight(list))
    /\ \A i \in DOMAIN list : U64(locked * list[i].weight)
    /\ U64(trustSoFar + CollectionGain(list))

Creditable_NotChecked(amounts, list) == TRUE

\* Every credited peer has a trust account (one that is not there is not owned by
\* the program, and the whole release fails).
Creditable(amounts, list) ==
    \A p \in Peers :
        CreditedEntries(amounts, list, p) # {} =>
            /\ trust[p].exists
            /\ "trust record" \in Repaired
            /\ U64(trust[p].score + TrustGain(amounts, list, p))

InReleaseWindow_Always(b) == TRUE

InReleaseWindow(b) == escrow[b].age <= Expiry

CanRelease(b) ==
    /\ escrow[b].exists
    /\ InReleaseWindow(b)
    /\ escrow[b].amount_locked > 0

SignsFor_Anything(b, a) == TRUE

\* The escrow's seeds sign for its PDA, and the token program wants the owner's
\* signature.
SignsFor(b, a) == OwnerOf[a] = b

\* The escrow account is closed, and its PDA is free for another purchase.
AfterRelease(b) == [escrow EXCEPT ![b] = NoEscrow]

(* Account a pays the entries of the list, its dust goes to the account `to`,  *)
(* and it is closed.                                                            *)
PayOut(a, amounts, list, dust, to) ==
    /\ escrowTokens' = [c \in EscrowAccounts |->
                           IF c = a THEN 0
                           ELSE escrowTokens[c] + Arrives(c, to, dust)]
    /\ paid' = [p \in Peers |-> paid[p] + Payment(amounts, list, p)
                                        + Arrives(p, to, dust)]
    /\ wallet' = [c \in Purchasers |-> wallet[c] + Arrives(c, to, dust)]
    /\ rest' = rest + Arrives("rest", to, dust)

(* release_escrow from account a. *)
ReleaseEscrow(b, a, list) ==
    LET locked == escrow[b].amount_locked
        balance == escrowTokens[a]
        amounts == PeerAmounts(locked, list)
    IN  /\ CanRelease(b)
        /\ SignsFor(b, a)
        /\ "open borrows" \in Repaired
        /\ DistributionComputes(locked, list, totalTrust)
        /\ Creditable(amounts, list)
        /\ SumOver(amounts, DOMAIN list) <= balance
        /\ \E to \in SweepTargets(amounts, list, a) :
              PayOut(a, amounts, list, Dust(balance, amounts, list), to)
        /\ escrow' = AfterRelease(b)
        /\ lot' = [lot EXCEPT ![b] = "none"]
        /\ trust' = [p \in Peers |-> TrustAfter(amounts, list, p)]
        /\ totalTrust' = totalTrust + CollectionGain(list)
        /\ UNCHANGED <<burned, paidElsewhere, otherTrust, isHost, reveal,
                       isBlacklisted>>

(* release_escrow of an escrow of another collection.  It pays in that mint and *)
(* adds to that collection's trust, but the peers' trust accounts are the same. *)
(* What it sweeps is left out.                                                  *)
ReleaseElsewhere(locked, list) ==
    LET amounts == PeerAmounts(locked, list)
    IN  /\ locked > 0
        /\ locked + SumOver(paidElsewhere, Peers) <= ElsewhereTokens
        /\ "open borrows" \in Repaired
        /\ DistributionComputes(locked, list, otherTrust)
        /\ Creditable(amounts, list)
        /\ paidElsewhere' = [p \in Peers |-> paidElsewhere[p]
                                                + Payment(amounts, list, p)]
        /\ trust' = [p \in Peers |-> TrustAfter(amounts, list, p)]
        /\ otherTrust' = otherTrust + CollectionGain(list)
        /\ UNCHANGED <<escrow, lot, tokens, totalTrust, isHost, reveal,
                       isBlacklisted>>

----------------------------------------------------------------------------
BurnedAmount_Locked(b, a) == escrow[b].amount_locked

\* What is burned: the balance of the account, not amount_locked.
BurnedAmount(b, a) == escrowTokens[a]

(* burn_expired_escrow, by anybody, from account a.  As written it names a   *)
(* itself as the authority, which did not sign, and the token program refuses *)
(* it.                                                                        *)
BurnExpiredEscrow(b, a) ==
    /\ escrow[b].exists
    /\ IsExpired(b)
    /\ escrowTokens[a] > 0
    /\ SignsFor(b, a)
    /\ {"burn authority", "open borrows"} \subseteq Repaired
    /\ burned' = burned + BurnedAmount(b, a)
    /\ escrowTokens' = [escrowTokens EXCEPT ![a] = @ - BurnedAmount(b, a)]
    /\ escrow' = [escrow EXCEPT ![b] = NoEscrow]
    /\ lot' = [lot EXCEPT ![b] = "none"]
    /\ UNCHANGED <<wallet, paid, rest, reputation, isHost, reveal, isBlacklisted>>

NotYetRevealed_NotChecked(b) == TRUE

NotYetRevealed(b) == ~escrow[b].is_cid_revealed

(* reveal_cid: the CidReveal of (escrow, pinner) is created, once and for all. *)
RevealCid(p, b) ==
    /\ escrow[b].exists
    /\ NotYetRevealed(b)
    /\ isHost[p]
    /\ reveal[b][p] = "none"
    /\ reveal' = [reveal EXCEPT ![b][p] = "current"]
    /\ escrow' = [escrow EXCEPT ![b].is_cid_revealed = TRUE]
    /\ UNCHANGED <<lot, tokens, reputation, isHost, isBlacklisted>>

(* initialize_peer_trust_state *)
InitializePeerTrustState(p) ==
    /\ ~trust[p].exists
    /\ trust' = [trust EXCEPT ![p] = [exists |-> TRUE, serves |-> 0, score |-> 0]]
    /\ UNCHANGED <<escrow, lot, tokens, paidElsewhere, totalTrust, otherTrust, isHost,
                   reveal, isBlacklisted>>

(* register_collection_host *)
RegisterCollectionHost(p) ==
    /\ ~isHost[p]
    /\ isHost' = [isHost EXCEPT ![p] = TRUE]
    /\ UNCHANGED <<escrow, lot, tokens, reputation, reveal, isBlacklisted>>

----------------------------------------------------------------------------
(* What happens around the program. *)

(* resolve_ticket of an approved ContentReport on the collection, as it would do *)
(* if its arguments decoded (see Moderation).                                    *)
Blacklist ==
    /\ ~isBlacklisted
    /\ isBlacklisted' = TRUE
    /\ UNCHANGED <<escrow, lot, tokens, reputation, isHost, reveal>>

(* A plain token transfer into an account of an escrow PDA, whether an escrow *)
(* is open or not: it bypasses the program.                                   *)
Deposit(a, amount) ==
    /\ amount > 0
    /\ amount <= rest
    /\ rest' = rest - amount
    /\ escrowTokens' = [escrowTokens EXCEPT ![a] = @ + amount]
    /\ UNCHANGED <<escrow, lot, wallet, paid, burned, reputation, isHost, reveal,
                   isBlacklisted>>

(* The clock moves one step; an expired escrow does not grow any older. *)
Tick ==
    /\ \E b \in Purchasers : escrow[b].exists /\ ~IsExpired(b)
    /\ escrow' = [b \in Purchasers |->
                    IF escrow[b].exists /\ ~IsExpired(b)
                    THEN [escrow[b] EXCEPT !.age = @ + 1]
                    ELSE escrow[b]]
    /\ UNCHANGED <<lot, tokens, reputation, isHost, reveal, isBlacklisted>>

Next ==
    \/ \E b \in Purchasers :
          \/ \E total \in Amounts, bp \in FeeRates, a \in EscrowAccounts :
                PurchaseAccess(b, total, bp, a)
          \/ \E amount \in Amounts, to \in Destinations :
                CreateAccessEscrow(b, amount, to)
          \/ \E a \in EscrowAccounts, list \in PeerList : ReleaseEscrow(b, a, list)
          \/ \E a \in EscrowAccounts : BurnExpiredEscrow(b, a)
          \/ \E p \in Peers : RevealCid(p, b)
    \/ \E a \in EscrowAccounts, amount \in Amounts : Deposit(a, amount)
    \/ \E locked \in Amounts, list \in PeerList : ReleaseElsewhere(locked, list)
    \/ \E p \in Peers : InitializePeerTrustState(p) \/ RegisterCollectionHost(p)
    \/ Blacklist
    \/ Tick

Spec == Init /\ [][Next]_vars

(* Time passes, and somebody burns the expired escrows for their rent, from any *)
(* account that will do; what purchasers, peers and moderators do is their own  *)
(* choice.                                                                      *)
Fairness ==
    /\ WF_vars(Tick)
    /\ \A b \in Purchasers :
          WF_vars(\E a \in EscrowAccounts : BurnExpiredEscrow(b, a))

FairSpec == Spec /\ Fairness

----------------------------------------------------------------------------
(* Properties *)

EscrowRecord == [exists : {TRUE}, amount_locked : Nat, age : 0 .. Expiry + 1,
                 is_cid_revealed : BOOLEAN]

TrustRecord == [exists : {TRUE}, serves : Nat, score : Nat]

\* Types of the accounts' fields; an account that does not exist has no content.
TypeOK ==
    /\ escrow \in [Purchasers -> EscrowRecord \cup {NoEscrow}]
    /\ lot \in [Purchasers -> Destinations \cup {"none"}]
    /\ escrowTokens \in [EscrowAccounts -> Nat]
    /\ wallet \in [Purchasers -> Nat]
    /\ paid \in [Peers -> Nat]
    /\ rest \in Nat
    /\ burned \in Nat
    /\ paidElsewhere \in [Peers -> Nat]
    /\ trust \in [Peers -> TrustRecord \cup {NoTrust}]
    /\ totalTrust \in Nat
    /\ otherTrust \in Nat
    /\ isHost \in [Peers -> BOOLEAN]
    /\ reveal \in [Purchasers -> [Peers -> {"none", "current", "past"}]]
    /\ isBlacklisted \in BOOLEAN

\* No instruction creates or loses tokens: every token is in a wallet, in an
\* escrow's account, with a peer, with somebody else, or was burned.
TokensConserved ==
    SumOver(wallet, Purchasers) + SumOver(escrowTokens, EscrowAccounts)
        + SumOver(paid, Peers) + rest + burned
    = SumOver(PurchaserTokens, Purchasers) + OtherTokens

\* An open escrow whose tokens went to an account its PDA owns stays backed by that
\* account: no deposit and no release or burn of another escrow, from whatever
\* account and with whatever sweep, takes what it recorded as locked.
EscrowBacked ==
    \A b \in Purchasers, a \in EscrowAccounts :
        escrow[b].exists /\ lot[b] = a /\ OwnerOf[a] = b =>
            escrowTokens[a] >= escrow[b].amount_locked

\* Of the pinners racing to reveal the CID of a purchase exactly one wins, and the
\* escrow says revealed only when that reveal is there to be read.
OneRevealPerPurchase ==
    \A b \in Purchasers :
        escrow[b].exists =>
            Cardinality({p \in Peers : reveal[b][p] = "current"}) =
                (IF escrow[b].is_cid_revealed THEN 1 ELSE 0)

\* The trust peers have gained never exceeds the trust their releases gave the
\* collections, this one and the others together: no release credits a peer without
\* counting for a collection.
TrustCounted ==
    SumOver([p \in Peers |-> trust[p].score], Peers) <= totalTrust + otherTrust

\* A peer's trust and serve count only ever grow, and only in a step that pays it,
\* in the collection's tokens or in those of another.
TrustIsEarned ==
    [][\A p \in Peers :
          trust[p].exists /\ trust'[p] # trust[p] =>
              /\ trust'[p].serves > trust[p].serves
              /\ trust'[p].score >= trust[p].score
              /\ paid'[p] > paid[p] \/ paidElsewhere'[p] > paidElsewhere[p]]_vars

Phase(b) == IF ~escrow[b].exists THEN "free"
            ELSE IF IsExpired(b) THEN "expired" ELSE "open"

Promise == INSTANCE EscrowPromise WITH
               Accounts <- EscrowAccounts,
               phase <- [b \in Purchasers |-> Phase(b)],
               held <- escrowTokens

\* The escrows keep their promise: the tokens of a PDA leave it only with the escrow
\* that is open there, an account at a time and whole, as a payment before it expires
\* and to destruction after.
PromiseKept == Promise!Safety

\* The promise with its liveness: no escrow whose PDA holds tokens stays forever.
PromiseFulfilled == Promise!Spec

\* After the 24-hour window an abandoned escrow whose PDA holds tokens is cleared:
\* tokens are burned (or were released in time) and the slot is free again.  Under
\* the authority burn_expired_escrow names, the code does not keep this.
ExpiredEscrowIsCleared == Promise!EventuallySettled

\* Every peer that a release pays gains trust ("The Program increments the
\* PeerTrustState for each peer that receives payment").  The code does not.
PaidPeersGainTrust ==
    [][\A b \in Purchasers, p \in Peers :
          escrow[b].exists /\ ~escrow'[b].exists /\ paid'[p] > paid[p] =>
              trust'[p].score > trust[p].score]_vars

\* A purchase whose CID no pinner has revealed can still be revealed by some
\* registered host ("allow re-purchases").  The code does not keep this.
RevealStaysPossible ==
    \A b \in Purchasers :
        /\ escrow[b].exists
        /\ ~escrow[b].is_cid_revealed
        /\ \E p \in Peers : isHost[p]
        => \E p \in Peers : isHost[p] /\ reveal[b][p] = "none"

=============================================================================
