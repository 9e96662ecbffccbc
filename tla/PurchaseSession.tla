-------------------------- MODULE PurchaseSession --------------------------
(***************************************************************************)
(* The clients around one access escrow (client-library/libs): the         *)
(* purchaser's sessions (AccessClient, EscrowClient, and the buyer's       *)
(* workflow of IntegratedWorkflow), the pinners that answer them           *)
(* (PinnerClient) and the cleanup that burns expired escrows.              *)
(*                                                                         *)
(* An action runs from one await to the next: what a client has read stays *)
(* as it was read until its transaction is sent.  The escrow PDA is that   *)
(* of (purchaser, collection), so all sessions of the purchaser share one  *)
(* slot, and a pinner has one CidReveal account for all of them.           *)
(*                                                                         *)
(* An rpc() that throws says nothing of its transaction: the program may   *)
(* have refused it, it may be lost, or it may have landed all the same.    *)
(***************************************************************************)
EXTENDS Naturals, FiniteSets

CONSTANTS Sessions,      \* purchases the purchaser tries, each at most once
          WorkflowSessions, \* those run by purchaseAndDownloadContent
          Pinners,       \* registered hosts
          RevealPolls,   \* timeoutMs of waitForCIDReveal, in poll intervals
          Expiry,        \* 24 hours, in clock steps
          OtherEscrows,  \* escrows of other purchasers that may expire
          MaxBurns,      \* maxBurns, the escrows one cleanup run takes on
          Repaired       \* defects of the calls, of those named below, that are taken
                         \* as repaired; as written {}

VARIABLES
    slot,         \* AccessEscrow at the PDA: whose purchase, its age, whether it
                  \* was revealed and whether its purchase locked any token
    reveals,      \* CidReveal of each pinner for the PDA: its content
    stage,        \* where each session is
    polls,        \* how many poll intervals the session has slept
    found,        \* the pinner whose reveal the session reads
    answering,    \* where each pinner is in its answer
    cleanup,      \* where burnExpiredEscrows is, and what it has left to try
    expired,      \* the expired escrows of other purchasers
    settled       \* history: what became of each purchase

sessionVars == <<slot, reveals, stage, polls, found, answering, cleanup,
                expired, settled>>
session == <<stage, polls, found>>

None == "none"
NoSlot == [of |-> None, age |-> 0, revealed |-> FALSE, funded |-> FALSE]
\* What a pinner may reveal: the CID, or something the purchaser cannot use: another
\* CID, or one sealed with a key that is not its wallet's, which revealCID makes up
\* when it is given none.
Contents == {"right", "useless"}

\* What a purchase may become besides paid by a session.
Burned == "burned"

\* The purchaser's own escrow, among those the cleanup handles.
Own == "own"

ASSUME SessionsAssumption ==
    /\ IsFiniteSet(Sessions)
    /\ WorkflowSessions \subseteq Sessions
    /\ {None, Burned} \cap Sessions = {}
    /\ None \notin Pinners
    /\ IsFiniteSet(OtherEscrows)
    /\ Own \notin OtherEscrows
    /\ MaxBurns \in Nat \ {0}

Open == slot.of # None

Revealed(p) == reveals[p] # None

SessionInit ==
    /\ slot = NoSlot
    /\ reveals = [p \in Pinners |-> None]
    /\ stage = [s \in Sessions |-> "idle"]
    /\ polls = [s \in Sessions |-> 0]
    /\ found = [s \in Sessions |-> None]
    /\ answering = [p \in Pinners |-> "idle"]
    /\ cleanup = [stage |-> "looping", todo |-> {}]
    /\ expired = {}
    /\ settled = [s \in Sessions |-> None]

\* A session that ends forgets what it read.
Goes(s, to) ==
    /\ stage' = [stage EXCEPT ![s] = to]
    /\ found' = IF to \in {"done", "failed"} THEN [found EXCEPT ![s] = None] ELSE found

Waiting == {"polling", "searching", "sleeping"}

Fails(s) == Goes(s, "failed") /\ UNCHANGED <<slot, settled>>

----------------------------------------------------------------------------
(* AccessClient *)

SlotIsFree_NotChecked == TRUE

\* The program creates the escrow account; the address must be free.
SlotIsFree == ~Open

\* The program makes the escrow of s.  A payment whose escrow part rounds to nothing
\* locks nothing.
OpensSlot(s) ==
    /\ SlotIsFree
    /\ "purchase accounts" \in Repaired
    /\ \E funded \in BOOLEAN :
          slot' = [of |-> s, age |-> 0, revealed |-> FALSE, funded |-> funded]
    /\ UNCHANGED settled

(* purchaseAccess, up to its transaction: it passes no mint and no treasury    *)
(* account, and the collection's mint as the token program.  When its rpc()    *)
(* throws the session ends, but the transaction may still be on its way.       *)
Purchase(s) ==
    /\ stage[s] = "idle"
    /\ \/ OpensSlot(s) /\ Goes(s, "polling")
       \/ Fails(s)
       \/ Goes(s, "lost") /\ UNCHANGED <<slot, settled>>
    /\ UNCHANGED <<reveals, polls, answering, cleanup, expired>>

(* The purchase of a session that has given it up lands. *)
PurchaseLands(s) ==
    /\ stage[s] = "lost"
    /\ OpensSlot(s)
    /\ Goes(s, "failed")
    /\ UNCHANGED <<reveals, polls, answering, cleanup, expired>>

(* waitForCIDReveal: one pass of the loop reads the escrow ... *)
Poll(s) ==
    /\ stage[s] = "polling"
    /\ Goes(s, IF ~Open THEN "failed"
               ELSE IF slot.revealed THEN "searching" ELSE "sleeping")
    /\ UNCHANGED <<slot, reveals, polls, answering, cleanup, expired, settled>>

(* ... findCIDRevealsForEscrow lists the reveals of the PDA, of which the first *)
(* is returned, whichever purchase it answers ...                              *)
FindReveal(s) ==
    /\ stage[s] = "searching"
    /\ \/ \E p \in Pinners :
             /\ Revealed(p)
             /\ found' = [found EXCEPT ![s] = p]
             /\ stage' = [stage EXCEPT ![s] = "revealed"]
       \/ /\ \A p \in Pinners : ~Revealed(p)
          /\ Goes(s, "sleeping")
    /\ UNCHANGED <<slot, reveals, polls, answering, cleanup, expired, settled>>

TimedOut_Never(n) == FALSE

TimedOut(n) == n >= RevealPolls

(* ... and after the sleep the loop tests its time. *)
Wake(s) ==
    /\ stage[s] = "sleeping"
    /\ polls' = [polls EXCEPT ![s] = IF @ < RevealPolls THEN @ + 1 ELSE @]
    /\ Goes(s, IF TimedOut(polls[s] + 1) THEN "failed" ELSE "polling")
    /\ UNCHANGED <<slot, reveals, answering, cleanup, expired, settled>>

VerifiedCid_AnyReveal(p) == Revealed(p)

\* decryptCID throws on a key that does not fit, verifyCIDHash compares the hash.
VerifiedCid(p) == reveals[p] = "right"

(* The rest of purchaseAndRevealCID: the escrow is fetched again for its hash, *)
(* the CID is decrypted and verified.                                          *)
DecryptAndVerify(s) ==
    /\ stage[s] = "revealed"
    /\ s \notin WorkflowSessions
    /\ Goes(s, IF Open /\ VerifiedCid(found[s]) THEN "delivered" ELSE "failed")
    /\ UNCHANGED <<slot, reveals, polls, answering, cleanup, expired, settled>>

----------------------------------------------------------------------------
(* Payment: the reports of a download, and EscrowClient. *)

\* bytesDelivered in a report: IPFSTrustMonitor sees the connected peers but never
\* adds a byte; a purchaser with reports of its own may have counted some.
ReportedBytes(s) == IF s \in WorkflowSessions THEN {0} ELSE {0, 1}

(* A download (the workflow's, of a placeholder) from any connected peers, and *)
(* calculatePinnerDistribution, which keeps the successful ones and throws     *)
(* when there is none.                                                         *)
Distribute(s) ==
    /\ stage[s] = IF s \in WorkflowSessions THEN "revealed" ELSE "delivered"
    /\ \E bytes \in [Pinners -> ReportedBytes(s)] :
          LET successful == {p \in Pinners : bytes[p] > 0}
          IN  Goes(s, IF successful = {} THEN "failed" ELSE "settling")
    /\ UNCHANGED <<slot, reveals, polls, answering, cleanup, expired, settled>>

(* releaseEscrowToPinners fetches the escrow, whichever purchase is in the slot *)
(* (the purchaser is the same) ...                                             *)
BeginRelease(s) ==
    /\ stage[s] = "settling"
    /\ Goes(s, IF Open THEN "releasing" ELSE "failed")
    /\ UNCHANGED <<slot, reveals, polls, answering, cleanup, expired, settled>>

\* The accounts releaseEscrowToPinners passes lack the collection and its mint, and
\* are not in pairs.
ProgramReleases ==
    /\ Open
    /\ slot.age <= Expiry
    /\ slot.funded
    /\ "release accounts" \in Repaired

(* ... and after more awaits sends release_escrow, for what the slot holds then. *)
(* It may land although the rpc() throws.                                        *)
SubmitRelease(s) ==
    /\ stage[s] = "releasing"
    /\ \/ /\ ProgramReleases
          /\ settled' = [settled EXCEPT ![slot.of] = s]
          /\ slot' = NoSlot
          /\ \E end \in {"done", "failed"} : Goes(s, end)
       \/ Fails(s)
    /\ UNCHANGED <<reveals, polls, answering, cleanup, expired>>

----------------------------------------------------------------------------
(* PinnerClient *)

\* What monitorNewPurchases filters for, and revealCID and reveal_cid want.
AwaitsReveal == Open /\ ~slot.revealed

(* A pass of the monitor, or the subscription, reports an escrow ... *)
NotifyPurchase(p) ==
    /\ answering[p] = "idle"
    /\ AwaitsReveal
    /\ answering' = [answering EXCEPT ![p] = "notified"]
    /\ UNCHANGED <<slot, reveals, session, cleanup, expired, settled>>

(* ... revealCID reads it again, and gives up if it is gone or was revealed ... *)
PrepareReveal(p) ==
    /\ answering[p] = "notified"
    /\ answering' = [answering EXCEPT ![p] =
                        IF AwaitsReveal THEN "sealed" ELSE "idle"]
    /\ UNCHANGED <<slot, reveals, session, cleanup, expired, settled>>

(* ... and sends the sealed CID; reveal_cid creates the pinner's account once,   *)
(* unless it is refused or lost.                                                 *)
SubmitReveal(p) ==
    /\ answering[p] = "sealed"
    /\ answering' = [answering EXCEPT ![p] = "idle"]
    /\ \/ /\ AwaitsReveal
          /\ ~Revealed(p)
          /\ \E content \in Contents : reveals' = [reveals EXCEPT ![p] = content]
          /\ slot' = [slot EXCEPT !.revealed = TRUE]
       \/ UNCHANGED <<slot, reveals>>
    /\ UNCHANGED <<session, cleanup, expired, settled>>

----------------------------------------------------------------------------
(* The cleanup workflow, and everybody else who may burn. *)

ClientCallsExpired_OnTime(age) == age = Expiry

\* currentTime >= expiryTime in findExpiredEscrows and burnExpiredEscrow; the
\* program is still in the release window when they are equal.
ClientCallsExpired(age) == age >= Expiry

\* burn_expired_escrow: it names the token account as the burn's authority, which is
\* the escrow's.  It also wants a token in the account it is given to burn from.
ProgramBurns == Open /\ slot.age > Expiry /\ "burn authority" \in Repaired

Burn ==
    /\ settled' = [settled EXCEPT ![slot.of] = Burned]
    /\ slot' = NoSlot

\* What findExpiredEscrows finds.
FoundExpired ==
    expired \cup (IF Open /\ ClientCallsExpired(slot.age) THEN {Own} ELSE {})

(* findExpiredEscrows, of which the run takes the first maxBurns, in whatever *)
(* order the accounts are listed.                                             *)
ListExpired ==
    /\ cleanup = [stage |-> "looping", todo |-> {}]
    /\ \E slice \in SUBSET FoundExpired :
          /\ slice # {}
          /\ \/ Cardinality(slice) = MaxBurns
             \/ slice = FoundExpired /\ Cardinality(slice) < MaxBurns
          /\ cleanup' = [cleanup EXCEPT !.todo = slice]
    /\ UNCHANGED <<slot, reveals, session, answering, expired, settled>>

(* The pass of the loop for another purchaser's escrow, all its awaits in one: *)
(* it is burned, or whatever it throws is caught and it is still there, as one *)
(* that holds no token is every time.                                          *)
TryOther(e) ==
    /\ cleanup.stage = "looping"
    /\ e \in cleanup.todo
    /\ cleanup' = [cleanup EXCEPT !.todo = @ \ {e}]
    /\ \/ "burn authority" \in Repaired /\ expired' = expired \ {e}
       \/ UNCHANGED expired
    /\ UNCHANGED <<slot, reveals, session, answering, settled>>

(* The pass for the own escrow: getEscrowDetails; what it throws is caught, *)
(* and so it is of the next two.                                            *)
FetchDetails ==
    /\ cleanup.stage = "looping"
    /\ Own \in cleanup.todo
    /\ cleanup' = [stage |-> IF Open THEN "detailed" ELSE "looping",
                   todo  |-> cleanup.todo \ {Own}]
    /\ UNCHANGED <<slot, reveals, session, answering, expired, settled>>

(* burnExpiredEscrow fetches the escrow again and makes its own check ... *)
CheckExpired ==
    /\ cleanup.stage = "detailed"
    /\ cleanup' = [cleanup EXCEPT !.stage =
                     IF Open /\ ClientCallsExpired(slot.age) THEN "burning" ELSE "looping"]
    /\ UNCHANGED <<slot, reveals, session, answering, expired, settled>>

(* ... and sends the transaction.  It lands, whatever the rpc() returns ... *)
BurnLands ==
    /\ cleanup.stage = "burning"
    /\ ProgramBurns
    /\ slot.funded
    /\ Burn
    /\ cleanup' = [cleanup EXCEPT !.stage = "looping"]
    /\ UNCHANGED <<reveals, session, answering, expired>>

(* ... or the rpc() throws, because the program refuses it or because it gets *)
(* lost; one that is only late lands as BurnByOthers.                         *)
BurnThrows ==
    /\ cleanup.stage = "burning"
    /\ cleanup' = [cleanup EXCEPT !.stage = "looping"]
    /\ UNCHANGED <<slot, reveals, session, answering, expired, settled>>

(* Anybody may burn, from any token account of the escrow's, into which anybody *)
(* may have put a token.                                                        *)
BurnByOthers ==
    /\ ProgramBurns
    /\ Burn
    /\ UNCHANGED <<reveals, session, answering, cleanup, expired>>

(* Another purchaser's escrow expires, or is gone. *)
OtherChanges(e) ==
    /\ expired' \in {expired \cup {e}, expired \ {e}}
    /\ UNCHANGED <<slot, reveals, session, answering, cleanup, settled>>

(* The clock; an expired escrow does not grow any older. *)
AgeSlot ==
    /\ Open
    /\ slot.age <= Expiry
    /\ slot' = [slot EXCEPT !.age = @ + 1]
    /\ UNCHANGED <<reveals, session, answering, cleanup, expired, settled>>

WaitStep(s) == Poll(s) \/ FindReveal(s) \/ Wake(s)

SessionStep(s) ==
    \/ Purchase(s) \/ PurchaseLands(s) \/ WaitStep(s) \/ DecryptAndVerify(s)
    \/ Distribute(s) \/ BeginRelease(s) \/ SubmitRelease(s)

PinnerStep(p) == NotifyPurchase(p) \/ PrepareReveal(p) \/ SubmitReveal(p)

CleanupStep ==
    \/ ListExpired
    \/ \E e \in OtherEscrows : TryOther(e)
    \/ FetchDetails \/ CheckExpired \/ BurnLands \/ BurnThrows

SessionNext ==
    \/ \E s \in Sessions : SessionStep(s)
    \/ \E p \in Pinners : PinnerStep(p)
    \/ CleanupStep
    \/ BurnByOthers
    \/ \E e \in OtherEscrows : OtherChanges(e)
    \/ AgeSlot

\* A session that waits is driven by its timers, and time passes.  When a session
\* starts, whether a pinner answers, when a release is sent and whether anybody runs
\* the cleanup is up to people.
SessionFairness ==
    /\ \A s \in Sessions : WF_sessionVars(WaitStep(s))
    /\ WF_sessionVars(AgeSlot)

SessionSpec == SessionInit /\ [][SessionNext]_sessionVars /\ SessionFairness

----------------------------------------------------------------------------
(* Properties *)

\* A session delivers a CID only if it is the collection's, although the reveal it
\* reads may answer an earlier purchase, and be of no use.
DeliveredIsVerified ==
    \A s \in Sessions :
        stage[s] \in {"delivered", "settling", "releasing"} =>
            reveals[found[s]] = "right"

\* A release that was prepared for one purchase pays out another one only when its
\* own was settled without it in the meantime.
LateReleaseHasLostItsOwn ==
    \A s, t \in Sessions :
        settled[s] = t /\ s # t => settled[t] \notin {None, t}

\* Waiting for a reveal ends: with a reveal, an error or the timeout, even if the
\* escrow stays for good because nobody releases or burns it.
WaitsEnd ==
    \A s \in Sessions :
        stage[s] \in Waiting ~> stage[s] \notin Waiting

\* The expired escrows of others leave a place in a run of the cleanup.
LeavesRoom == Cardinality(expired) < MaxBurns

\* Where the cleanup is run again and again, its transactions get through now and
\* then, and from some time on no more escrows are expired than one run takes, no
\* purchase with tokens in it holds the slot forever: the cleanup gets it in the end,
\* although it already tries in the second in which the program still refuses, and
\* the empty escrows of others fail in every run.
CleanupCollects ==
    (/\ WF_sessionVars(CleanupStep)
     /\ SF_sessionVars(BurnLands)
     /\ <>[]LeavesRoom)
    => \A s \in Sessions : slot.of = s /\ slot.funded ~> slot.of # s

=============================================================================
