----------------------- MODULE PurchaseSessionProofs -----------------------
(***************************************************************************)
(* What the purchaser's sessions deliver and settle, for any sessions,     *)
(* pinners, windows and timeouts.                                          *)
(***************************************************************************)
EXTENDS PurchaseSession, TLAPS

\* The stages in which a session has a CID that it verified.
Verified == {"delivered", "settling", "releasing"}

Busy == Waiting \cup {"revealed"} \cup Verified

SessionTypes ==
    /\ slot \in [of : Sessions \cup {None}, age : Nat, revealed : BOOLEAN, funded : BOOLEAN]
    /\ reveals \in [Pinners -> Contents \cup {None}]
    /\ stage \in [Sessions -> Busy \cup {"idle", "lost", "done", "failed"}]
    /\ found \in [Sessions -> Pinners \cup {None}]
    /\ settled \in [Sessions -> Sessions \cup {None, Burned}]

\* What a session has read is a pinner's reveal, which never changes again, and the
\* right one where it goes on.
ReadsAreReveals ==
    \A s \in Sessions :
        /\ stage[s] = "revealed" => found[s] \in Pinners
        /\ stage[s] \in Verified => found[s] \in Pinners /\ reveals[found[s]] = "right"

\* A purchase is in the slot or settled, and settled once; a session that settled one
\* has come to its end.
SlotAccounts ==
    \A s \in Sessions :
        /\ stage[s] \in Busy => slot.of = s \/ settled[s] # None
        /\ stage[s] \in {"idle", "lost"} => slot.of # s /\ settled[s] = None
        /\ slot.of = s => settled[s] = None
        /\ settled[s] \in Sessions => stage[settled[s]] \in {"done", "failed"}

SessionInv ==
    SessionTypes /\ ReadsAreReveals /\ SlotAccounts /\ LateReleaseHasLostItsOwn

LEMMA SessionStart == SessionInit => SessionInv
  BY SessionsAssumption
  DEF SessionInit, SessionInv, SessionTypes, ReadsAreReveals, SlotAccounts,
      LateReleaseHasLostItsOwn, NoSlot, Busy, Verified, Waiting, Burned

----------------------------------------------------------------------------
(* One lemma for each kind of step. *)

\* A session that moves on without touching the slot.
LEMMA MovesOn ==
  ASSUME SessionInv, NEW s \in Sessions, stage[s] # "idle",
         stage[s] \in Busy,
         NEW to \in Busy \cup {"failed"}, Goes(s, to),
         to = "revealed" => FALSE,
         to \in Verified => found[s] \in Pinners /\ reveals[found[s]] = "right",
         UNCHANGED <<slot, reveals, settled>>
  PROVE  SessionInv'
<1>1. SessionTypes'
  BY DEF SessionInv, SessionTypes, Goes
<1>2. ReadsAreReveals'
  BY DEF SessionInv, SessionTypes, ReadsAreReveals, Goes, Verified
<1>3. SlotAccounts'
  BY DEF SessionInv, SessionTypes, SlotAccounts, Goes, Busy, Verified, Waiting
<1>4. LateReleaseHasLostItsOwn'
  BY DEF SessionInv, LateReleaseHasLostItsOwn
<1> QED BY <1>1, <1>2, <1>3, <1>4 DEF SessionInv

\* A session whose transaction is not known to have landed ends, or waits for it.
LEMMA NothingLands ==
  ASSUME SessionInv, NEW s \in Sessions, stage[s] \in {"idle", "lost"},
         NEW to \in {"lost", "failed"}, Goes(s, to), UNCHANGED <<slot, reveals, settled>>
  PROVE  SessionInv'
BY DEF Goes, SessionInv, SessionTypes, ReadsAreReveals, SlotAccounts,
       LateReleaseHasLostItsOwn, Busy, Verified, Waiting

\* A purchase that lands takes the free slot, whether its session waits or gave it up.
LEMMA OpensSlotHolds ==
  ASSUME SessionInv, NEW s \in Sessions, stage[s] \in {"idle", "lost"}, OpensSlot(s),
         NEW to \in {"polling", "failed"}, Goes(s, to), UNCHANGED reveals
  PROVE  SessionInv'
<1>1. PICK funded \in BOOLEAN :
         slot' = [of |-> s, age |-> 0, revealed |-> FALSE, funded |-> funded]
  BY DEF OpensSlot
<1>2. slot.of = None /\ settled' = settled
  BY DEF OpensSlot, SlotIsFree, Open
<1>3. SessionTypes'
  BY <1>1, <1>2 DEF Goes, SessionInv, SessionTypes, Busy, Waiting
<1>4. ReadsAreReveals'
  BY DEF Goes, SessionInv, SessionTypes, ReadsAreReveals, Verified
<1>5. SlotAccounts'
  BY <1>1, <1>2, SessionsAssumption
  DEF Goes, SessionInv, SessionTypes, SlotAccounts, Busy, Waiting, Verified
<1>6. LateReleaseHasLostItsOwn'
  BY <1>2 DEF SessionInv, LateReleaseHasLostItsOwn
<1> QED BY <1>3, <1>4, <1>5, <1>6 DEF SessionInv

LEMMA FindRevealHolds ==
  ASSUME SessionInv, NEW s \in Sessions, FindReveal(s)
  PROVE  SessionInv'
<1>1. ASSUME NEW p \in Pinners,
             found' = [found EXCEPT ![s] = p], stage' = [stage EXCEPT ![s] = "revealed"]
      PROVE  SessionInv'
  <2>1. UNCHANGED <<slot, reveals, settled>> /\ stage[s] = "searching"
    BY DEF FindReveal
  <2>2. SessionTypes'
    BY <1>1, <2>1 DEF SessionInv, SessionTypes, Busy
  <2>3. ReadsAreReveals'
    BY <1>1, <2>1 DEF SessionInv, SessionTypes, ReadsAreReveals, Verified
  <2>4. SlotAccounts'
    BY <1>1, <2>1 DEF SessionInv, SessionTypes, SlotAccounts, Busy, Waiting
  <2>5. LateReleaseHasLostItsOwn'
    BY <2>1 DEF SessionInv, LateReleaseHasLostItsOwn
  <2> QED BY <2>2, <2>3, <2>4, <2>5 DEF SessionInv
<1>2. CASE Goes(s, "sleeping")
  BY <1>2, MovesOn DEF FindReveal, Busy, Waiting, Verified
<1> QED BY <1>1, <1>2 DEF FindReveal

\* What is in the slot is settled, by a session that ends with it or by a burn.
LEMMA SlotSettles ==
  ASSUME SessionInv, slot.of # None, slot' = NoSlot,
         NEW by \in Sessions \cup {Burned}, settled' = [settled EXCEPT ![slot.of] = by],
         UNCHANGED reveals,
         \/ /\ by \in Sessions /\ stage[by] = "releasing"
            /\ \E end \in {"done", "failed"} : Goes(by, end)
         \/ by = Burned /\ UNCHANGED <<stage, found>>
  PROVE  SessionInv'
<1>1. slot.of \in Sessions
  BY DEF SessionInv, SessionTypes
<1>2. SessionTypes'
  BY <1>1 DEF SessionInv, SessionTypes, Goes, NoSlot
<1>3. ReadsAreReveals'
  BY DEF SessionInv, SessionTypes, ReadsAreReveals, Goes, Verified
<1>4. SlotAccounts'
  <2> SUFFICES ASSUME NEW s \in Sessions
               PROVE  /\ stage'[s] \in Busy => slot'.of = s \/ settled'[s] # None
                      /\ stage'[s] \in {"idle", "lost"} =>
                            slot'.of # s /\ settled'[s] = None
                      /\ slot'.of = s => settled'[s] = None
                      /\ settled'[s] \in Sessions =>
                            stage'[settled'[s]] \in {"done", "failed"}
    BY DEF SlotAccounts
  <2>1. slot'.of = None /\ s # None /\ by # None
    BY SessionsAssumption DEF NoSlot, Burned, None
  <2>2. settled'[s] = IF s = slot.of THEN by ELSE settled[s]
    BY <1>1 DEF SessionInv, SessionTypes
  <2>3. \A t \in Sessions : IF t = by THEN stage'[t] \in {"done", "failed"}
                                      ELSE stage'[t] = stage[t]
    BY SessionsAssumption DEF Goes, SessionInv, SessionTypes
  <2>4. settled[s] \in Sessions => stage[settled[s]] \in {"done", "failed"}
    BY DEF SessionInv, SlotAccounts
  <2>5. Burned \notin Sessions
    BY SessionsAssumption
  <2>6. settled'[s] \in Sessions => stage'[settled'[s]] \in {"done", "failed"}
    BY <2>2, <2>3, <2>4, <2>5
  <2>7. stage'[s] \in Busy => settled'[s] # None
    BY <2>1, <2>2, <2>3 DEF SessionInv, SlotAccounts, Busy, Waiting, Verified
  <2>8. stage'[s] \in {"idle", "lost"} => settled'[s] = None
    BY <2>1, <2>2, <2>3 DEF SessionInv, SlotAccounts
  <2> QED BY <2>1, <2>6, <2>7, <2>8
<1>5. LateReleaseHasLostItsOwn'
  <2> SUFFICES ASSUME NEW s \in Sessions, NEW t \in Sessions,
                      settled'[s] = t, s # t
               PROVE  settled'[t] \notin {None, t}
    BY DEF LateReleaseHasLostItsOwn
  <2>1. CASE s = slot.of
    <3>1. by = t /\ stage[t] = "releasing"
      BY <1>1, <2>1, SessionsAssumption DEF SessionInv, SessionTypes, Burned
    <3>2. settled[t] # None /\ settled[t] # t
      BY <2>1, <3>1 DEF SessionInv, SlotAccounts, Busy, Verified
    <3> QED BY <1>1, <2>1, <3>2 DEF SessionInv, SessionTypes
  <2>2. CASE s # slot.of
    <3>1. settled[s] = t
      BY <1>1, <2>2 DEF SessionInv, SessionTypes
    <3>2. settled[t] \notin {None, t}
      BY <3>1 DEF SessionInv, LateReleaseHasLostItsOwn
    <3>3. slot.of # t
      BY <3>2 DEF SessionInv, SlotAccounts
    <3> QED BY <1>1, <3>2, <3>3 DEF SessionInv, SessionTypes
  <2> QED BY <2>1, <2>2
<1> QED BY <1>2, <1>3, <1>4, <1>5 DEF SessionInv

\* No step of a pinner or of the clock changes a reveal, whose purchase is in the slot
\* or what the sessions have read.
LEMMA SlotAges ==
  ASSUME SessionInv, UNCHANGED <<session, settled>>,
         slot' \in [of : {slot.of}, age : Nat, revealed : BOOLEAN, funded : BOOLEAN],
         \/ UNCHANGED reveals
         \/ \E p \in Pinners, content \in Contents :
               ~Revealed(p) /\ reveals' = [reveals EXCEPT ![p] = content]
  PROVE  SessionInv'
<1>1. slot'.of = slot.of /\ stage' = stage /\ found' = found /\ settled' = settled
  BY DEF session
<1>2. SessionTypes'
  BY <1>1 DEF SessionInv, SessionTypes
<1>3. ReadsAreReveals'
  BY <1>1 DEF SessionInv, SessionTypes, ReadsAreReveals, Revealed, None
<1>4. SlotAccounts'
  BY <1>1 DEF SessionInv, SlotAccounts
<1>5. LateReleaseHasLostItsOwn'
  BY <1>1 DEF SessionInv, LateReleaseHasLostItsOwn
<1> QED BY <1>2, <1>3, <1>4, <1>5 DEF SessionInv

LEMMA Unmoved ==
  ASSUME SessionInv, UNCHANGED <<slot, reveals, stage, found, settled>>
  PROVE  SessionInv'
BY DEF SessionInv, SessionTypes, ReadsAreReveals, SlotAccounts, LateReleaseHasLostItsOwn

----------------------------------------------------------------------------

LEMMA StepOfSession ==
  ASSUME SessionInv, NEW s \in Sessions, SessionStep(s)
  PROVE  SessionInv'
<1>1. CASE Purchase(s) \/ PurchaseLands(s)
  BY <1>1, OpensSlotHolds, NothingLands DEF Purchase, PurchaseLands, Fails
<1>2. CASE Poll(s)
  BY <1>2, MovesOn DEF Poll, Busy, Waiting, Verified
<1>3. CASE FindReveal(s)
  BY <1>3, FindRevealHolds
<1>4. CASE Wake(s)
  BY <1>4, MovesOn DEF Wake, Busy, Waiting, Verified
<1>5. CASE DecryptAndVerify(s)
  <2>1. found[s] \in Pinners
    BY <1>5 DEF DecryptAndVerify, SessionInv, ReadsAreReveals
  <2> QED BY <1>5, <2>1, MovesOn DEF DecryptAndVerify, VerifiedCid, Busy, Verified
<1>6. CASE Distribute(s)
  <2>1. PICK bytes \in [Pinners -> ReportedBytes(s)] :
           Goes(s, IF {p \in Pinners : bytes[p] > 0} = {} THEN "failed" ELSE "settling")
    BY <1>6 DEF Distribute
  <2>2. CASE s \in WorkflowSessions
    <3>1. {p \in Pinners : bytes[p] > 0} = {}
      BY <2>2 DEF ReportedBytes
    <3>2. Goes(s, "failed") /\ stage[s] = "revealed" /\ UNCHANGED <<slot, reveals, settled>>
      BY <1>6, <2>1, <2>2, <3>1 DEF Distribute
    <3> QED BY <3>2, MovesOn DEF Busy, Verified
  <2>3. CASE s \notin WorkflowSessions
    <3>1. stage[s] = "delivered" /\ UNCHANGED <<slot, reveals, settled>>
      BY <1>6, <2>3 DEF Distribute
    <3>2. found[s] \in Pinners /\ reveals[found[s]] = "right"
      BY <3>1 DEF SessionInv, ReadsAreReveals, Verified
    <3> QED BY <2>1, <2>3, <3>1, <3>2, MovesOn DEF Busy, Verified
  <2> QED BY <2>2, <2>3
<1>7. CASE BeginRelease(s)
  <2>1. found[s] \in Pinners /\ reveals[found[s]] = "right"
    BY <1>7 DEF BeginRelease, SessionInv, ReadsAreReveals, Verified
  <2> QED BY <1>7, <2>1, MovesOn DEF BeginRelease, Busy, Verified
<1>8. CASE SubmitRelease(s)
  <2>1. stage[s] = "releasing" /\ UNCHANGED reveals
    BY <1>8 DEF SubmitRelease
  <2>2. CASE /\ slot.of # None /\ slot' = NoSlot
             /\ settled' = [settled EXCEPT ![slot.of] = s]
             /\ \E end \in {"done", "failed"} : Goes(s, end)
    BY <2>1, <2>2, SlotSettles
  <2>3. CASE Goes(s, "failed") /\ UNCHANGED <<slot, settled>>
    BY <2>1, <2>3, MovesOn DEF Busy, Verified
  <2> QED BY <1>8, <2>2, <2>3 DEF SubmitRelease, ProgramReleases, Open, Fails
<1> QED BY <1>1, <1>2, <1>3, <1>4, <1>5, <1>6, <1>7, <1>8 DEF SessionStep, WaitStep

LEMMA StepOfPinner ==
  ASSUME SessionInv, NEW p \in Pinners, PinnerStep(p)
  PROVE  SessionInv'
<1>1. CASE UNCHANGED <<slot, reveals, stage, found, settled>>
  BY <1>1, Unmoved
<1>2. ASSUME NEW content \in Contents, ~Revealed(p),
             reveals' = [reveals EXCEPT ![p] = content],
             slot' = [slot EXCEPT !.revealed = TRUE], UNCHANGED <<session, settled>>
      PROVE  SessionInv'
  <2>1. slot' \in [of : {slot.of}, age : Nat, revealed : BOOLEAN, funded : BOOLEAN]
    BY <1>2 DEF SessionInv, SessionTypes
  <2> QED BY <1>2, <2>1, SlotAges
<1> QED BY <1>1, <1>2 DEF PinnerStep, NotifyPurchase, PrepareReveal, SubmitReveal, session

LEMMA StepOfOthers ==
  ASSUME SessionInv,
         \/ CleanupStep \/ BurnByOthers \/ AgeSlot
         \/ \E e \in OtherEscrows : OtherChanges(e)
  PROVE  SessionInv'
<1>1. CASE UNCHANGED <<slot, reveals, stage, found, settled>>
  BY <1>1, Unmoved
<1>2. CASE ProgramBurns /\ Burn /\ UNCHANGED <<reveals, session>>
  BY <1>2, SlotSettles DEF ProgramBurns, Burn, Open, session
<1>3. CASE AgeSlot
  <2>1. slot' \in [of : {slot.of}, age : Nat, revealed : BOOLEAN, funded : BOOLEAN]
    BY <1>3 DEF AgeSlot, SessionInv, SessionTypes
  <2> QED BY <1>3, <2>1, SlotAges DEF AgeSlot
<1> QED
  BY <1>1, <1>2, <1>3
  DEF CleanupStep, ListExpired, TryOther, FetchDetails, CheckExpired, BurnLands,
      BurnThrows, BurnByOthers, OtherChanges, session

LEMMA SessionStepHolds ==
  ASSUME SessionInv, [SessionNext]_sessionVars
  PROVE  SessionInv'
<1>1. CASE UNCHANGED sessionVars
  BY <1>1, Unmoved DEF sessionVars
<1> QED BY <1>1, StepOfSession, StepOfPinner, StepOfOthers DEF SessionNext

LEMMA SessionsKeepTheInvariant == SessionSpec => []SessionInv
  BY SessionStart, SessionStepHolds, PTL DEF SessionSpec

\* For any sessions and pinners: a session that says it has the CID has read a reveal
\* of the right one.
THEOREM Delivered == SessionSpec => []DeliveredIsVerified
<1>1. SessionInv => DeliveredIsVerified
  BY DEF SessionInv, ReadsAreReveals, DeliveredIsVerified, Verified
<1> QED BY <1>1, SessionsKeepTheInvariant, PTL

\* A release reaches another purchase than the one it was prepared for only when its
\* own was settled without it.
THEOREM LateRelease == SessionSpec => []LateReleaseHasLostItsOwn
<1>1. SessionInv => LateReleaseHasLostItsOwn
  BY DEF SessionInv
<1> QED BY <1>1, SessionsKeepTheInvariant, PTL

=============================================================================
