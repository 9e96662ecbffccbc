-------------------------- MODULE MonitorProofs ---------------------------
(***************************************************************************)
(* What the buyer's and the pinner's background work relies on, for any    *)
(* number of overlapping checks, downloads and callbacks: the cache of     *)
(* access proofs, the download tracker and the reward monitor.             *)
(***************************************************************************)
EXTENDS ProofCache, TrustMonitor, RewardMonitor, TLAPS

----------------------------------------------------------------------------
(* The cache of access proofs. *)

Places == {"idle", "accounts", "amount", "yes"}

CacheTypes ==
    /\ nft \in {"unminted", "held", "burned"}
    /\ gone \in Nat
    /\ cacheExpiry \in Expiries
    /\ entry \in 0 .. MaxExpiry
    /\ check \in [Checks -> [at : Places, since : 0 .. MaxCall]]
    /\ answer \in [valid : BOOLEAN, gone : Nat]

\* A check that has read a yes read it within its own time.
ReadIsRecent ==
    \A c \in Checks :
        check[c].at = "yes" => Held \/ (nft = "burned" /\ gone <= check[c].since)

\* An entry's remaining life and the time since the loss never exceed the bound.
EntryIsRecent ==
    entry > 0 => Held \/ (nft = "burned" /\ gone + entry <= MaxCall + MaxExpiry)

CacheInv == CacheTypes /\ ReadIsRecent /\ EntryIsRecent /\ StaleYesIsBounded

LEMMA InitHolds == CacheInit => CacheInv
  BY ProofCacheAssumption
  DEF CacheInit, CacheInv, CacheTypes, ReadIsRecent, EntryIsRecent, StaleYesIsBounded,
      NoCheck, NoAnswer, Places, Horizon, Held

\* A yes for what is held, or was lost at most the bound ago, keeps the bound.
LEMMA AnswerBounded ==
  ASSUME CacheTypes, NEW valid \in BOOLEAN, Answers(valid),
         valid => Held \/ gone <= MaxCall + MaxExpiry
  PROVE  answer' \in [valid : BOOLEAN, gone : Nat] /\ StaleYesIsBounded'
  BY ProofCacheAssumption DEF CacheTypes, Answers, StaleYesIsBounded

LEMMA BeginHolds ==
  ASSUME CacheInv, NEW c \in Checks, NEW message \in Messages, BeginCheck(c, message)
  PROVE  CacheInv'
<1> USE DEF CacheInv
<1>1. UNCHANGED <<nft, gone, cacheExpiry>>
  BY DEF BeginCheck
<1>2. CASE entry > 0 /\ entry' = EntryAfterHit /\ Answers(TRUE) /\ UNCHANGED check
  <2>1. gone <= MaxCall + MaxExpiry \/ Held
    BY <1>2, ProofCacheAssumption DEF CacheTypes, EntryIsRecent
  <2>2. answer' \in [valid : BOOLEAN, gone : Nat] /\ StaleYesIsBounded'
    BY <1>2, <2>1, AnswerBounded
  <2> QED BY <1>1, <1>2, <2>2 DEF CacheTypes, ReadIsRecent, EntryIsRecent, EntryAfterHit, Held
<1>3. CASE /\ entry = 0
           /\ check' = [check EXCEPT ![c] = [at |-> "accounts", since |-> 0]]
           /\ UNCHANGED <<entry, answer>>
  <2>1. check' \in [Checks -> [at : Places, since : 0 .. MaxCall]]
    BY <1>3, ProofCacheAssumption DEF CacheTypes, Places
  <2>2. ReadIsRecent'
    BY <1>1, <1>3 DEF CacheTypes, ReadIsRecent, Held
  <2> QED BY <1>1, <1>3, <2>1, <2>2
          DEF CacheTypes, EntryIsRecent, StaleYesIsBounded, Held
<1>4. CASE entry = 0 /\ Answers(FALSE) /\ UNCHANGED <<check, entry>>
  <2>1. answer' \in [valid : BOOLEAN, gone : Nat] /\ StaleYesIsBounded'
    BY <1>4, AnswerBounded
  <2> QED BY <1>1, <1>4, <2>1 DEF CacheTypes, ReadIsRecent, EntryIsRecent, Held
<1> QED BY <1>2, <1>3, <1>4 DEF BeginCheck

\* What a check does after its calls: it moves on, or finishes with an answer.
LEMMA MoveHolds ==
  ASSUME CacheInv, NEW c \in Checks, NEW place \in Places,
         check' = [check EXCEPT ![c].at = place],
         place = "yes" => Held,
         UNCHANGED <<nft, gone, cacheExpiry, entry, answer>>
  PROVE  CacheInv'
<1> USE DEF CacheInv
<1>1. /\ check' \in [Checks -> [at : Places, since : 0 .. MaxCall]]
      /\ \A d \in Checks : check'[d].at = "yes" => Held \/ check[d].at = "yes"
      /\ \A d \in Checks : check'[d].since = check[d].since
  BY DEF CacheTypes
<1> QED BY <1>1 DEF CacheTypes, ReadIsRecent, EntryIsRecent, StaleYesIsBounded, Held

LEMMA FinishNoHolds ==
  ASSUME CacheInv, NEW c \in Checks, Finishes(c, FALSE),
         UNCHANGED <<nft, gone, cacheExpiry, entry>>
  PROVE  CacheInv'
<1> USE DEF CacheInv
<1>1. answer' \in [valid : BOOLEAN, gone : Nat] /\ StaleYesIsBounded'
  BY AnswerBounded DEF Finishes
<1>2. check' \in [Checks -> [at : Places, since : 0 .. MaxCall]]
  BY ProofCacheAssumption DEF CacheTypes, Finishes, NoCheck, Places
<1>3. ReadIsRecent'
  BY DEF CacheTypes, ReadIsRecent, Finishes, NoCheck, Held
<1> QED BY <1>1, <1>2, <1>3 DEF CacheTypes, EntryIsRecent, Held

LEMMA CacheAndAnswerHolds ==
  ASSUME CacheInv, NEW c \in Checks, CacheAndAnswer(c)
  PROVE  CacheInv'
<1> USE DEF CacheInv
<1>1. /\ check[c].at = "yes" /\ entry' = cacheExpiry
      /\ check' = [check EXCEPT ![c] = NoCheck] /\ Answers(TRUE)
      /\ UNCHANGED <<nft, gone, cacheExpiry>>
  BY DEF CacheAndAnswer, Finishes
<1>2. Held \/ (nft = "burned" /\ gone <= MaxCall)
  BY <1>1, ProofCacheAssumption DEF CacheTypes, ReadIsRecent
<1>3. cacheExpiry \in 0 .. MaxExpiry
  BY ProofCacheAssumption DEF CacheTypes
<1>4. answer' \in [valid : BOOLEAN, gone : Nat] /\ StaleYesIsBounded'
  <2>1. Held \/ gone <= MaxCall + MaxExpiry
    BY <1>2, ProofCacheAssumption DEF CacheTypes
  <2> QED BY <1>1, <2>1, AnswerBounded
<1>5. EntryIsRecent'
  BY <1>1, <1>2, <1>3, ProofCacheAssumption DEF CacheTypes, EntryIsRecent, Held
<1>6. check' \in [Checks -> [at : Places, since : 0 .. MaxCall]]
  BY <1>1, ProofCacheAssumption DEF CacheTypes, NoCheck, Places
<1>7. ReadIsRecent'
  BY <1>1 DEF CacheTypes, ReadIsRecent, NoCheck, Held
<1> QED BY <1>1, <1>3, <1>4, <1>5, <1>6, <1>7 DEF CacheTypes

LEMMA PassTimeHolds ==
  ASSUME CacheInv, PassTime
  PROVE  CacheInv'
<1> USE DEF CacheInv
<1>1. /\ \A c \in Checks : check[c].at # "idle" => check[c].since < MaxCall
      /\ check' = [c \in Checks |-> IF check[c].at = "idle" THEN NoCheck
                                    ELSE [check[c] EXCEPT !.since = @ + 1]]
      /\ entry' = IF entry > 0 THEN entry - 1 ELSE 0
      /\ gone' = IF nft = "burned" /\ gone < Horizon THEN gone + 1 ELSE gone
      /\ UNCHANGED <<nft, cacheExpiry, answer>>
  BY DEF PassTime
<1>2. gone' \in Nat /\ (gone' = gone \/ gone' = gone + 1)
  BY <1>1 DEF CacheTypes
<1>3. \A c \in Checks :
         /\ check'[c] \in [at : Places, since : 0 .. MaxCall]
         /\ check'[c].at = "yes" => /\ check[c].at = "yes"
                                    /\ check'[c].since = check[c].since + 1
  <2> SUFFICES ASSUME NEW c \in Checks
      PROVE  /\ check'[c] \in [at : Places, since : 0 .. MaxCall]
             /\ check'[c].at = "yes" => /\ check[c].at = "yes"
                                        /\ check'[c].since = check[c].since + 1
    OBVIOUS
  <2>1. CASE check[c].at = "idle"
    BY <1>1, <2>1, ProofCacheAssumption DEF CacheTypes, NoCheck, Places
  <2>2. CASE check[c].at # "idle"
    <3>1. check'[c] = [check[c] EXCEPT !.since = check[c].since + 1]
      BY <1>1, <2>2
    <3>2. check[c].since < MaxCall /\ check[c] \in [at : Places, since : 0 .. MaxCall]
      BY <1>1, <2>2 DEF CacheTypes
    <3> QED BY <3>1, <3>2, ProofCacheAssumption
  <2> QED BY <2>1, <2>2
<1>4. ReadIsRecent'
  <2> SUFFICES ASSUME NEW c \in Checks, check'[c].at = "yes"
      PROVE  Held' \/ (nft' = "burned" /\ gone' <= check'[c].since)
    BY DEF ReadIsRecent
  <2>1. check[c].since \in Nat /\ gone \in Nat
    BY ProofCacheAssumption DEF CacheTypes
  <2>2. Held \/ (nft = "burned" /\ gone <= check[c].since)
    BY <1>3 DEF ReadIsRecent
  <2>3. check'[c].since = check[c].since + 1
    BY <1>3
  <2> QED BY <1>1, <1>2, <2>1, <2>2, <2>3 DEF Held
<1>5. entry \in 0 .. MaxExpiry /\ gone \in Nat /\ MaxExpiry \in Nat /\ MaxCall \in Nat
  BY ProofCacheAssumption DEF CacheTypes
<1>6. entry' \in 0 .. MaxExpiry /\ (entry' > 0 => entry > 0 /\ entry' = entry - 1)
  BY <1>1, <1>5
<1>7. EntryIsRecent'
  BY <1>1, <1>2, <1>5, <1>6 DEF EntryIsRecent, Held
<1>8. check' \in [Checks -> [at : Places, since : 0 .. MaxCall]]
  BY <1>1, <1>3
<1> QED BY <1>1, <1>2, <1>4, <1>6, <1>7, <1>8 DEF CacheTypes, StaleYesIsBounded

LEMMA StepHolds == CacheInv /\ [CacheNext]_cacheVars => CacheInv'
<1> SUFFICES ASSUME CacheInv, [CacheNext]_cacheVars PROVE CacheInv'
  OBVIOUS
<1> USE DEF CacheInv
<1>1. ASSUME NEW c \in Checks, NEW message \in Messages, BeginCheck(c, message)
      PROVE  CacheInv'
  BY <1>1, BeginHolds
<1>2. ASSUME NEW c \in Checks, ListAccounts(c) PROVE CacheInv'
  BY <1>2, MoveHolds, FinishNoHolds DEF ListAccounts, Places
<1>3. ASSUME NEW c \in Checks, ReadAmount(c) PROVE CacheInv'
  BY <1>3, MoveHolds, FinishNoHolds DEF ReadAmount, Places
<1>4. ASSUME NEW c \in Checks, CacheAndAnswer(c) PROVE CacheInv'
  BY <1>4, CacheAndAnswerHolds
<1>5. ASSUME NEW c \in Checks, CallFails(c) PROVE CacheInv'
  BY <1>5, FinishNoHolds DEF CallFails
<1>6. CASE ClearCache
  BY <1>6, ProofCacheAssumption
  DEF ClearCache, CacheTypes, ReadIsRecent, EntryIsRecent, StaleYesIsBounded, Held
<1>7. ASSUME NEW seconds \in Expiries, SetCacheExpiry(seconds) PROVE CacheInv'
  BY <1>7 DEF SetCacheExpiry, CacheTypes, ReadIsRecent, EntryIsRecent, StaleYesIsBounded, Held
<1>8. CASE ReceiveNFT
  BY <1>8 DEF ReceiveNFT, CacheTypes, ReadIsRecent, EntryIsRecent, StaleYesIsBounded, Held
<1>9. CASE BurnNFT
  BY <1>9, ProofCacheAssumption
  DEF BurnNFT, CacheTypes, ReadIsRecent, EntryIsRecent, StaleYesIsBounded, Held
<1>10. CASE PassTime
  BY <1>10, PassTimeHolds
<1>11. CASE UNCHANGED cacheVars
  BY <1>11 DEF cacheVars, CacheTypes, ReadIsRecent, EntryIsRecent, StaleYesIsBounded, Held
<1> QED
  BY <1>1, <1>2, <1>3, <1>4, <1>5, <1>6, <1>7, <1>8, <1>9, <1>10, <1>11 DEF CacheNext

\* For every set of checks, every expiry and every bound on a call: a check says yes
\* for a burned Access NFT at most MaxCall + MaxExpiry after it was burned.
THEOREM StaleYes == CacheSpec => []StaleYesIsBounded
<1>1. CacheInv => StaleYesIsBounded
  BY DEF CacheInv
<1> QED BY InitHolds, StepHolds, <1>1, PTL DEF CacheSpec

----------------------------------------------------------------------------
(* The download tracker. *)

Steps == {"idle", "streaming", "updating", "done", "failed", "proved", "unproved"}

TrackerTypes ==
    /\ activeDownloads \in [Cids -> Downloads \cup {Nobody}]
    /\ download \in [Downloads -> [at : Steps, chunks : Nat, peerStats : SUBSET Peers]]

TrackerInv == TrackerTypes /\ ProgressIsLive

LEMMA TrackerStart == TrackerInit => TrackerInv
  BY DEF TrackerInit, TrackerInv, TrackerTypes, ProgressIsLive, Steps

\* A download that goes on, shown or not, is still a running one.
LEMMA DownloadGoesOn ==
  ASSUME TrackerInv, NEW d \in Downloads, NEW to \in {"streaming", "updating"},
         NEW chunks \in Nat, NEW peerStats \in SUBSET Peers,
         download' = [download EXCEPT ![d] =
                         [at |-> to, chunks |-> chunks, peerStats |-> peerStats]],
         UNCHANGED activeDownloads
  PROVE  TrackerInv'
<1>1. TrackerTypes'
  BY DEF TrackerInv, TrackerTypes, Steps
<1>2. \A e \in Downloads : Running(e) => Running(e)'
  BY DEF TrackerInv, TrackerTypes, Running
<1>3. ProgressIsLive'
  BY <1>2 DEF TrackerInv, TrackerTypes, ProgressIsLive, Cids
<1> QED BY <1>1, <1>3 DEF TrackerInv

\* When a download ends its CID shows nobody, so no other CID can show it either.
LEMMA DownloadEnds ==
  ASSUME TrackerInv, NEW d \in Downloads, NEW to \in {"done", "failed"},
         NEW succeeded, download' = [download EXCEPT ![d].at = to],
         AfterDownload(d, succeeded)
  PROVE  TrackerInv'
<1>1. /\ CidOf[d] \in Cids
      /\ activeDownloads' = [activeDownloads EXCEPT ![CidOf[d]] = Nobody]
  BY DEF Cids, AfterDownload
<1>2. TrackerTypes'
  BY <1>1 DEF TrackerInv, TrackerTypes, Steps
<1>3. \A e \in Downloads \ {d} : Running(e) => Running(e)'
  BY DEF TrackerInv, TrackerTypes, Running
<1>4. ProgressIsLive'
  <2> SUFFICES ASSUME NEW cid \in Cids, activeDownloads'[cid] # Nobody
               PROVE  /\ Running(activeDownloads[cid])'
                      /\ CidOf[activeDownloads'[cid]] = cid
    BY DEF ProgressIsLive, Cids
  <2>1. cid # CidOf[d] /\ activeDownloads'[cid] = activeDownloads[cid]
    BY <1>1 DEF TrackerInv, TrackerTypes
  <2>2. Running(activeDownloads[cid]) /\ CidOf[activeDownloads[cid]] = cid
    BY <2>1 DEF TrackerInv, ProgressIsLive
  <2>3. activeDownloads[cid] \in Downloads \ {d}
    BY <2>1, <2>2 DEF TrackerInv, TrackerTypes
  <2>4. download'[activeDownloads[cid]].at \in {"streaming", "updating"}
    BY <1>3, <2>2, <2>3 DEF Running
  <2> QED BY <2>1, <2>2, <2>4 DEF Running
<1> QED BY <1>2, <1>4 DEF TrackerInv

LEMMA TrackerStep ==
  ASSUME TrackerInv, [TrackerNext]_trackerVars
  PROVE  TrackerInv'
<1>1. CASE UNCHANGED <<activeDownloads, download>>
  BY <1>1 DEF TrackerInv, TrackerTypes, ProgressIsLive, Running
<1>2. ASSUME NEW d \in Downloads, TrackPeerPerformance(d)
      PROVE  TrackerInv'
  <2>1. /\ CidOf[d] \in Cids /\ d # Nobody
        /\ download' = [download EXCEPT ![d].at = "streaming"]
        /\ activeDownloads' = [activeDownloads EXCEPT ![CidOf[d]] = d]
    BY <1>2, TrustMonitorAssumption DEF Cids, TrackPeerPerformance, TrustMonitorAssumption
  <2>2. TrackerTypes'
    BY <2>1 DEF TrackerInv, TrackerTypes, Steps
  <2>3. Running(d)' /\ \A e \in Downloads : Running(e) => Running(e)'
    BY <2>1 DEF TrackerInv, TrackerTypes, Running
  <2>4. ProgressIsLive'
    BY <2>1, <2>3 DEF TrackerInv, TrackerTypes, ProgressIsLive, Cids
  <2> QED BY <2>2, <2>4 DEF TrackerInv
<1>3. ASSUME NEW d \in Downloads, ReceiveChunk(d)
      PROVE  TrackerInv'
  <2>1. download[d].chunks + 1 \in Nat /\ download[d].peerStats \in SUBSET Peers
    BY DEF TrackerInv, TrackerTypes
  <2> QED BY <1>3, <2>1, DownloadGoesOn DEF ReceiveChunk
<1>4. ASSUME NEW d \in Downloads, UpdatePeerStats(d)
      PROVE  TrackerInv'
  <2>1. PICK connected \in SUBSET Peers :
           download' = [download EXCEPT ![d] =
                           [at |-> "streaming", chunks |-> download[d].chunks,
                            peerStats |-> download[d].peerStats \cup connected]]
    BY <1>4 DEF UpdatePeerStats
  <2>2. /\ download[d].chunks \in Nat
        /\ download[d].peerStats \cup connected \in SUBSET Peers
    BY DEF TrackerInv, TrackerTypes
  <2> QED BY <1>4, <2>1, <2>2, DownloadGoesOn DEF UpdatePeerStats
<1>5. ASSUME NEW d \in Downloads, FinishDownload(d) \/ DownloadFails(d)
      PROVE  TrackerInv'
  BY <1>5, DownloadEnds DEF FinishDownload, DownloadFails
<1>6. ASSUME NEW d \in Downloads, GenerateProofOfDelivery(d)
      PROVE  TrackerInv'
  <2>1. PICK to \in {"proved", "unproved"} : download' = [download EXCEPT ![d].at = to]
    BY <1>6 DEF GenerateProofOfDelivery
  <2>2. ~Running(d) /\ UNCHANGED activeDownloads
    BY <1>6 DEF GenerateProofOfDelivery, Running
  <2>3. TrackerTypes'
    BY <2>1, <2>2 DEF TrackerInv, TrackerTypes, Steps
  <2>4. \A e \in Downloads : Running(e) => Running(e)'
    BY <2>1, <2>2 DEF TrackerInv, TrackerTypes, Running
  <2>5. ProgressIsLive'
    BY <2>2, <2>4 DEF TrackerInv, TrackerTypes, ProgressIsLive, Cids
  <2> QED BY <2>3, <2>5 DEF TrackerInv
<1>7. CASE Disconnect
  BY <1>7 DEF Disconnect, TrackerInv, TrackerTypes, ProgressIsLive
<1> QED
  BY <1>1, <1>2, <1>3, <1>4, <1>5, <1>6, <1>7
  DEF TrackerNext, RegisterPeerMapping, trackerVars

\* For any downloads, CIDs and peers: the progress a CID shows is that of a download of
\* this CID that still runs.
THEOREM ProgressAlwaysLive == TrackerSpec => []ProgressIsLive
<1>1. TrackerInv => ProgressIsLive
  BY DEF TrackerInv
<1>2. TrackerInv /\ [TrackerNext]_trackerVars => TrackerInv'
  BY TrackerStep
<1> QED BY TrackerStart, <1>1, <1>2, PTL DEF TrackerSpec

----------------------------------------------------------------------------
(* The reward monitor. *)

\* What StakingPoolProofs says of a pool in which the workflow's amount may be named
\* as well.
PoolFacts == INSTANCE StakingPoolProofs WITH Amounts <- Amounts \cup {StakeAmount}

CallbackPlaces == {"idle", "looking", "comparing", "claiming", "computing", "sending", "finishing"}

\* The workflow's account in the pool.
Stake == position[Staker].amount_staked
Debt == position[Staker].reward_debt
Earnings == entitled[Staker]
PerToken == pool.reward_per_token

\* The workflow's stake is in the pool.
Staked == workflow \in {"watching", "returned", "leaving"}

\* The gross rewards of the workflow's stake.
Gross == StakeAmount * PerToken

CallbackRecord == [at : CallbackPlaces, seen : [amount_staked : Nat, reward_debt : Nat], owed : Nat]

MonitorTypes ==
    /\ workflow \in {"idle", "watching", "returned", "leaving", "left"}
    /\ callback \in [Callbacks -> CallbackRecord]
    /\ reported \in [Callbacks -> Nat]

StakeFollowsWorkflow ==
    /\ Stake = IF Staked THEN StakeAmount ELSE 0
    /\ workflow = "idle" => /\ ~ticking
                            /\ \A k \in Callbacks : /\ callback[k].at = "idle"
                                                    /\ reported[k] = 0

\* While the stake is there, Gross - entitled stands still, and what a callback has
\* reported lies below the debt of the position, of the position it has read, and with
\* what it is about to claim below what was earned.
Covered(k) ==
    /\ reported[k] * Precision + Gross <= Debt + Earnings
    /\ callback[k].at = "computing" =>
          /\ callback[k].seen.amount_staked = StakeAmount
          /\ reported[k] * Precision + Gross <= callback[k].seen.reward_debt + Earnings
    /\ callback[k].at = "sending" =>
          (reported[k] + callback[k].owed) * Precision <= Earnings

ChainsCovered == Staked => \A k \in Callbacks : Covered(k)

ClientInv == MonitorTypes /\ StakeFollowsWorkflow /\ ChainsCovered /\ ReportsWereEarned

MonitorInv == Pool!TypeOK /\ Pool!DebtCovered /\ ClientInv

----------------------------------------------------------------------------
(* The pool, as its own proofs see it. *)

LEMMA PoolAssumes == PoolFacts!StakingPoolAssumption
<1>1. Pool!StakingPoolAssumption /\ StakeAmount \in Nat
  BY RewardMonitorAssumption DEF RewardMonitorAssumption
<1>2. Pool!FeeRate = PoolFacts!FeeRate
  BY DEF Pool!FeeRate, PoolFacts!FeeRate, Pool!FeeDenominator, PoolFacts!FeeDenominator
<1>3. Pool!IsFiniteSet(Stakers) <=> PoolFacts!IsFiniteSet(Stakers)
  BY DEF Pool!IsFiniteSet, PoolFacts!IsFiniteSet
<1>4. Amounts \cup {StakeAmount} \subseteq Nat
  BY <1>1 DEF Pool!StakingPoolAssumption
<1> QED
  BY <1>1, <1>2, <1>3, <1>4, Zenon
  DEF Pool!StakingPoolAssumption, PoolFacts!StakingPoolAssumption

LEMMA MonitorConstants ==
  /\ Staker \in Stakers /\ StakeAmount \in Nat /\ Precision \in Nat \ {0}
  /\ RewardThreshold \in Nat \ {0}
BY RewardMonitorAssumption DEF RewardMonitorAssumption, Pool!StakingPoolAssumption

LEMMA SamePool ==
  /\ Pool!TypeOK <=> PoolFacts!TypeOK
  /\ Pool!DebtCovered <=> PoolFacts!DebtCovered
  /\ Pool!Init <=> PoolFacts!Init
  /\ Pool!Mint = PoolFacts!Mint /\ "collection" \in PoolFacts!Mint
  /\ \A s \in Stakers, amount \in Nat, mint \in PoolFacts!Mint :
        /\ Pool!StakeCollectionTokens(s, amount, mint)
              <=> PoolFacts!StakeCollectionTokens(s, amount, mint)
        /\ Pool!UnstakeCollectionTokens(s, amount, mint)
              <=> PoolFacts!UnstakeCollectionTokens(s, amount, mint)
  /\ \A s \in Stakers, mint \in PoolFacts!Mint :
        Pool!ClaimStakingRewards(s, mint) <=> PoolFacts!ClaimStakingRewards(s, mint)
  /\ \A total \in Amounts, bp \in FeeRates :
        /\ Pool!PurchaseAccess(total, bp) <=> PoolFacts!PurchaseAccess(total, bp)
        /\ Pool!AmountToStakers(total, bp) = PoolFacts!AmountToStakers(total, bp)
<1> USE DEF Pool!U128, PoolFacts!U128, Pool!PendingComputes, PoolFacts!PendingComputes,
            Pool!PendingTokens, PoolFacts!PendingTokens, Pool!Pending, PoolFacts!Pending,
            Pool!Accumulated, PoolFacts!Accumulated, Pool!Settle, PoolFacts!Settle,
            Pool!DebtOf, PoolFacts!DebtOf, Pool!TakeFrom, PoolFacts!TakeFrom,
            Pool!PayTo, PoolFacts!PayTo
<1>1. /\ Pool!TypeOK <=> PoolFacts!TypeOK
      /\ Pool!DebtCovered <=> PoolFacts!DebtCovered
      /\ Pool!Init <=> PoolFacts!Init
  BY DEF Pool!TypeOK, PoolFacts!TypeOK, Pool!DebtCovered, PoolFacts!DebtCovered,
         Pool!Init, PoolFacts!Init
<1>2. ASSUME NEW s \in Stakers, NEW amount \in Nat, NEW mint
      PROVE  Pool!StakeCollectionTokens(s, amount, mint)
                <=> PoolFacts!StakeCollectionTokens(s, amount, mint)
  BY DEF Pool!StakeCollectionTokens, PoolFacts!StakeCollectionTokens
<1>3. ASSUME NEW s \in Stakers, NEW amount \in Nat, NEW mint
      PROVE  Pool!UnstakeCollectionTokens(s, amount, mint)
                <=> PoolFacts!UnstakeCollectionTokens(s, amount, mint)
  BY DEF Pool!UnstakeCollectionTokens, PoolFacts!UnstakeCollectionTokens,
         Pool!CanUnstake, PoolFacts!CanUnstake, Pool!UnstakeTransfer,
         PoolFacts!UnstakeTransfer, Pool!PoolAfterUnstake, PoolFacts!PoolAfterUnstake
<1>4. ASSUME NEW s \in Stakers, NEW mint
      PROVE  Pool!ClaimStakingRewards(s, mint) <=> PoolFacts!ClaimStakingRewards(s, mint)
  BY DEF Pool!ClaimStakingRewards, PoolFacts!ClaimStakingRewards
<1>5. ASSUME NEW total \in Amounts, NEW bp \in FeeRates
      PROVE  Pool!AmountToStakers(total, bp) = PoolFacts!AmountToStakers(total, bp)
  BY DEF Pool!AmountToStakers, Pool!AmountToEscrow, Pool!AmountAfterFee, Pool!TotalFee,
         Pool!FeeDenominator, Pool!SplitToStakers, Pool!SplitToPeersEscrow,
         PoolFacts!AmountToStakers, PoolFacts!AmountToEscrow, PoolFacts!AmountAfterFee,
         PoolFacts!TotalFee, PoolFacts!FeeDenominator, PoolFacts!SplitToStakers,
         PoolFacts!SplitToPeersEscrow
<1>6. ASSUME NEW total \in Amounts, NEW bp \in FeeRates
      PROVE  Pool!PurchaseAccess(total, bp) <=> PoolFacts!PurchaseAccess(total, bp)
  BY <1>5
  DEF Pool!PurchaseAccess, PoolFacts!PurchaseAccess, Pool!AccrueRewards,
      PoolFacts!AccrueRewards, Pool!RewardIncrement, PoolFacts!RewardIncrement
<1>7. Pool!Mint = PoolFacts!Mint /\ "collection" \in PoolFacts!Mint
  BY DEF Pool!Mint, PoolFacts!Mint
<1> QED BY <1>1, <1>2, <1>3, <1>4, <1>5, <1>6, <1>7

\* Every step of the workflow is one of the pool, or leaves it alone.
LEMMA MonitorStepsThePool ==
  ASSUME [MonitorNext]_monitorVars
  PROVE  [PoolFacts!Next]_PoolFacts!vars
<1> DEFINE Quiet == UNCHANGED PoolFacts!vars
<1>1. UNCHANGED poolVars => Quiet
  BY DEF poolVars, PoolFacts!vars
<1>2. CASE UNCHANGED monitorVars
  BY <1>2 DEF monitorVars, PoolFacts!vars
<1>3. CASE StakeAndWatch \/ SubmitUnstake
  BY <1>3, SamePool, MonitorConstants DEF StakeAndWatch, SubmitUnstake, PoolFacts!Next
<1>4. CASE ReturnTotals \/ BeginUnstake
  BY <1>1, <1>4 DEF ReturnTotals, BeginUnstake
<1>5. ASSUME NEW k \in Callbacks, Fire(k) \/ CallbackStep(k) \/ FetchFails(k)
      PROVE  [PoolFacts!Next]_PoolFacts!vars
  <2>1. CASE SubmitClaim(k)
    BY <2>1, SamePool, MonitorConstants DEF SubmitClaim, PoolFacts!Next
  <2>2. CASE ~SubmitClaim(k)
    BY <1>1, <1>5, <2>2
    DEF CallbackStep, Fire, LookAtPosition, FetchPosition, CompareReward, ReadBeforeClaim,
        ComputeReward, ClaimRefused, FinishCallback, FetchFails
  <2> QED BY <2>1, <2>2
<1>6. ASSUME NEW total \in Amounts, NEW bp \in FeeRates, SomebodyBuys(total, bp)
      PROVE  [PoolFacts!Next]_PoolFacts!vars
  BY <1>6, SamePool DEF SomebodyBuys, PoolFacts!Next
<1>7. CASE OthersStake
  <2>1. Amounts \subseteq Nat
    BY PoolAssumes DEF PoolFacts!StakingPoolAssumption
  <2> QED BY <1>7, <2>1, SamePool DEF OthersStake, PoolFacts!Next
<1> QED BY <1>2, <1>3, <1>4, <1>5, <1>6, <1>7 DEF MonitorNext

LEMMA PoolStaysTyped ==
  ASSUME Pool!TypeOK, Pool!DebtCovered, [MonitorNext]_monitorVars
  PROVE  Pool!TypeOK' /\ Pool!DebtCovered'
<1>1. PoolFacts!TypeOK' /\ PoolFacts!DebtCovered'
  BY SamePool, PoolAssumes, MonitorStepsThePool, PoolFacts!TypeNext, PoolFacts!DebtCoveredNext
<1>2. (Pool!TypeOK <=> PoolFacts!TypeOK)' /\ (Pool!DebtCovered <=> PoolFacts!DebtCovered)'
  BY DEF Pool!TypeOK, PoolFacts!TypeOK, Pool!DebtCovered, PoolFacts!DebtCovered,
         Pool!Pending, PoolFacts!Pending, Pool!Accumulated, PoolFacts!Accumulated
<1> QED BY <1>1, <1>2

----------------------------------------------------------------------------
(* What the steps do to the staker's account and to its line of earnings. *)

LEMMA AccountTypes ==
  ASSUME Pool!TypeOK, Pool!DebtCovered
  PROVE  /\ Stake \in Nat /\ Debt \in Nat /\ Earnings \in Nat /\ PerToken \in Nat
         /\ Debt <= Stake * PerToken /\ Gross \in Nat
<1>1. Stake \in Nat /\ Debt \in Nat /\ Earnings \in Nat /\ PerToken \in Nat
  BY MonitorConstants DEF Pool!TypeOK, Stake, Debt, Earnings, PerToken
<1>2. Stake * PerToken \in Nat /\ StakeAmount * PerToken \in Nat
  BY <1>1, MonitorConstants, PoolFacts!MulMono
<1>3. Stake * PerToken - Debt >= 0
  BY MonitorConstants DEF Pool!DebtCovered, Pool!Pending, Pool!Accumulated, Stake, Debt, PerToken
<1> QED BY <1>1, <1>2, <1>3 DEF Gross

LEMMA StakerStakes ==
  ASSUME Pool!TypeOK, NEW amount \in Nat, NEW mint,
         Pool!StakeCollectionTokens(Staker, amount, mint)
  PROVE  /\ Stake' = Stake + amount /\ Debt' = (Stake + amount) * PerToken
         /\ UNCHANGED <<Earnings, PerToken>>
BY MonitorConstants
DEF Pool!TypeOK, Pool!StakeCollectionTokens, Pool!Settle, Pool!DebtOf, Stake, Debt,
    Earnings, PerToken

LEMMA StakerClaims ==
  ASSUME Pool!TypeOK, NEW mint, Pool!ClaimStakingRewards(Staker, mint)
  PROVE  /\ Stake > 0 /\ Debt' = Stake * PerToken
         /\ UNCHANGED <<Stake, Earnings, PerToken>>
BY MonitorConstants
DEF Pool!TypeOK, Pool!ClaimStakingRewards, Pool!Settle, Pool!DebtOf, Stake, Debt,
    Earnings, PerToken

LEMMA StakerLeaves ==
  ASSUME Pool!TypeOK, NEW amount \in Nat, NEW mint,
         Pool!UnstakeCollectionTokens(Staker, amount, mint)
  PROVE  Stake' = Stake - amount /\ UNCHANGED <<Earnings, PerToken>>
BY MonitorConstants
DEF Pool!TypeOK, Pool!UnstakeCollectionTokens, Pool!PoolAfterUnstake, Pool!Settle,
    Pool!DebtOf, Stake, Debt, Earnings, PerToken

LEMMA OthersMove ==
  ASSUME Pool!TypeOK, OthersStake
  PROVE  UNCHANGED <<Stake, Debt, Earnings, PerToken>>
BY MonitorConstants
DEF Pool!TypeOK, OthersStake, Pool!StakeCollectionTokens, Pool!UnstakeCollectionTokens,
    Pool!ClaimStakingRewards, Pool!PoolAfterUnstake, Pool!Settle, Stake, Debt,
    Earnings, PerToken

\* A purchase raises what the workflow's stake is worth and what it has earned alike.
LEMMA PurchaseRaises ==
  ASSUME Pool!TypeOK, NEW total \in Amounts, NEW bp \in FeeRates,
         Pool!PurchaseAccess(total, bp)
  PROVE  /\ UNCHANGED <<Stake, Debt>>
         /\ \E i \in Nat : PerToken' = PerToken + i /\ Earnings' = Earnings + Stake * i
<1> DEFINE amount == Pool!AmountToStakers(total, bp)
<1>1. amount \in Nat
  BY SamePool, PoolAssumes, PoolFacts!PurchaseAmount
<1>2. Pool!AccrueRewards(amount)
  BY DEF Pool!PurchaseAccess
<1> HIDE DEF amount
<1>3. CASE pool.total_staked > 0
  <2>1. Pool!RewardIncrement(amount) \in Nat
    <3>1. Pool!RewardIncrement(amount) = PoolFacts!RewardIncrement(amount)
      BY DEF Pool!RewardIncrement, PoolFacts!RewardIncrement
    <3> QED BY <1>1, <1>3, <3>1, SamePool, PoolAssumes, PoolFacts!RewardIncrementNat
  <2>2. /\ pool' = [pool EXCEPT !.reward_per_token = @ + Pool!RewardIncrement(amount)]
        /\ entitled' = [s \in Stakers |-> entitled[s]
                          + position[s].amount_staked * Pool!RewardIncrement(amount)]
        /\ UNCHANGED position
    BY <1>2, <1>3 DEF Pool!AccrueRewards
  <2> QED BY <2>1, <2>2, MonitorConstants DEF Pool!TypeOK, Stake, Debt, Earnings, PerToken
<1>4. CASE ~(pool.total_staked > 0)
  <2>1. UNCHANGED <<pool, entitled, position>>
    BY <1>2, <1>4 DEF Pool!AccrueRewards
  <2>2. Stake \in Nat /\ Earnings \in Nat /\ PerToken \in Nat
    BY MonitorConstants DEF Pool!TypeOK, Stake, Earnings, PerToken
  <2>3. PerToken' = PerToken + 0 /\ Earnings' = Earnings + Stake * 0
    BY <2>1, <2>2 DEF Earnings, PerToken
  <2> QED BY <2>1, <2>3 DEF Stake, Debt
<1> QED BY <1>3, <1>4

----------------------------------------------------------------------------
(* Steps of one callback that leave the pool and the reports alone. *)

LEMMA CallbackMoves ==
  ASSUME MonitorInv, NEW k \in Callbacks, NEW new \in CallbackRecord,
         callback' = [callback EXCEPT ![k] = new],
         workflow # "idle", UNCHANGED <<poolVars, workflow, reported>>,
         Staked /\ new.at = "computing" =>
            /\ new.seen.amount_staked = StakeAmount
            /\ reported[k] * Precision + Gross <= new.seen.reward_debt + Earnings,
         Staked /\ new.at = "sending" =>
            (reported[k] + new.owed) * Precision <= Earnings
  PROVE  ClientInv'
<1>1. /\ UNCHANGED <<Stake, Debt, Earnings, PerToken, Gross, Staked>>
      /\ entitled' = entitled
  BY DEF poolVars, Stake, Debt, Earnings, PerToken, Gross, Staked
<1>2. MonitorTypes'
  BY DEF MonitorInv, ClientInv, MonitorTypes
<1>3. StakeFollowsWorkflow'
  BY <1>1 DEF MonitorInv, ClientInv, StakeFollowsWorkflow
<1>4. ChainsCovered'
  <2> SUFFICES ASSUME Staked, NEW j \in Callbacks PROVE Covered(j)'
    BY <1>1 DEF ChainsCovered
  <2>1. Covered(j)
    BY DEF MonitorInv, ClientInv, ChainsCovered
  <2>2. CASE j = k
    <3>1. callback'[j] = new
      BY <2>2 DEF MonitorInv, ClientInv, MonitorTypes
    <3> QED BY <1>1, <2>1, <2>2, <3>1 DEF Covered
  <2>3. CASE j # k
    <3>1. callback'[j] = callback[j]
      BY <2>3 DEF MonitorInv, ClientInv, MonitorTypes
    <3> QED BY <1>1, <2>1, <3>1 DEF Covered
  <2> QED BY <2>2, <2>3
<1>5. ReportsWereEarned'
  BY <1>1 DEF MonitorInv, ClientInv, ReportsWereEarned
<1> QED BY <1>2, <1>3, <1>4, <1>5 DEF ClientInv

\* To a place where it has nothing read or computed to answer for.
LEMMA CallbackGoes ==
  ASSUME MonitorInv, NEW k \in Callbacks, NEW to \in CallbackPlaces \ {"computing", "sending"},
         Moves(k, to), workflow # "idle", UNCHANGED <<poolVars, workflow, reported>>
  PROVE  ClientInv'
<1> DEFINE new == [at |-> to, seen |-> callback[k].seen, owed |-> callback[k].owed]
<1>1. new \in CallbackRecord /\ new.at = to
  BY DEF MonitorInv, ClientInv, MonitorTypes, CallbackRecord
<1>2. callback' = [callback EXCEPT ![k] = new]
  <2>1. callback[k] \in CallbackRecord
    BY DEF MonitorInv, ClientInv, MonitorTypes
  <2>2. [callback[k] EXCEPT !.at = to] = new
    BY <2>1 DEF CallbackRecord
  <2>3. callback' = [callback EXCEPT ![k] = [callback[k] EXCEPT !.at = to]]
    BY DEF Moves
  <2> QED BY <2>2, <2>3
<1> HIDE DEF new
<1> QED BY <1>1, <1>2, CallbackMoves

LEMMA CallbackEnds ==
  ASSUME MonitorInv, NEW k \in Callbacks, Ends(k), workflow # "idle",
         UNCHANGED <<poolVars, workflow, reported>>
  PROVE  ClientInv'
<1>1. NoCallback \in CallbackRecord /\ NoCallback.at = "idle"
  BY DEF NoCallback, CallbackRecord, CallbackPlaces
<1> QED BY <1>1, CallbackMoves DEF Ends

\* A callback under way means the workflow has staked.
LEMMA UnderWay ==
  ASSUME MonitorInv, NEW k \in Callbacks, ticking \/ callback[k].at # "idle"
  PROVE  workflow # "idle"
BY DEF MonitorInv, ClientInv, StakeFollowsWorkflow

\* Reading the position, the debt that covers the reports is read with it.
LEMMA FetchHolds ==
  ASSUME MonitorInv, NEW k \in Callbacks, NEW from \in {"looking", "claiming"},
         NEW to \in {"comparing", "computing"}, FetchPosition(k, from, to)
  PROVE  ClientInv'
<1> DEFINE new == [at |-> to, seen |-> position[Staker], owed |-> 0]
<1>1. new \in CallbackRecord
  BY MonitorConstants DEF MonitorInv, Pool!TypeOK, CallbackRecord, CallbackPlaces
<1>2. /\ callback' = [callback EXCEPT ![k] = new]
      /\ workflow # "idle" /\ UNCHANGED <<poolVars, workflow, reported>>
  BY UnderWay DEF FetchPosition, At
<1>3. new.at \in {"comparing", "computing"} /\ new.seen = position[Staker]
  OBVIOUS
<1>4. Staked => /\ position[Staker].amount_staked = StakeAmount
                /\ reported[k] * Precision + Gross <= position[Staker].reward_debt + Earnings
  BY DEF MonitorInv, ClientInv, StakeFollowsWorkflow, ChainsCovered, Covered, Stake, Debt
<1> HIDE DEF new
<1> QED BY <1>1, <1>2, <1>3, <1>4, CallbackMoves

\* Rounding down, what the debt covers and what is owed beyond it were earned.
LEMMA OwedIsEarned ==
  ASSUME NEW r \in Nat, NEW gross \in Nat, NEW debt \in Nat, NEW earned \in Nat,
         r * Precision + gross <= debt + earned,
         (gross - debt) \div Precision > 0
  PROVE  /\ (gross - debt) \div Precision \in Nat
         /\ (r + ((gross - debt) \div Precision)) * Precision <= earned
<1> DEFINE owed == (gross - debt) \div Precision
<1>1. owed \in Int /\ owed * Precision <= gross - debt
  BY MonitorConstants
<1>2. (r + owed) * Precision = r * Precision + owed * Precision
  BY <1>1, MonitorConstants
<1>3. r * Precision \in Nat /\ owed * Precision \in Int
  BY <1>1, MonitorConstants, PoolFacts!MulMono
<1> QED BY <1>1, <1>2, <1>3

LEMMA ComputeHolds ==
  ASSUME MonitorInv, NEW k \in Callbacks, ComputeReward(k)
  PROVE  ClientInv'
<1> DEFINE seen == callback[k].seen
           owed == OwedOn(seen)
           new == [at |-> "sending", seen |-> seen, owed |-> owed]
<1>1. /\ workflow # "idle" /\ callback[k].at = "computing"
      /\ UNCHANGED <<poolVars, workflow, reported>>
  BY UnderWay DEF ComputeReward, At
<1>2. CASE owed > 0
  <2>1. callback' = [callback EXCEPT ![k] = new]
    BY <1>2 DEF ComputeReward
  <2>2. /\ seen \in [amount_staked : Nat, reward_debt : Nat] /\ reported[k] \in Nat
        /\ Earnings \in Nat /\ PerToken \in Nat /\ Gross \in Nat
    BY AccountTypes DEF MonitorInv, ClientInv, MonitorTypes, CallbackRecord
  <2>3. owed \in Nat
    <3>1. seen.amount_staked * PerToken \in Nat
      BY <2>2, PoolFacts!MulMono
    <3> QED BY <1>2, <2>2, <3>1, MonitorConstants DEF OwedOn, PerToken
  <2>4. Staked => (reported[k] + owed) * Precision <= Earnings
    <3> SUFFICES ASSUME Staked PROVE (reported[k] + owed) * Precision <= Earnings
      OBVIOUS
    <3>1. /\ seen.amount_staked = StakeAmount
          /\ reported[k] * Precision + Gross <= seen.reward_debt + Earnings
      BY <1>1 DEF MonitorInv, ClientInv, ChainsCovered, Covered
    <3>2. owed = (Gross - seen.reward_debt) \div Precision
      BY <3>1 DEF OwedOn, Gross, PerToken
    <3> HIDE DEF owed, seen
    <3> QED BY <1>2, <2>2, <3>1, <3>2, OwedIsEarned
  <2>5. new \in CallbackRecord /\ new.at = "sending" /\ new.owed = owed
    BY <2>2, <2>3 DEF CallbackRecord, CallbackPlaces
  <2> HIDE DEF new, owed, seen
  <2> QED BY <1>1, <2>1, <2>4, <2>5, CallbackMoves
<1>3. CASE ~(owed > 0)
  <2>1. Ends(k)
    BY <1>3 DEF ComputeReward
  <2> QED BY <1>1, <2>1, CallbackEnds
<1> QED BY <1>2, <1>3

----------------------------------------------------------------------------
(* Steps of the pool. *)

\* The debt covers as much after a purchase, on both sides of which stands the same
\* growth of the stake's rewards.
LEMMA WorldMoves ==
  ASSUME MonitorInv, UNCHANGED <<callback, reported, Stake, Debt, Staked>>,
         workflow' \in {"idle", "watching", "returned", "leaving", "left"},
         workflow' = "idle" => workflow = "idle" /\ UNCHANGED ticking,
         NEW i \in Nat, PerToken' = PerToken + i, Earnings' = Earnings + Stake * i
  PROVE  ClientInv'
<1>1. /\ Stake \in Nat /\ Debt \in Nat /\ Earnings \in Nat /\ PerToken \in Nat
      /\ Gross \in Nat /\ Stake * i \in Nat
  BY AccountTypes, PoolFacts!MulMono DEF MonitorInv
<1>2. \A k \in Callbacks : /\ reported[k] * Precision \in Nat
                           /\ callback[k].seen.reward_debt \in Nat
  BY MonitorConstants, PoolFacts!MulMono
  DEF MonitorInv, ClientInv, MonitorTypes, CallbackRecord
<1>3. MonitorTypes' /\ StakeFollowsWorkflow'
  BY DEF MonitorInv, ClientInv, MonitorTypes, StakeFollowsWorkflow
<1> DEFINE growth == Stake * i
           after == Earnings'
<1>4. after = Earnings + growth /\ growth \in Nat
  BY <1>1
<1>5. ChainsCovered'
  <2> SUFFICES ASSUME Staked, NEW k \in Callbacks PROVE Covered(k)'
    BY DEF ChainsCovered
  <2>1. Stake = StakeAmount
    BY DEF MonitorInv, ClientInv, StakeFollowsWorkflow
  <2>2. StakeAmount * (PerToken + i) = StakeAmount * PerToken + StakeAmount * i
    BY <1>1, MonitorConstants
  <2>3. Gross' = Gross + growth
    BY <2>1, <2>2 DEF Gross
  <2>4. Covered(k)
    BY DEF MonitorInv, ClientInv, ChainsCovered
  <2>5. callback[k].at = "sending" => callback[k].owed \in Nat /\ reported[k] \in Nat
    BY DEF MonitorInv, ClientInv, MonitorTypes, CallbackRecord
  <2>6. (reported[k] + callback[k].owed) * Precision \in Int
    BY MonitorConstants DEF MonitorInv, ClientInv, MonitorTypes, CallbackRecord
  <2> DEFINE gross == Gross'
  <2> HIDE DEF growth, after, gross
  <2>7. reported[k] * Precision + gross <= Debt + after
    BY <1>1, <1>2, <1>4, <2>3, <2>4 DEF Covered, gross
  <2>8. callback[k].at = "computing" =>
          /\ callback[k].seen.amount_staked = StakeAmount
          /\ reported[k] * Precision + gross <= callback[k].seen.reward_debt + after
    BY <1>1, <1>2, <1>4, <2>3, <2>4 DEF Covered, gross
  <2>9. callback[k].at = "sending" => (reported[k] + callback[k].owed) * Precision <= after
    BY <1>1, <1>4, <2>4, <2>6 DEF Covered
  <2> QED BY <2>7, <2>8, <2>9 DEF Covered, gross, after
<1>6. ReportsWereEarned'
  <2> HIDE DEF growth, after
  <2>1. \A k \in Callbacks : reported[k] * Precision <= after
    BY <1>1, <1>2, <1>4 DEF MonitorInv, ClientInv, ReportsWereEarned, Earnings
  <2> QED BY <2>1 DEF ReportsWereEarned, after, Earnings
<1> QED BY <1>3, <1>5, <1>6 DEF ClientInv

LEMMA StakeHolds ==
  ASSUME MonitorInv, StakeAndWatch
  PROVE  ClientInv'
<1>1. /\ workflow = "idle" /\ Stake = 0 /\ workflow' = "watching"
      /\ UNCHANGED <<callback, reported>>
  BY DEF StakeAndWatch, MonitorInv, ClientInv, StakeFollowsWorkflow, Staked
<1>2. /\ Stake' = 0 + StakeAmount /\ Debt' = (0 + StakeAmount) * PerToken
      /\ UNCHANGED <<Earnings, PerToken>>
  BY <1>1, StakerStakes, MonitorConstants DEF StakeAndWatch, MonitorInv
<1>3. Stake' = StakeAmount /\ Debt' = Gross /\ Gross' = Gross
  BY <1>2, MonitorConstants DEF Gross
<1>4. Gross \in Nat /\ Earnings \in Nat
  BY AccountTypes DEF MonitorInv
<1>5. \A k \in Callbacks : callback[k].at = "idle" /\ reported[k] = 0
  BY <1>1 DEF MonitorInv, ClientInv, StakeFollowsWorkflow
<1>6. \A k \in Callbacks : reported[k] * Precision + Gross <= Gross + Earnings
  BY <1>4, <1>5, MonitorConstants
<1>7. MonitorTypes' /\ StakeFollowsWorkflow'
  BY <1>1, <1>3 DEF MonitorInv, ClientInv, MonitorTypes, StakeFollowsWorkflow, Staked
<1>8. ChainsCovered'
  BY <1>1, <1>2, <1>3, <1>5, <1>6 DEF ChainsCovered, Covered
<1>9. ReportsWereEarned'
  BY <1>1, <1>2 DEF MonitorInv, ClientInv, ReportsWereEarned, Earnings
<1> QED BY <1>7, <1>8, <1>9 DEF ClientInv

LEMMA LeaveHolds ==
  ASSUME MonitorInv, SubmitUnstake
  PROVE  ClientInv'
<1>1. /\ workflow = "leaving" /\ Stake = StakeAmount /\ workflow' = "left"
      /\ UNCHANGED <<callback, reported>>
  BY DEF SubmitUnstake, MonitorInv, ClientInv, StakeFollowsWorkflow, Staked
<1>2. Stake' = Stake - StakeAmount /\ UNCHANGED Earnings
  BY StakerLeaves, MonitorConstants DEF SubmitUnstake, MonitorInv
<1>3. Stake' = 0
  BY <1>1, <1>2, MonitorConstants
<1>4. ~Staked'
  BY <1>1 DEF Staked
<1>5. MonitorTypes' /\ StakeFollowsWorkflow' /\ ChainsCovered'
  BY <1>1, <1>3, <1>4
  DEF MonitorInv, ClientInv, MonitorTypes, StakeFollowsWorkflow, ChainsCovered
<1>6. ReportsWereEarned'
  BY <1>1, <1>2 DEF MonitorInv, ClientInv, ReportsWereEarned, Earnings
<1> QED BY <1>5, <1>6 DEF ClientInv

\* A claim that succeeds raises the debt to the line of what was earned, for every
\* callback; the one that sent it reports no more than it had computed.
LEMMA ClaimHolds ==
  ASSUME MonitorInv, NEW k \in Callbacks, SubmitClaim(k)
  PROVE  ClientInv'
<1> DEFINE new == [at |-> "finishing", seen |-> callback[k].seen, owed |-> callback[k].owed]
           sum == reported[k] + callback[k].owed
<1>1. /\ Stake > 0 /\ Debt' = Stake * PerToken
      /\ UNCHANGED <<Stake, Earnings, PerToken, workflow>>
      /\ callback[k].at = "sending" /\ workflow # "idle"
      /\ reported' = [reported EXCEPT ![k] = sum]
  BY StakerClaims, UnderWay DEF SubmitClaim, At, MonitorInv
<1>2. callback' = [callback EXCEPT ![k] = new]
  <2>1. callback[k] \in CallbackRecord
    BY DEF MonitorInv, ClientInv, MonitorTypes
  <2>2. [callback[k] EXCEPT !.at = "finishing"] = new
    BY <2>1 DEF CallbackRecord
  <2>3. callback' = [callback EXCEPT ![k] = [callback[k] EXCEPT !.at = "finishing"]]
    BY DEF SubmitClaim, Moves
  <2> QED BY <2>2, <2>3
<1>3. /\ new \in CallbackRecord /\ new.at = "finishing" /\ sum \in Nat
      /\ \A j \in Callbacks : reported[j] \in Nat
  BY DEF MonitorInv, ClientInv, MonitorTypes, CallbackRecord, CallbackPlaces
<1>4. Staked /\ Stake = StakeAmount
  BY <1>1 DEF MonitorInv, ClientInv, StakeFollowsWorkflow
<1>5. Debt' = Gross /\ Gross' = Gross /\ Staked'
  BY <1>1, <1>4 DEF Gross, Staked
<1>6. /\ Gross \in Nat /\ Earnings \in Nat /\ Debt \in Nat /\ Debt <= Gross
  BY <1>4, AccountTypes DEF MonitorInv, Gross
<1>7. /\ \A j \in Callbacks : Covered(j)
      /\ sum * Precision <= Earnings
  BY <1>1, <1>4 DEF MonitorInv, ClientInv, ChainsCovered, Covered
<1>8. \A j \in Callbacks : reported[j] * Precision \in Nat
  BY <1>3, MonitorConstants, PoolFacts!MulMono
<1>9. sum * Precision \in Nat
  BY <1>3, MonitorConstants, PoolFacts!MulMono
<1> HIDE DEF new, sum
<1>10. /\ MonitorTypes' /\ StakeFollowsWorkflow'
  BY <1>1, <1>2, <1>3, <1>5 DEF MonitorInv, ClientInv, MonitorTypes, StakeFollowsWorkflow
<1>11. \A j \in Callbacks : reported'[j] * Precision + Gross <= Gross + Earnings
  <2> SUFFICES ASSUME NEW j \in Callbacks
               PROVE  reported'[j] * Precision + Gross <= Gross + Earnings
    OBVIOUS
  <2>1. CASE j = k
    <3>1. reported'[j] = sum
      BY <1>1, <2>1 DEF MonitorInv, ClientInv, MonitorTypes
    <3> QED BY <1>6, <1>7, <1>9, <3>1
  <2>2. CASE j # k
    <3>1. reported'[j] = reported[j]
      BY <1>1, <2>2 DEF MonitorInv, ClientInv, MonitorTypes
    <3>2. reported[j] * Precision + Gross <= Debt + Earnings
      BY <1>7 DEF Covered
    <3> QED BY <1>6, <1>8, <3>1, <3>2
  <2> QED BY <2>1, <2>2
<1>12. ChainsCovered'
  <2> SUFFICES ASSUME NEW j \in Callbacks PROVE Covered(j)'
    BY DEF ChainsCovered
  <2>1. CASE j = k
    <3>1. callback'[j].at = "finishing"
      BY <1>2, <1>3, <2>1 DEF MonitorInv, ClientInv, MonitorTypes
    <3> QED BY <1>1, <1>5, <1>11, <3>1 DEF Covered
  <2>2. CASE j # k
    <3>1. callback'[j] = callback[j] /\ reported'[j] = reported[j]
      BY <1>1, <1>2, <2>2 DEF MonitorInv, ClientInv, MonitorTypes
    <3> QED BY <1>1, <1>5, <1>7, <1>11, <3>1 DEF Covered
  <2> QED BY <2>1, <2>2
<1>13. ReportsWereEarned'
  <2>1. \A j \in Callbacks : reported'[j] \in Nat
    BY <1>10 DEF MonitorTypes
  <2>2. \A j \in Callbacks : reported'[j] * Precision \in Nat
    BY <2>1, MonitorConstants, PoolFacts!MulMono
  <2>3. \A j \in Callbacks : reported'[j] * Precision <= Earnings
    BY <1>6, <1>11, <2>2
  <2> QED BY <1>1, <2>3 DEF ReportsWereEarned, Earnings
<1> QED BY <1>10, <1>12, <1>13 DEF ClientInv

LEMMA CallbackHolds ==
  ASSUME MonitorInv, NEW k \in Callbacks, Fire(k) \/ CallbackStep(k) \/ FetchFails(k)
  PROVE  ClientInv'
<1>1. CASE Fire(k)
  BY <1>1, UnderWay, CallbackGoes DEF Fire, CallbackPlaces
<1>2. CASE LookAtPosition(k) \/ ReadBeforeClaim(k)
  BY <1>2, FetchHolds DEF LookAtPosition, ReadBeforeClaim
<1>3. CASE CompareReward(k)
  <2>1. /\ workflow # "idle" /\ UNCHANGED <<poolVars, workflow, reported>>
        /\ Moves(k, "claiming") \/ Moves(k, "finishing")
    BY <1>3, UnderWay DEF CompareReward, At, AfterLowReward
  <2> QED BY <2>1, CallbackGoes DEF CallbackPlaces
<1>4. CASE ComputeReward(k)
  BY <1>4, ComputeHolds
<1>5. CASE SubmitClaim(k)
  BY <1>5, ClaimHolds
<1>6. CASE ClaimRefused(k) \/ FinishCallback(k) \/ FetchFails(k)
  BY <1>6, UnderWay, CallbackEnds DEF ClaimRefused, FinishCallback, FetchFails, At
<1> QED BY <1>1, <1>2, <1>3, <1>4, <1>5, <1>6 DEF CallbackStep

LEMMA MonitorStep ==
  ASSUME MonitorInv, [MonitorNext]_monitorVars
  PROVE  MonitorInv'
<1> SUFFICES ClientInv'
  BY PoolStaysTyped DEF MonitorInv
<1>1. ASSUME callback' = callback, reported' = reported, Staked' = Staked,
             Stake' = Stake, Debt' = Debt, Earnings' = Earnings, PerToken' = PerToken,
             workflow' \in {"idle", "watching", "returned", "leaving", "left"},
             workflow' = "idle" => workflow = "idle" /\ ticking' = ticking
      PROVE  ClientInv'
  <2>1. PerToken' = PerToken + 0 /\ Earnings' = Earnings + Stake * 0
    BY <1>1, AccountTypes DEF MonitorInv
  <2> QED BY <1>1, <2>1, WorldMoves
<1>2. ASSUME UNCHANGED poolVars
      PROVE  Stake' = Stake /\ Debt' = Debt /\ Earnings' = Earnings /\ PerToken' = PerToken
  BY <1>2 DEF poolVars, Stake, Debt, Earnings, PerToken
<1>3. workflow \in {"idle", "watching", "returned", "leaving", "left"}
  BY DEF MonitorInv, ClientInv, MonitorTypes
<1>4. CASE UNCHANGED monitorVars
  <2>1. /\ callback' = callback /\ reported' = reported /\ workflow' = workflow
        /\ ticking' = ticking /\ UNCHANGED poolVars
    BY <1>4 DEF monitorVars, poolVars
  <2>2. Staked' = Staked
    BY <2>1 DEF Staked
  <2>3. Stake' = Stake /\ Debt' = Debt /\ Earnings' = Earnings /\ PerToken' = PerToken
    BY <2>1, <1>2
  <2> QED BY <2>1, <2>2, <2>3, <1>1, <1>3
<1>5. CASE ReturnTotals \/ BeginUnstake
  <2>1. /\ callback' = callback /\ reported' = reported /\ UNCHANGED poolVars
        /\ workflow' \in {"returned", "leaving"}
    BY <1>5 DEF ReturnTotals, BeginUnstake
  <2>2. Staked' = Staked
    BY <1>5 DEF ReturnTotals, BeginUnstake, Staked
  <2>3. Stake' = Stake /\ Debt' = Debt /\ Earnings' = Earnings /\ PerToken' = PerToken
    BY <2>1, <1>2
  <2> QED BY <2>1, <2>2, <2>3, <1>1
<1>6. CASE OthersStake
  <2>1. Stake' = Stake /\ Debt' = Debt /\ Earnings' = Earnings /\ PerToken' = PerToken
    BY <1>6, OthersMove DEF MonitorInv
  <2>2. /\ callback' = callback /\ reported' = reported /\ workflow' = workflow
        /\ ticking' = ticking
    BY <1>6 DEF OthersStake
  <2>3. Staked' = Staked
    BY <2>2 DEF Staked
  <2> QED BY <2>1, <2>2, <2>3, <1>1, <1>3
<1>7. ASSUME NEW total \in Amounts, NEW bp \in FeeRates, SomebodyBuys(total, bp)
      PROVE  ClientInv'
  <2>1. PICK i \in Nat : PerToken' = PerToken + i /\ Earnings' = Earnings + Stake * i
    BY <1>7, PurchaseRaises DEF SomebodyBuys, MonitorInv
  <2>2. UNCHANGED <<Stake, Debt>>
    BY <1>7, PurchaseRaises DEF SomebodyBuys, MonitorInv
  <2>3. /\ UNCHANGED <<callback, reported, ticking, workflow, Staked>>
        /\ workflow' \in {"idle", "watching", "returned", "leaving", "left"}
    BY <1>7 DEF SomebodyBuys, Staked, MonitorInv, ClientInv, MonitorTypes
  <2> QED BY <2>1, <2>2, <2>3, WorldMoves
<1>8. CASE StakeAndWatch
  BY <1>8, StakeHolds
<1>9. CASE SubmitUnstake
  BY <1>9, LeaveHolds
<1>10. CASE \E k \in Callbacks : Fire(k) \/ CallbackStep(k) \/ FetchFails(k)
  BY <1>10, CallbackHolds
<1> QED BY <1>4, <1>5, <1>6, <1>7, <1>8, <1>9, <1>10 DEF MonitorNext

LEMMA MonitorStart == MonitorInit => MonitorInv
<1> SUFFICES ASSUME MonitorInit PROVE MonitorInv
  OBVIOUS
<1>1. Pool!TypeOK
  BY SamePool, PoolAssumes, PoolFacts!TypeInit DEF MonitorInit
<1>2. Pool!DebtCovered
  BY DEF MonitorInit, Pool!Init, Pool!DebtCovered, Pool!Pending, Pool!Accumulated
<1>3. MonitorTypes /\ StakeFollowsWorkflow /\ ChainsCovered
  BY MonitorConstants
  DEF MonitorInit, Pool!Init, MonitorTypes, CallbackRecord, CallbackPlaces, NoCallback,
      StakeFollowsWorkflow, ChainsCovered, Staked, Stake
<1>4. ReportsWereEarned
  BY MonitorConstants DEF MonitorInit, Pool!Init, ReportsWereEarned
<1> QED BY <1>1, <1>2, <1>3, <1>4 DEF MonitorInv, ClientInv

\* For any number of overlapping callbacks, any other stakers and purchases: what the
\* claims of one chain of callbacks report was earned by the stake.
THEOREM ReportsAlwaysEarned == MonitorSpec => []ReportsWereEarned
<1>1. MonitorInv /\ [MonitorNext]_monitorVars => MonitorInv'
  BY MonitorStep
<1>2. MonitorInv => ReportsWereEarned
  BY DEF MonitorInv, ClientInv
<1> QED BY MonitorStart, <1>1, <1>2, PTL DEF MonitorSpec

=============================================================================
