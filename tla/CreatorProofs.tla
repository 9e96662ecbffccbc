-------------------------- MODULE CreatorProofs ---------------------------
(***************************************************************************)
(* The parts of the creator's and the moderators' application: the         *)
(* registry of wallets, the launch of a pool, the IPFS daemon, the         *)
(* manifest and the moderation desk, for any wallets, amounts, daemons,    *)
(* videos, tickets and stakes.                                             *)
(***************************************************************************)
EXTENDS PoolLaunch, IpfsDaemon, ManifestBuilder, ModerationDesk, TLAPS

----------------------------------------------------------------------------
(* The registry of wallets. *)

Keys == Keypairs \cup {PhantomKey}

Entries == [kind : {"none", "internal", "external"}, key : Keys \cup {NoWallet},
            isActive : BOOLEAN]

WalletTypes ==
    /\ entries \in [WalletIds -> Entries]
    /\ activeWalletId \in WalletIds \cup {NoWallet}
    /\ removing \subseteq WalletIds
    /\ unused \subseteq Keypairs

WalletInv == WalletTypes /\ ActiveIsRegistered

\* In a registry where only the active wallet may be flagged, moving the flag to a
\* registered wallet flags that one only, and unregisters nobody.
LEMMA ActivatedMovesTheFlag ==
  ASSUME NEW registry \in [WalletIds -> Entries], NEW id \in WalletIds,
         registry[id] # NoEntry,
         \A i \in WalletIds : registry[i].isActive => i = activeWalletId
  PROVE  /\ Activated(registry, id) \in [WalletIds -> Entries]
         /\ Activated(registry, id)[id] # NoEntry
         /\ \A i \in WalletIds : Activated(registry, id)[i].isActive => i = id
<1>1. /\ [registry[id] EXCEPT !.isActive = TRUE] \in Entries
      /\ [registry[id] EXCEPT !.isActive = TRUE] # NoEntry
  BY DEF Entries, NoEntry
<1>2. \A i \in WalletIds : /\ [registry[i] EXCEPT !.isActive = FALSE] \in Entries
                           /\ ~[registry[i] EXCEPT !.isActive = FALSE].isActive
  BY DEF Entries
<1> QED BY <1>1, <1>2 DEF Activated

\* Adding or replacing a wallet keeps the active id registered.
LEMMA RegisterHolds ==
  ASSUME WalletInv, NEW id \in WalletIds, NEW kind \in {"internal", "external"},
         NEW key \in Keys, Register(id, kind, key)
  PROVE  /\ entries' \in [WalletIds -> Entries]
         /\ activeWalletId' \in WalletIds \cup {NoWallet}
         /\ ActiveIsRegistered'
<1> DEFINE new == [kind |-> kind, key |-> key, isActive |-> FALSE]
           registry == [entries EXCEPT ![id] = new]
<1>1. new \in Entries /\ new # NoEntry
  BY DEF Entries, NoEntry
<1>2. /\ registry \in [WalletIds -> Entries] /\ registry[id] = new
      /\ \A i \in WalletIds : registry[i].isActive => i = activeWalletId
      /\ \A i \in WalletIds : entries[i] # NoEntry => registry[i] # NoEntry
  BY <1>1 DEF WalletInv, WalletTypes, ActiveIsRegistered
<1>3. CASE activeWalletId = NoWallet
  <2>1. entries' = Activated(registry, id) /\ activeWalletId' = id
    BY <1>3 DEF Register
  <2> HIDE DEF registry, new
  <2>2. /\ Activated(registry, id) \in [WalletIds -> Entries]
        /\ Activated(registry, id)[id] # NoEntry
        /\ \A i \in WalletIds : Activated(registry, id)[i].isActive => i = id
    BY <1>1, <1>2, ActivatedMovesTheFlag
  <2> QED BY <2>1, <2>2 DEF ActiveIsRegistered, Registered, HasActive
<1>4. CASE activeWalletId # NoWallet
  <2>1. entries' = registry /\ activeWalletId' = activeWalletId
    BY <1>4 DEF Register
  <2> HIDE DEF registry, new
  <2> QED BY <1>2, <2>1
          DEF WalletInv, WalletTypes, ActiveIsRegistered, Registered, HasActive
<1> QED BY <1>3, <1>4

\* So does deleting one: another wallet takes over, or none is active.
LEMMA RemoveHolds ==
  ASSUME WalletInv, NEW id \in WalletIds, Remove(id)
  PROVE  /\ entries' \in [WalletIds -> Entries]
         /\ activeWalletId' \in WalletIds \cup {NoWallet}
         /\ ActiveIsRegistered'
<1> DEFINE registry == [entries EXCEPT ![id] = NoEntry]
<1>1. /\ registry \in [WalletIds -> Entries]
      /\ \A i \in WalletIds : registry[i].isActive => i = activeWalletId /\ i # id
      /\ \A i \in WalletIds \ {id} : registry[i] = entries[i]
  BY DEF WalletInv, WalletTypes, ActiveIsRegistered, Entries, NoEntry
<1>2. ASSUME activeWalletId = id, NEW next \in RemainingIds(id),
             entries' = Activated(registry, next), activeWalletId' = next
      PROVE  /\ entries' \in [WalletIds -> Entries]
             /\ activeWalletId' \in WalletIds \cup {NoWallet}
             /\ ActiveIsRegistered'
  <2> HIDE DEF registry
  <2>1. next \in WalletIds /\ registry[next] # NoEntry
    BY <1>1, <1>2 DEF RemainingIds, Registered
  <2>2. /\ Activated(registry, next) \in [WalletIds -> Entries]
        /\ Activated(registry, next)[next] # NoEntry
        /\ \A i \in WalletIds : Activated(registry, next)[i].isActive => i = next
    BY <1>1, <2>1, ActivatedMovesTheFlag
  <2> QED BY <1>2, <2>1, <2>2 DEF ActiveIsRegistered, Registered
<1>3. CASE activeWalletId = id /\ entries' = registry /\ activeWalletId' = NoWallet
  <2> HIDE DEF registry
  <2> QED BY <1>1, <1>3 DEF ActiveIsRegistered, HasActive
<1>4. CASE activeWalletId # id /\ entries' = registry /\ activeWalletId' = activeWalletId
  <2> HIDE DEF registry
  <2> QED BY <1>1, <1>4
          DEF WalletInv, WalletTypes, ActiveIsRegistered, Registered, HasActive
<1> QED BY <1>2, <1>3, <1>4 DEF Remove

LEMMA WalletStep ==
  ASSUME WalletInv, [WalletNext]_walletVars
  PROVE  WalletInv'
<1>1. CASE ConnectPhantom
  BY <1>1 DEF ConnectPhantom, WalletInv, WalletTypes, ActiveIsRegistered, Registered, HasActive
<1>2. ASSUME NEW id \in WalletIds, CreateInternalWallet(id) \/ LoadInternalWallet(id)
      PROVE  WalletInv'
  <2>1. PICK key \in unused : /\ unused' = unused \ {key}
                              /\ Register(id, "internal", key)
                              /\ UNCHANGED removing
    BY <1>2 DEF CreateInternalWallet, LoadInternalWallet, CreateWallet, LoadWallet
  <2>2. key \in Keys
    BY DEF WalletInv, WalletTypes, Keys
  <2> QED BY <2>1, <2>2, RegisterHolds DEF WalletInv, WalletTypes
<1>3. ASSUME NEW id \in WalletIds, AddExternalWallet(id)
      PROVE  WalletInv'
  BY <1>3, RegisterHolds DEF AddExternalWallet, WalletInv, WalletTypes, Keys
<1>4. ASSUME NEW id \in WalletIds, RemoveWallet(id)
      PROVE  WalletInv'
  <2>1. CASE Remove(id) /\ UNCHANGED <<removing, unused>>
    BY <2>1, RemoveHolds DEF WalletInv, WalletTypes
  <2>2. CASE removing' = removing \cup {id} /\ UNCHANGED <<entries, activeWalletId, unused>>
    BY <2>2 DEF WalletInv, WalletTypes, ActiveIsRegistered, Registered, HasActive
  <2> QED BY <1>4, <2>1, <2>2 DEF RemoveWallet
<1>5. ASSUME NEW id \in WalletIds, DisconnectAndRemove(id)
      PROVE  WalletInv'
  BY <1>5, RemoveHolds DEF DisconnectAndRemove, AfterDisconnect, WalletInv, WalletTypes
<1>6. ASSUME NEW id \in WalletIds, SetActiveWallet(id)
      PROVE  WalletInv'
  <2>1. /\ entries[id] # NoEntry /\ entries' = Activated(entries, id)
        /\ activeWalletId' = id /\ UNCHANGED <<removing, unused>>
    BY <1>6 DEF SetActiveWallet, Registered
  <2>2. /\ Activated(entries, id) \in [WalletIds -> Entries]
        /\ Activated(entries, id)[id] # NoEntry
        /\ \A i \in WalletIds : Activated(entries, id)[i].isActive => i = id
    BY <2>1, ActivatedMovesTheFlag DEF WalletInv, WalletTypes, ActiveIsRegistered
  <2> QED BY <2>1, <2>2 DEF WalletInv, WalletTypes, ActiveIsRegistered, Registered
<1>7. CASE UNCHANGED walletVars
  BY <1>7 DEF walletVars, WalletInv, WalletTypes, ActiveIsRegistered, Registered, HasActive
<1> QED BY <1>1, <1>2, <1>3, <1>4, <1>5, <1>6, <1>7 DEF WalletNext

LEMMA WalletStart == WalletInit => WalletInv
  BY DEF WalletInit, WalletInv, WalletTypes, ActiveIsRegistered, HasActive, NoEntry, Entries

\* For every set of ids and keypairs: the active id always names a registered wallet,
\* and no other wallet is flagged active.
THEOREM ActiveWallet == WalletSpec => []ActiveIsRegistered
<1>1. WalletInv => ActiveIsRegistered
  BY DEF WalletInv
<1>2. WalletInv /\ [WalletNext]_walletVars => WalletInv'
  BY WalletStep
<1> QED BY WalletStart, <1>1, <1>2, PTL DEF WalletSpec

----------------------------------------------------------------------------
(* The pool. *)

PoolInv == reserveB \in Nat /\ ReserveIsKept

\* A deposit, whatever part of its maximum Orca uses, refunds the rest of it and leaves
\* the reserve as it was, where the reserve is reloaded after the transfer.
LEMMA DepositHolds ==
  ASSUME PoolInv, "reload" \in Supplied,
         NEW maxA \in 0 .. MaxTokens, NEW maxB \in 0 .. MaxTokens,
         NEW usedA \in 0 .. MaxTokens, NEW usedB \in 0 .. MaxTokens,
         DepositLiquidityToOrca(maxA, maxB, usedA, usedB)
  PROVE  PoolInv'
<1>1. maxB \in Nat /\ usedB \in Nat /\ reserveB \in Nat
  BY LaunchAssumption DEF PoolInv
<1>2. /\ reserveB' = reserveB + maxB - usedB
                        - (maxB - (reserveB + maxB - (reserveB + maxB - usedB)))
      /\ fundedB' = fundedB
  BY <1>1 DEF DepositLiquidityToOrca, BalanceAfterTransferB
<1>3. reserveB' = reserveB
  BY <1>1, <1>2
<1> QED BY <1>2, <1>3 DEF PoolInv, ReserveIsKept

LEMMA PoolStep ==
  ASSUME PoolInv, "reload" \in Supplied, [LaunchNext]_launchVars
  PROVE  PoolInv'
<1>1. CASE UNCHANGED <<reserveB, fundedB>>
  BY <1>1 DEF PoolInv, ReserveIsKept
<1>2. ASSUME NEW quote \in Quotes, NEW usedA \in 0 .. MaxTokens, NEW usedB \in 0 .. MaxTokens,
             DepositLiquidityToOrca(quote.maxA, quote.maxB, usedA, usedB)
      PROVE  PoolInv'
  <2>1. quote.maxA \in 0 .. MaxTokens /\ quote.maxB \in 0 .. MaxTokens
    BY DEF Quotes
  <2> QED BY <1>2, <2>1, DepositHolds
<1>3. ASSUME NEW amount \in 1 .. MaxTokens, FundReserve(amount)
      PROVE  PoolInv'
  BY <1>3, LaunchAssumption DEF FundReserve, PoolInv, ReserveIsKept
<1> QED BY <1>1, <1>2, <1>3
        DEF LaunchNext, StartRequest, RouteRequest, AbandonRequest, InitializeOrcaPool,
            OpenOrcaPosition, chain, balances, launchVars

\* For every amount, wallet and collection: where the program reloads the reserve after
\* its transfer, as its comment says, no deposit takes from what the reserve held
\* before or leaves anything behind.  Without the reload this is refuted.
THEOREM ReloadKeepsTheReserve ==
  ASSUME "reload" \in Supplied
  PROVE  LaunchSpec => []ReserveIsKept
<1>1. LaunchInit => PoolInv
  BY DEF LaunchInit, PoolInv, ReserveIsKept
<1>2. PoolInv /\ [LaunchNext]_launchVars => PoolInv'
  BY PoolStep
<1>3. PoolInv => ReserveIsKept
  BY DEF PoolInv
<1> QED BY <1>1, <1>2, <1>3, PTL DEF LaunchSpec

----------------------------------------------------------------------------
(* The daemon. *)

DaemonTypes ==
    /\ daemon \in [Processes -> {"none", "starting", "ready", "exited"}]
    /\ ipfsProcess \in Processes \cup {0}
    /\ isRunning \in BOOLEAN

\* The process the manager holds was spawned, and once it is ready nothing but a
\* signal makes the manager believe that none is running.
HeldIsBelieved ==
    ipfsProcess # 0 =>
        /\ daemon[ipfsProcess] # "none"
        /\ daemon[ipfsProcess] = "ready" /\ ipfsProcess \notin killed => isRunning

DaemonInv == DaemonTypes /\ HeldIsBelieved /\ OrphansComeFromEarlyStarts

LEMMA DaemonStart == DaemonInit => DaemonInv
  BY DaemonAssumption
  DEF DaemonInit, DaemonInv, DaemonTypes, HeldIsBelieved, OrphansComeFromEarlyStarts,
      Alive, Processes, DaemonAssumption

\* Another process takes the place of the held one, which was signalled, has exited or
\* has not reported ready.
LEMMA StartHolds ==
  ASSUME DaemonInv, NEW p \in Processes, StartDaemon(p)
  PROVE  DaemonInv'
<1>1. p \in Nat \ {0}
  BY DaemonAssumption DEF Processes, DaemonAssumption
<1>2. DaemonTypes'
  BY DEF StartDaemon, DaemonInv, DaemonTypes
<1>3. HeldIsBelieved'
  BY <1>1 DEF StartDaemon, DaemonInv, DaemonTypes, HeldIsBelieved
<1>4. OrphansComeFromEarlyStarts'
  <2> SUFFICES ASSUME NEW q \in Processes, Alive(q)', q # p, q \notin killed
               PROVE  q \in overtaken'
    BY DEF OrphansComeFromEarlyStarts, StartDaemon
  <2>1. Alive(q) /\ q # 0
    BY DaemonAssumption
    DEF StartDaemon, DaemonInv, DaemonTypes, Alive, Processes, DaemonAssumption
  <2>2. CASE q = ipfsProcess
    <3>1. daemon[q] = "starting"
      BY <2>1, <2>2 DEF StartDaemon, DaemonInv, HeldIsBelieved, Alive
    <3> QED BY <2>1, <2>2, <3>1 DEF StartDaemon
  <2>3. CASE q # ipfsProcess
    BY <2>1, <2>3 DEF StartDaemon, DaemonInv, OrphansComeFromEarlyStarts
  <2> QED BY <2>2, <2>3
<1> QED BY <1>2, <1>3, <1>4 DEF DaemonInv

LEMMA DaemonStep ==
  ASSUME DaemonInv, [DaemonNext]_daemonVars
  PROVE  DaemonInv'
<1>1. ASSUME NEW p \in Processes, DaemonReady(p)
      PROVE  DaemonInv'
  BY <1>1
  DEF DaemonReady, DaemonInv, DaemonTypes, HeldIsBelieved, OrphansComeFromEarlyStarts, Alive
<1>2. ASSUME NEW p \in Processes, DaemonExits(p)
      PROVE  DaemonInv'
  BY <1>2
  DEF DaemonExits, DaemonInv, DaemonTypes, HeldIsBelieved, OrphansComeFromEarlyStarts, Alive
<1>3. CASE StopDaemon
  BY <1>3
  DEF StopDaemon, AfterStop, DaemonInv, DaemonTypes, HeldIsBelieved,
      OrphansComeFromEarlyStarts, Alive
<1>4. CASE ConnectClient \/ UNCHANGED daemonVars
  BY <1>4
  DEF ConnectClient, daemonVars, DaemonInv, DaemonTypes, HeldIsBelieved,
      OrphansComeFromEarlyStarts, Alive
<1> QED BY <1>1, <1>2, <1>3, <1>4, StartHolds DEF DaemonNext

\* For any number of daemons and any order of starts, stops, crashes and outputs: one
\* that lives on unknown to the manager was overtaken before it was ready.
THEOREM OrphansOnlyFromEarlyStarts == DaemonSpec => []OrphansComeFromEarlyStarts
<1>1. DaemonInv => OrphansComeFromEarlyStarts
  BY DEF DaemonInv
<1>2. DaemonInv /\ [DaemonNext]_daemonVars => DaemonInv'
  BY DaemonStep
<1> QED BY DaemonStart, <1>1, <1>2, PTL DEF DaemonSpec

----------------------------------------------------------------------------
(* The manifest. *)

\* The hash is of a manifest whose totals were those of its videos.
HashHasTotals == Built => hash.videos # <<>> /\ HasTrueTotals(hash)

ManifestInv == videos \in Seq(Videos) /\ HashHasTotals

LEMMA ManifestStep ==
  ASSUME ManifestInv, [ManifestNext]_manifestVars
  PROVE  ManifestInv'
<1>1. CASE BuildWithHash
  <2>1. /\ Len(videos) \in Nat \ {0} /\ DOMAIN VideosNow = 1 .. Len(videos)
        /\ VideosNow \in Seq([video_id : Videos,
                              duration_seconds : {duration[v] : v \in Videos},
                              given : {given[v] : v \in Videos}])
    BY <1>1 DEF BuildWithHash, ManifestInv, VideosNow
  <2>2. VideosNow # <<>> /\ Len(VideosNow) = Len(videos)
    BY <2>1
  <2>3. hash' = [videos |-> VideosNow, creator |-> creator, total_videos |-> Len(videos),
                 total_duration_seconds |-> SumOf(VideosNow)]
    BY <1>1 DEF BuildWithHash, JsonOf, TotalDuration
  <2>4. (hash.videos # <<>> /\ HasTrueTotals(hash))'
    BY <2>2, <2>3 DEF HasTrueTotals
  <2> QED BY <1>1, <2>4 DEF BuildWithHash, ManifestInv, HashHasTotals
<1>2. ASSUME UNCHANGED <<manifest, hash>>, videos' \in Seq(Videos)
      PROVE  ManifestInv'
  BY <1>2 DEF ManifestInv, HashHasTotals, HasTrueTotals, Built
<1>3. ASSUME NEW v \in Videos, AddVideo(v)
      PROVE  ManifestInv'
  <2>1. videos' \in Seq(Videos)
    BY <1>3 DEF AddVideo, ManifestInv
  <2> QED BY <1>2, <1>3, <2>1 DEF AddVideo, ManifestInv
<1>4. ASSUME UNCHANGED <<videos, manifest, hash>>
      PROVE  ManifestInv'
  BY <1>2, <1>4 DEF ManifestInv
<1> QED
  BY <1>1, <1>3, <1>4 DEF ManifestNext, SetDuration, SetField, SetCreator, manifestVars

\* For any videos, fields and durations: all that validation can find wrong in a
\* manifest that verifies against its hash are fields that were empty when it was
\* taken; the array and the videos that change under it cannot make its totals wrong.
THEOREM VerifiedManifestsLackOnlyFields == ManifestSpec => []VerifiedLacksOnlyFields
<1>1. ManifestInit => ManifestInv
  BY DEF ManifestInit, ManifestInv, HashHasTotals, Built
<1>2. ManifestInv /\ [ManifestNext]_manifestVars => ManifestInv'
  BY ManifestStep
<1>3. ManifestInv => VerifiedLacksOnlyFields
  BY DEF ManifestInv, HashHasTotals, VerifiedLacksOnlyFields, VerifyManifestHash, ValidManifest
<1> QED BY <1>1, <1>2, <1>3, PTL DEF ManifestSpec

----------------------------------------------------------------------------
(* The moderation desk. *)

Methods == {"approveCopyrightClaim", "rejectCopyrightClaim", "blacklistCollection",
            "resolveCidCensorship"}

Stakes == [stake_amount : Nat, is_active : BOOLEAN, slash_count : Nat]

StakesTyped ==
    /\ global_state \in [moderator_stake_minimum : Nat, capgm_mint : Mints,
                         updates_disabled : BOOLEAN]
    /\ moderator_stake \in [Moderators -> Stakes]

DeskTypes ==
    /\ StakesTyped
    /\ closed \in [Tickets -> Methods \cup {"none", "others"}]
    /\ deskCall \in {NoCall} \cup [op : Methods, moderator : Moderators, ticket : Tickets]
    /\ stakeCall \in {NoCall} \cup [op : {"stake"}, moderator : Moderators,
                                    amount : StakeAmounts]
    /\ asking \in {NoCall} \cup [op : {"isModerator"}, stake : Stakes, held : BOOLEAN,
                                 minimum : Nat]

\* What was held when the stake was read is what that stake and that minimum say.
AskingKnows ==
    asking # NoCall =>
        asking.held = (asking.stake.is_active /\ asking.stake.stake_amount >= asking.minimum)

DeskInv == DeskTypes /\ AskingKnows /\ ModeratorYesHeld

LEMMA DeskStart ==
  ASSUME DeskInit
  PROVE  DeskInv
<1>1. StakesTyped
  BY ModeratorStakingAssumption
  DEF ModeratorStakingAssumption, DeskInit, StakeInit, StakesTyped, Stakes
<1>2. DeskTypes
  BY <1>1 DEF DeskInit, DeskTypes
<1> QED
  BY <1>2 DEF DeskInit, DeskInv, AskingKnows, ModeratorYesHeld

\* Whatever becomes of the stakes, the records keep their types.
LEMMA StakeStepTyped ==
  ASSUME StakesTyped, StakeNext
  PROVE  StakesTyped'
<1>1. ASSUME NEW m \in Moderators, NEW amount \in StakeAmounts, StakeModerator(m, amount)
      PROVE  StakesTyped'
  <2>1. amount \in Nat
    BY ModeratorStakingAssumption DEF ModeratorStakingAssumption
  <2> QED BY <1>1, <2>1 DEF StakeModerator, StakesTyped, Stakes
<1>2. ASSUME NEW m \in Moderators, SlashModerator(m)
      PROVE  StakesTyped'
  BY <1>2 DEF SlashModerator, AfterSlash, StakesTyped, Stakes
<1>3. ASSUME NEW minimum \in Minimums, NEW mint \in Mints, UpdateGlobalState(minimum, mint)
      PROVE  StakesTyped'
  BY <1>3, ModeratorStakingAssumption
  DEF ModeratorStakingAssumption, UpdateGlobalState, StakesTyped
<1>4. CASE DisableGlobalStateUpdates
  BY <1>4 DEF DisableGlobalStateUpdates, StakesTyped
<1> QED BY <1>1, <1>2, <1>3, <1>4 DEF StakeNext

\* Where nothing is decided, asked or answered, the stakes' types are all that matters.
LEMMA DeskStands ==
  ASSUME DeskInv, StakesTyped', UNCHANGED <<closed, asking, answered>>,
         deskCall' \in {NoCall} \cup [op : Methods, moderator : Moderators, ticket : Tickets],
         stakeCall' \in {NoCall} \cup [op : {"stake"}, moderator : Moderators,
                                       amount : StakeAmounts]
  PROVE  DeskInv'
BY DEF DeskInv, DeskTypes, AskingKnows, ModeratorYesHeld

LEMMA DecisionHolds ==
  ASSUME DeskInv, NEW t \in Tickets, NEW by \in Methods \cup {"others"},
         closed' = [closed EXCEPT ![t] = by],
         UNCHANGED <<stakeVars, stakeCall, asking, answered>>,
         deskCall' \in {NoCall} \cup [op : Methods, moderator : Moderators, ticket : Tickets]
  PROVE  DeskInv'
<1>1. StakesTyped'
  BY DEF DeskInv, DeskTypes, StakesTyped, stakeVars
<1> QED BY <1>1 DEF DeskInv, DeskTypes, AskingKnows, ModeratorYesHeld

LEMMA DeskStep ==
  ASSUME DeskInv, [DeskNext]_deskVars
  PROVE  DeskInv'
<1> DEFINE deskCalls == {NoCall} \cup [op : Methods, moderator : Moderators, ticket : Tickets]
           stakeCalls == {NoCall} \cup [op : {"stake"}, moderator : Moderators,
                                        amount : StakeAmounts]
<1>1. /\ StakesTyped /\ deskCall \in deskCalls /\ stakeCall \in stakeCalls
  BY DEF DeskInv, DeskTypes
<1>2. UNCHANGED stakeVars => StakesTyped'
  BY <1>1 DEF stakeVars, StakesTyped
<1>3. ASSUME NEW t \in Tickets, NEW m \in Moderators,
             SubmitCopyrightClaim(t, m) \/ ReportContent(t, m)
      PROVE  DeskInv'
  BY <1>1, <1>2, <1>3, DeskStands DEF SubmitCopyrightClaim, ReportContent, Files
<1>4. ASSUME NEW t \in Tickets, SubmitCidCensorship(t) \/ FileByOthers(t)
      PROVE  DeskInv'
  BY <1>1, <1>2, <1>4, DeskStands DEF SubmitCidCensorship, FileByOthers, Files
<1>5. ASSUME NEW t \in Tickets, NEW m \in Moderators, NEW op \in Methods,
             FetchTicket(op, m, t)
      PROVE  DeskInv'
  <2>1. deskCall' \in deskCalls
    BY <1>5 DEF FetchTicket
  <2> QED BY <1>1, <1>2, <1>5, <2>1, DeskStands DEF FetchTicket
<1>6. ASSUME NEW t \in Tickets, DecideByOthers(t)
      PROVE  DeskInv'
  BY <1>1, <1>6, DecisionHolds DEF DecideByOthers, Methods
<1>7. CASE SendDecision
  <2>1. /\ deskCall.op \in Methods /\ deskCall.ticket \in Tickets /\ deskCall' \in deskCalls
    BY <1>1, <1>7 DEF SendDecision
  <2>2. CASE closed' = [closed EXCEPT ![deskCall.ticket] = deskCall.op]
    BY <1>7, <2>1, <2>2, DecisionHolds DEF SendDecision
  <2>3. CASE UNCHANGED closed
    BY <1>1, <1>2, <1>7, <2>1, <2>3, DeskStands DEF SendDecision
  <2> QED BY <1>7, <2>2, <2>3 DEF SendDecision
<1>8. ASSUME NEW m \in Moderators, NEW amount \in StakeAmounts, BeginStake(m, amount)
      PROVE  DeskInv'
  <2>1. stakeCall' \in stakeCalls
    BY <1>8 DEF BeginStake
  <2> QED BY <1>1, <1>2, <1>8, <2>1, DeskStands DEF BeginStake
<1>9. CASE SendStake
  <2>1. StakesTyped'
    <3>1. CASE StakeModerator(stakeCall.moderator, stakeCall.amount)
      <4>1. stakeCall.moderator \in Moderators /\ stakeCall.amount \in StakeAmounts
        BY <1>1, <1>9 DEF SendStake
      <4>2. StakeNext
        BY <3>1, <4>1 DEF StakeNext
      <4> QED BY <1>1, <4>2, StakeStepTyped
    <3> QED BY <1>2, <1>9, <3>1 DEF SendStake
  <2> QED BY <1>1, <1>9, <2>1, DeskStands DEF SendStake
<1>10. ASSUME NEW m \in Moderators, ReadStake(m)
       PROVE  DeskInv'
  <2>1. /\ asking' = [op |-> "isModerator", stake |-> moderator_stake[m],
                      held |-> InGoodStanding(m),
                      minimum |-> global_state.moderator_stake_minimum]
        /\ moderator_stake[m] \in Stakes /\ InGoodStanding(m) \in BOOLEAN
        /\ global_state.moderator_stake_minimum \in Nat
    BY <1>1, <1>10 DEF ReadStake, StakesTyped, InGoodStanding
  <2>2. asking' \in [op : {"isModerator"}, stake : Stakes, held : BOOLEAN, minimum : Nat]
    BY <2>1
  <2>3. DeskTypes'
    BY <1>1, <1>2, <1>10, <2>2 DEF ReadStake, DeskInv, DeskTypes
  <2>4. AskingKnows'
    BY <2>1 DEF AskingKnows, InGoodStanding
  <2> QED
    BY <1>10, <2>3, <2>4 DEF ReadStake, DeskInv, ModeratorYesHeld
<1>11. CASE AnswerIsModerator
  <2>1. /\ asking.minimum \in Nat /\ asking.stake.stake_amount \in Nat
        /\ global_state.moderator_stake_minimum \in Nat
        /\ asking.held = (asking.stake.is_active
                             /\ asking.stake.stake_amount >= asking.minimum)
    BY <1>1, <1>11 DEF AnswerIsModerator, DeskInv, DeskTypes, AskingKnows, StakesTyped, Stakes
  <2>2. ModeratorYesHeld'
    BY <1>11, <2>1 DEF AnswerIsModerator, IsModerator, ModeratorYesHeld
  <2> QED
    BY <1>1, <1>2, <1>11, <2>2
    DEF AnswerIsModerator, DeskInv, DeskTypes, AskingKnows
<1>12. ASSUME NEW m \in Moderators, SlashAtDesk(m)
       PROVE  DeskInv'
  <2>1. StakesTyped'
    BY <1>1, <1>12, StakeStepTyped DEF SlashAtDesk, StakeNext
  <2> QED BY <1>1, <1>12, <2>1, DeskStands DEF SlashAtDesk
<1>13. CASE StakesMove
  BY <1>1, <1>13, StakeStepTyped, DeskStands DEF StakesMove
<1>14. CASE UNCHANGED deskVars
  BY <1>1, <1>2, <1>14, DeskStands DEF deskVars
<1> QED
  BY <1>3, <1>4, <1>5, <1>6, <1>7, <1>8, <1>9, <1>10, <1>11, <1>12, <1>13, <1>14
  DEF DeskNext, Methods

\* For any moderators and stakes: a yes of isModerator was true when the stake was read,
\* unless the minimum was lowered in between.
THEOREM ModeratorYesWasHeld == DeskSpec => []ModeratorYesHeld
<1>0. DeskInit => DeskInv
  BY DeskStart
<1>1. DeskInv => ModeratorYesHeld
  BY DEF DeskInv
<1>2. DeskInv /\ [DeskNext]_deskVars => DeskInv'
  BY DeskStep
<1> QED BY <1>0, <1>1, <1>2, PTL DEF DeskSpec

=============================================================================
