# CaptureGem protocol: TLA+ models, model checking and proofs

This directory is a verification development of the Solana program in
`src/solana-program/programs/solana-program` (the *program*) and of the TypeScript
clients in `src/client-library/libs` (the *clients*) that drive it. It states what must
stay true of the accounts of the protocol whatever transactions are sent and in
whatever order, checks it with TLC on small instances, and proves with TLAPS, for
instances of every size, every safety property the passing runs check.

Paths below are relative to the program's `src/` directory, file names ending in `.ts`
to the clients' directory, unless they start with `src/`. `PROJECT.json` lists every
run, theorem, finding and hazard, and maps every definition to the source lines it
stands for.

## 1. Inventory

The program keeps all state in accounts. A transaction runs one instruction atomically:
its checks pass and all effects happen, or it fails and nothing changes. So the
actions of the models are whole instructions, and concurrency is the interleaving of
instructions by purchasers, stakers, pinners, moderators, the admin and anybody else,
with plain token transfers and the cluster clock running beside them. Values written
by one transaction and used by a later one (cached sums, debts, recorded amounts,
bitmaps, expiry times, PDAs that are reused) are where things can go wrong.

| Component | State | Operations | Interacts with | What must be true |
|---|---|---|---|---|
| Purchase split (`instructions/access.rs`) | none | fee and 50/50 split in truncating integers | all purchases | the parts add up |
| Collection staking pool (`instructions/staking.rs`, `access.rs`) | `CollectionStakingPool`, `StakerPosition`, the pool's tokens | stake, claim, unstake, reward of a purchase | purchases | pool solvent; nobody overpaid; nobody locked in; rewards not lost |
| Access escrow, reveal, trust (`access.rs`) | `AccessEscrow`, its tokens, `CidReveal`, `PeerTrustState` (one per peer for all collections), `total_trust_score` | purchase, open, release, burn expired, reveal, initialise trust | clock, hosts, moderation, releases of other collections | an account of the escrow leaves whole, and only with the escrow; one reveal per purchase; trust follows payment |
| Pinner hosts (`instructions/pinner.rs`) | `PinnerState` | register | reveal | - |
| Moderation (`instructions/moderation.rs`) | `ModTicket`, both bitmaps, blacklisting | file, resolve a report, a claim, a censorship | moderator stakes, claim vault, clock | verdicts final; effects follow verdicts; a video is paid once |
| Moderator staking (`staking.rs`) | `ModeratorStake`, a vault per CAPGM mint | stake, slash | `GlobalState` | vaults back the stakes |
| Collections and claim vaults (`instructions/user.rs`) | `CollectionState`, claim vault | create, mint, burn unclaimed | moderation, Orca | minted tokens accounted for |
| Global state (`instructions/admin.rs`) | `GlobalState` | initialise, update, freeze | all | freeze is for good |
| Orca liquidity (`instructions/orca.rs`) | pool and position addresses, reserve | create pool, open position, deposit | Whirlpool (external) | pool before position before deposit; refunds exact |
| Purchaser clients (`AccessClient.ts`, `EscrowClient.ts`) | what a call has read, its timer | purchase, wait for a reveal, verify, release, burn | escrow, pinners, cleanup | what is delivered is the collection's; waits end; a late release harms no open purchase |
| Pinner client (`PinnerClient.ts`, `CryptoUtils.ts`) | monitoring, ownership cache | watch, reveal, check NFT, clear, expire | escrow, Access NFTs, clock | no yes beyond the cache's life |
| Trust monitor (`IPFSTrustMonitor.ts`) | peer mappings, progress, statistics | register, track, report, prove, disconnect | IPFS, weights of a release | progress is that of a running download |
| Integrated workflow (`IntegratedWorkflow.ts`) | timer of the staker's loop | buyer's, staker's and cleanup workflows | all clients | the loop ends; the cleanup collects; reports are true |
| Staking client (`StakingClient.ts`) | what a call has read | stake, unstake, claim, read | staking pool | reported rewards were earned |
| Wallets (`Wallet.ts`, `WalletManager.ts`, `ExternalWalletAdapter.ts`) | registry, active id, Phantom connection, files | create, load, add, remove, activate, sign | Orca and protocol clients, the user | the active id names a wallet |
| Orca client (`OrcaClient.ts`) | the request under way | build and send the three launch transactions | wallets, Orca, the program | signed by the wallet it was built for |
| IPFS daemon (`IpfsManager.ts`) | process, running flag, client | start, output, stop | the child process | no daemon lost |
| Manifest (`CollectionManifestBuilder.ts`) | videos, manifest, hash | set, build, add, hash, publish, validate | IPFS | a verified manifest has true totals, and is as complete as when it was hashed |
| Moderation client (`ModerationClient.ts`) | what a call has read | file, decide, stake, slash, ask | tickets, stakes | answers were true when they were read |
| Treasury, protocol, indexer clients, addresses, types | none | see section 8 | | |

In the clients nothing is atomic: a call runs from one `await` to the next, and
transactions of others, other calls, timers and callbacks run in between. An action of
their modules is such a stretch, and what was read stays as it was read.

Hard behaviours: cached totals and debts under interleaved instructions (staking);
integer truncation repeated over a long history; a boundary in time on which release
and burn meet; peers named twice in a release; races of pinners; PDAs reused by a
second purchase, and token accounts no instruction records; a mint a staker names and nobody
compares; a bitmap tested as a whole before it is written; tickets that do not
know their collection; a CAPGM mint that may change while stakes are outstanding;
liveness of abandoned escrows; in the clients, accounts read before an `await` and acted
on after it, timers that overlap, removals that pause, objects shared between a builder
and what it built, and a cache whose entries live from their arrival.
`PROJECT.json` "hazards" lists them line by line.

## 2. Modules

Indentation is dependence; the right-hand column names the module with the proofs.

    TokenSums              sums of balances over a set of owners
    PurchaseSplit          arithmetic of a purchase       (both: TokenArithmetic)
      StakingPool          one collection's pool          StakingPoolProofs
      AccessEscrow         one collection's escrows       AccessEscrowProofs
        EscrowPromise      abstract specification of the escrow
      CollectionEconomy    pool + escrows around one purchase_access
                                                          EconomyProofs
    ModeratorStaking       moderators' stakes and GlobalState
      Moderation           tickets, claim vaults, bitmaps ModerationProofs
    PurchaseSession        buyer, pinners, cleanup        PurchaseSessionProofs
    TrustMonitor           download tracker               MonitorProofs
    ProofCache             NFT checks and their cache     MonitorProofs
    RewardMonitor          staker's loop, over an instance of StakingPool
                                                          MonitorProofs
    Wallets                wallet registry                CreatorProofs
      PoolLaunch           Orca client and orca.rs        CreatorProofs
    IpfsDaemon             daemon manager                 CreatorProofs
    ManifestBuilder        manifests and their hashes     CreatorProofs
    ModerationDesk         moderation client, over ModeratorStaking
                                                          CreatorProofs
    MC*.tla, MC*.cfg       instances for TLC

**PurchaseSplit** gives the fee (ceiling division), the escrow's half and the stakers'
half with the remainder, as `purchase_access` computes them. **TokenSums** has the sum of
what a set of owners holds. `TokenArithmetic` proves what the other proofs need of the
two: division, the exactness of the split, and how a sum moves when one owner's balance
does.

**StakingPool** models one pool. `pool`, `position` are the two account types,
`poolTokens` what the accounts the pool owns hold of the collection's mint, `wallet` and
`market` everybody's tokens. `entitled` is a history variable that no action reads: each
staker's scaled share of every purchase. Actions: `StakeCollectionTokens` (creates the
accounts on first use; computes and then discards the pending rewards, as the code does),
`ClaimStakingRewards`, `UnstakeCollectionTokens`, `PurchaseAccess`. The first three name a
mint, which the code compares with the pool account it is given and not with
`collection.mint`; so each of them is in the collection's mint or in another one, and
`TakeFrom` and `PayTo` are the two kinds of transfer. `foreign` is what a staker holds in
other mints. The pool's accounts of other mints are not tracked, since anybody may send
tokens there: a payment from one always succeeds, the worst case for the pool's books.
`Precision` and `MaxU128` stand for `REWARD_PRECISION` and the width of u128, so the
checked multiplications fail in the model where they fail in the code.

**AccessEscrow** models the escrows of one collection: `escrow` (with the age instead of
`created_at`), the token accounts, trust of peers and of the collection, hosts, and the
`CidReveal` of every (escrow, pinner), which is "current" or about a "past" purchase
because no instruction closes it while the escrow's PDA is reused.
`EscrowAccounts` are the token accounts that escrow PDAs own, several per purchaser if
need be (`OwnerOf`), since the code checks no more: `PurchaseAccess` takes any account of
the PDA, `CreateAccessEscrow` any account at all, `ReleaseEscrow` and `BurnExpiredEscrow`
any account the PDA signs for (`SignsFor`). `lot` is a history variable that no action
reads: where the tokens of the opening went. `ReleaseEscrow` is the whole handler: total
weight, truncated shares, the cap by what remains, the trust update of paid entries, the
sweep of the balance, the collection's trust, and the closing of escrow and account; it
fails as a whole on any overflow or missing trust account. `SweepTargets` is where the
sweep may go: to the last peer if its entry was checked because it was paid, otherwise to
any account of the mint. A `PeerTrustState` belongs to the peer alone, so
`ReleaseElsewhere`, a release of another collection, moves the same `trust` and its own
collection's total. Around the program: `Tick`, `Deposit` (a token transfer by anybody at
any time, an escrow open or not) and `Blacklist` (the effect of moderation).

**EscrowPromise** is the abstract specification of the same thing: a purchaser's lot is
free, open or expired; an account set aside for a purchaser loses its tokens only whole
and only with a lot of its owner, as a payment while open or to destruction once expired;
and a lot does not last forever while its owner's accounts hold something. Since a lot
takes one account with it, what lies in the owner's other accounts stays for later lots:
that is all the code can promise, and it is less than its comments say (section 5).
`AccessEscrow!PromiseKept` and `PromiseFulfilled` are its safety and the whole of it under
the refinement mapping (phase from existence and age, held from the token balances).

**CollectionEconomy** composes two instances over shared state: one action
`PurchaseAccess` moves tokens between purchaser, treasury, pool and an account of the escrow. Its
properties say that the composition implements both component specifications, with
what the other component does invisible or mapped to the component's environment.
Deposits to escrows are the only escrow action it leaves out.

**ModeratorStaking** has one vault per CAPGM mint because the vault is the associated
token account of the `GlobalState` PDA for the mint of the moment.
`UpdateGlobalState` sets minimum and mint, `DisableGlobalStateUpdates` freezes them;
the fee, treasury address and URLs are not part of it.

**Moderation** extends it with tickets, the part of `CollectionState` moderation uses
and the claim vaults. `Decide` holds what the three resolutions share;
`ResolveCopyrightClaim` pays through `PayClaim`, which keeps the order of the code: all
indices are checked against the bitmap before a bit is set. Bitmaps are sets of
indices, bounded by whole bytes (`BitmapBits`) where the code checks bytes and by
`total_videos` where it checks that. The collection of a resolution is whichever
account is passed. `vault_owner` is fixed at the start to one of the two PDAs the
instructions sign with (see the findings). `paidBy` is a history variable that no
action reads.

**PurchaseSession** has one escrow address, which all purchases of one purchaser for one
collection share: `slot` says whose purchase is there, how old it is and whether it was
revealed; `reveals` is the one `CidReveal` a pinner has for the address. A session goes
through `Purchase`, the loop `Poll` - `FindReveal` - `Wake`, `DecryptAndVerify`,
`Distribute`, `BeginRelease`, `SubmitRelease`; a session of the buyer's workflow skips
the verification, as its code does. `NotifyPurchase`, `PrepareReveal` and `SubmitReveal`
are a pinner; `BurnByOthers` everybody else who burns. An `rpc()` that throws says nothing
of its transaction: a purchase may land after its session has failed (`PurchaseLands`), a
release may land although its session fails, a burn may land unreported. The cleanup is
`ListExpired`, which takes the first `MaxBurns` of the expired escrows in any order, then
for the own escrow `FetchDetails`, `CheckExpired`, and `BurnLands` or `BurnThrows`, for
those of other purchasers (`expired`, which come and go by `OtherChanges`) the whole pass
in `TryOther`. An escrow whose purchase locked nothing (`funded`) is never burned, as the
program wants a token in the account it burns from.
`settled` is a history variable: who released or burned each purchase. AccessEscrow has
the program's side with all its arithmetic; here the program is reduced to what these
clients can observe of it: whether the slot is taken, revealed, releasable or expired.

**TrustMonitor** has any number of concurrent downloads, several of one CID, and the one
progress entry a CID has. `BytesOf` is 0 because the code adds to no peer's bytes.

**ProofCache** is `verifyNFTOwnership` for one wallet and mint: `BeginCheck` is its
synchronous part, `ListAccounts` and `ReadAmount` the two remote calls, `CacheAndAnswer`
and `CallFails` its ends. Time is counted down in the entry and up in `gone` and
`since`, so the state stays finite.

**RewardMonitor** instantiates StakingPool, so a claim sent by a callback is the
program's claim. A callback is seven steps from `Fire` to `FinishCallback`; a failed
fetch ends it (`FetchFails`). The pool is shared: `SomebodyBuys` is a purchase, and
`OthersStake` another staker's stake, unstake or claim, at any moment between the reads.

**Wallets** has the registry with its flags and the active id. `RemoveWallet` of an
external wallet only notes it in `removing`; `DisconnectAndRemove` is the rest, after the
await. **PoolLaunch** extends it with the request under way, which remembers the key it
was built for, and the instructions of `orca.rs`; `DepositLiquidityToOrca` computes the
two refunds as the code does, for any amounts Orca takes; `fundedB` is a history variable,
what others sent to the reserve.

**IpfsDaemon** has every process ever spawned, since output of a replaced one still
reaches the manager. **ManifestBuilder** keeps objects by name, so a manifest and its
builder share them as in the code. A video is any object (`AddVideo` checks nothing), and
its duration, the other fields that validation looks at and the creator may be set, or
set to what validation refuses, at any time; `Published` is the manifest as it is
serialised at the moment, and the hash is the content. **ModerationDesk** extends
ModeratorStaking with tickets seen as open or closed, the decision under way, and the
two reads of `isModerator`.

**As written and repaired.** Several client calls are refused by the program whatever
the state, because accounts or arguments are missing. The
modules have both: a constant names the defects that are taken as repaired, empty for
the code as written, and the guards that fail for a missing part name it.
`AccessEscrow.Repaired` has "burn authority", "open
borrows" (account data borrowed across the token calls of a release or burn) and "trust
record" (the trust account read behind its discriminator);
`PurchaseSession.Repaired` "purchase accounts", "release accounts" and "burn
authority"; `RewardMonitor.RepairedStaking` "position seeds" and "mint";
`PoolLaunch.Supplied` "token badges", "blockhash", "creator_token_a" and, in `orca.rs`
itself, "reload" (of the reserve's balance after the transfer), with
`CollectionMintFirst` for the order of the two mints; `ModerationDesk.Repaired`
"create_ticket arguments", "target_id length", "resolve_ticket arguments" and "stake
accounts"; `Moderation.ResolveTicketDecodes` is TRUE where `resolve_ticket` takes its
accounts. The runs repair everything but what a violation is about, since with the code's own
values nothing gets past the first call; the proofs hold for every value of these constants.

## 3. Runs

| Run | Instance | Shows |
|---|---|---|
| `staking` | 2 stakers (2 and 1 tokens, one of another mint), 4 tokens of purchases, amounts 1..4, fee 0 and 2%, precision 4, u128 cut at 60 | types; `total_staked` is the sum of the stakes; debts covered; pool solvent but for other mints; nobody overpaid, over all mints; what a staker can lose and how |
| `escrow` | 1 purchaser with 2 tokens and 2 accounts of its escrow, 2 symmetric peers, lists up to 2 with weights 0, 4000, 6000, 1 token released elsewhere, u64 cut at 10799 | types; conservation; one reveal; trust counted and earned |
| `escrow_live` | 2 purchasers (2 and 1 tokens), 2 accounts of one escrow and 1 of the other, 1 peer, fairness | open escrows backed; the whole promise |
| `economy` | 2 stakers, 1 purchaser with 3 tokens, 1 peer, 1 account, purchases of 1 and 3 | supply conserved; both component specifications implemented |
| `moderation` | 1 moderator with 1 CAPGM of each of 2 mints, minimums 1 and 2, 2 symmetric targets, collections of 2 videos (30% claim share) and 1 video (10%), 44 tokens minted, lists `<<1>>`, `<<0,0>>`, `<<0,1>>` | types and bitmap bounds; minted tokens accounted for; one claim per video; stable worth of a video; stakes backed; verdicts final; effects follow verdicts |
| `client_sessions` | 5 parts: 2 sessions (1 of the workflow), 2 pinners, timeout of 1 poll, expiry 1; the cleanup takes 2 of the own and 2 other escrows; 2 downloads of one CID, 1 peer; 2 overlapping checks, lives 0..2, calls up to 2; 2 stakers with 1 token each, 2 overlapping callbacks, 2 purchases of 1, precision 3; fairness | delivered CIDs verified; late releases; true reports of rewards; bound on stale answers; live progress; the cleanup collects; waits and the loop end |
| `creator_app` | 4 parts: 2 wallet ids, 1 keypair and the Phantom account, tokens 0..2; 3 daemons; 2 videos, durations 0..2, one other field, 2 entries; 3 tickets, 1 moderator, minimums 0..2 | active wallet registered; deposits leave the reserve alone; which daemons are lost; what a verified manifest can lack; answers of `isModerator` |
| `top_up` | as `staking` | violation: a top-up loses pending rewards |
| `burn_as_written` | 1 purchaser, 1 peer, fairness | violation: an expired escrow stays forever |
| `reveal_again` | 1 purchaser, 1 peer | violation: after a second purchase the only host cannot reveal |
| `paid_trust` | 1 purchaser, 2 peers | violation: the sweep pays a peer that gains no trust |
| `vault_short` | as `moderation` | violation: a list with a repeated index leaves other videos without cover |

Why these bounds are enough to be interesting. *Staking*: tokens are finite, so the state
space is finite without further guards. With precision 4 and stakes of 1..3 every division
truncates in some reachable state; two stakers are the least for one to dilute the other,
stake after a purchase or be left last; the cut at 60 makes `checked_mul` fail. One token
of another mint is enough to stake it and withdraw one of the collection's. *Escrow*:
amounts 1 and 2 give empty escrows (the half of 1 is 0), escrows of 1 and, through
`create_access_escrow` and deposits, of more; a list of two may name one peer twice, a
peer with weight 0 first or last, or weights whose product or sum does not fit: sums of
two large weights and products with 2 exceed 10799, single ones do not, and the fee's
`total * bp + 9999` fits for every purchase; the real limits would need amounts TLC cannot
enumerate. Two accounts of one escrow are the least for opening, release and burn to be
given different ones, and a second purchaser with an account of its own, which
`escrow_live` has, for one's release to be tried on the other's. One token to be released
elsewhere moves the trust that a release here meets. *Moderation*: the vault of 13 tokens
over two videos leaves a remainder of 1, so a share computed from the balance instead of
the initial amount differs; the second collection has one video, so a ticket checked
against the first and resolved on the second names an index that is no video but has a
bit. Two tickets are the least for claims to overlap. One moderator with two mints is
enough for a change of mint between deposit and slash, which is paid from the vault of the
new mint; several moderators would meet only in the vaults, and that these back all stakes
is proved for any number of them. Minimums 1 and 2 let a stake fall below the minimum.

*Clients.* The parts of a client instance share no state, but for two of the buyer's. The
variable `part` picks one at the start, and the others stand still, so the run checks each
by itself instead of their product; the properties speak of one part each, and the
fairness of the others is about actions that are never enabled in it. The sessions come
twice, since the product is out of TLC's reach: in "purchase" the cleanup stands still and
burns are those of others, in "cleanup" no pinner answers. They meet only in the slot, to
which the cleanup does what `BurnByOthers` does as well, and no session reads the
cleanup's own state; the proofs are of the whole. Two other escrows and a run of two let
the others fill a run, or leave one place. Two sessions are the least for one to meet the
other's escrow, reveal or release, and two pinners for a reveal of each purchase. Two
downloads, checks and callbacks are the least that overlap. An other staker divides the
rewards of a purchase: with precision 3 a purchase shared by two truncates, and two of
them are less than one token. An expiry of one step has an age before, at and after the
limit, at which client and program disagree. Lives of 0, 1 and 2 let the life be changed
either way while an answer is on its way. Two wallet ids with a shared Phantom account let
a wallet be replaced, activated and removed while another removal waits; three daemons let
one be overtaken, one stopped and one current.

`CHECK_DEADLOCK FALSE` everywhere: wallets run out, the clock stops once every escrow is
expired, and the system may just stop.

**Violations as written.** `burn_as_written` takes "burn authority" out of what is
repaired: `burn_expired_escrow` names the token account as burn authority but signs for the
escrow PDA, which owns it, and the token program refuses. The passing runs have the burn
its comment describes ("Use escrow PDA as authority"), so that the rest of the design can
be examined. Likewise, without "reload" in `Supplied`, `MCCreatorClients` violates
`ReserveIsKept` after a fund, a launch and one deposit.

**Fairness.** `FairSpec` of AccessEscrow: weak fairness of `Tick` (the cluster clock
advances) and, for each purchaser, of `BurnExpiredEscrow` from some account that will do
(the design, line 708, has indexers or bots submit it, and the instruction pays its caller
the rent). Purchasers, peers,
depositors and moderators owe nothing. `SessionFairness`: a session that waits is
driven by its own timers and the answers of its calls (weak fairness of `WaitStep`), and
the clock advances; pinners, releases, new purchases and the cleanup owe nothing, and
`CleanupCollects` states its own assumptions: the cleanup is run again and again, its
transactions get through now and then (strong fairness of `BurnLands`), and from some time
on fewer than `maxBurns` escrows of others are expired (`LeavesRoom`). Without the last it
is false: the empty escrows of others may fill every run.
`MonitorFairness`: an interval that is set keeps firing, every call is answered, and
reading the position succeeds again and again (strong fairness of `CompareReward`,
which a failed fetch can always pre-empt). No other property needs fairness.

## 4. What is proved

All theorems are about the specification of the component (`Spec`, or the one named for
the module), for all values of its constants that satisfy its named assumption: the types
of the constants, that `Precision`, the list length and the reward threshold are positive,
that shares are at most 89% as the code checks, that the sets of owners (stakers,
purchasers, peers, moderators, mints, targets, sessions) are finite, that purchasers,
peers and the escrows' token accounts are different things, and that the placeholder for
"no download" is not a download. Finiteness is what the accounts of a cluster have; a sum
or a count over an infinite set would mean nothing.

| Theorem | Argument |
|---|---|
| `SplitExact` | truncating division stays below the quotient; the remainder is what is missing |
| **StakingPool** | |
| `TypeCorrect` | inductive by itself: every subtraction is guarded by a comparison the code makes |
| `DebtAlwaysCovered` | inductive with `TypeOK`: a settled position's debt equals its accumulated rewards, others only see `reward_per_token` grow |
| `RewardsNeverOverpaid` | inductive with `TypeOK` and `DebtCovered`: a payout in whatever mint moves whole tokens from pending to earned and drops the rest, a purchase raises pending and `entitled` equally |
| `TopUpIsTheOnlyForfeit` | action property; claim and unstake pay exactly the tokens they settle, in the collection's mint or visibly in another, a purchase never lowers pending |
| `TotalStakedAlwaysSum` | each instruction moves one stake and the cached total alike |
| `PoolAlwaysSolvent` | `ScaledSolvent`: with rewards scaled by `Precision`, so that nothing is truncated, the accounts and what the stakers put in through other mints cover stakes, pending rewards and what they took out through them |
| **AccessEscrow** | |
| `TypeCorrect` | the shares of a release, capped one after the other, are natural numbers and add up to at most the balance, for every list |
| `EscrowAlwaysBacked` | `EscrowType` and `EscrowBacked` together: an account is emptied only with its owner's signature, and then the escrow it backed is closed |
| `AtMostOneReveal` | `OneRevealPerPurchase` counts, and is not inductive: a purchase must turn every current reveal into a past one. `RevealsMatch` says which set is current, and is |
| `EscrowImplementsPromise` | every action maps to a step of one lot and one account, a receipt, an expiry of several lots, or a stutter |
| `TokensAlwaysConserved` | what the peers are paid by entry, sorted by peer and with the sweep, adds up to the balance that leaves; one account, of whatever owner, gets the sweep |
| `TrustAlwaysCounted` | the gains of the peers of a list add up to at most what the paying collection gains; a peer's account is created empty |
| `TrustAlwaysEarned` | action property: trust moves only through entries with a payment, whose peer is then paid at least as much |
| **CollectionEconomy** | |
| `SupplyAlwaysConserved` | `EconomyInv`: the types of both components, `RevealsMatch`, and the sum |
| `EconomyImplementsPool`, `EconomyImplementsEscrows` | each step of the economy is, for a component, one of its own steps, a purchase or a move of its environment; its view of everybody else's tokens is a natural number by the conservation of the supply |
| **Moderation** | |
| `NoVideoInTwoClaims` | `ClaimInv`: the bitmap is the union of the lists of the paid tickets, paid tickets are resolved (so neither their list nor their verdict changes again), and their lists are disjoint |
| `VerdictsStayFinal` | from `ClaimInv` and the frame of each step |
| `TypeCorrect` | `VaultInv`: `ClaimInv`, the stakes, the types and bounds of vaults and bitmaps, and the next two |
| `MintAlwaysAccounted` | a mint, a claim and a burn move tokens between four places of one collection |
| `VideoValueIsStable` | with `UnmintedIsUnpaid`: the initial amount, from which all shares are computed, is set before the first claim and never again; each claim takes one share per index of its list |
| `StakesAlwaysBacked` | `StakeInv`: a slash takes the recorded stake from some vault, and only if that vault holds it |
| `EffectsNeedVerdicts` | action property, by the frame of each resolution |
| `ShortVaultsAreExplained` | `VaultKeepsTheRest`: vault and claimants together have the initial amount until the burn; if no paid list repeats an index, list entries and claimed bits correspond one to one (`ClaimedCounted`) |
| **PurchaseSession** | |
| `Delivered` | `DeliveredIsVerified` with the stages of a session and the pinner it found: a reveal, once made, never changes |
| `LateRelease` | a session that settles holds or has lost the slot: where the slot is another's, the session's purchase is settled; one that lands late is of a session that has ended |
| **TrustMonitor, ProofCache, RewardMonitor** | |
| `ProgressAlwaysLive` | `TrackerInv`: an entry that names a download is of that download's CID, so the end of a download clears the only entry that can name it |
| `StaleYes` | the strengthening bounds what each check in flight can know (`since` against `gone`) and what an entry can still live |
| `ReportsAlwaysEarned` | `ChainsCovered`, below |
| **Wallets, PoolLaunch** | |
| `ActiveWallet` | `ActiveIsRegistered` with the types of the registry, through every interrupted removal |
| `ReloadKeepsTheReserve` | under "reload": a deposit takes from the reserve what it moved there less the refund, which is what Orca left of it |
| **IpfsDaemon, ManifestBuilder, ModerationDesk** | |
| `OrphansOnlyFromEarlyStarts` | `HeldIsBelieved`: while the held daemon is ready and unsignalled, the manager believes one is running and starts no other |
| `VerifiedManifestsLackOnlyFields` | `HashHasTotals`: the hash is of a manifest with videos, whose totals were theirs at that moment; what validation still can find is a field |
| `ModeratorYesWasHeld` | `AskingKnows`: what was held at the read is what the stake and the minimum of then say; a minimum that did not fall only asks for more |

The invariants that are not inductive as the runs state them, and why:

- `PoolSolvent` counts whole tokens. One purchase may bring the pending rewards of several
  stakers over a whole token at once, by more than it pays in if dust has gathered
  before. `ScaledSolvent` keeps the dust: a purchase of `amount` raises the scaled
  rewards of all stakers together by `total_staked * increment`, at most
  `amount * Precision`.
- `OneClaimPerVideo` alone would allow a later decision to change a paid ticket; that only
  open tickets are decided, and that a paid one is not open, is `PaidIsResolved`.
- `StableValuePerVideo` values all payouts, the earlier ones too, by the initial amount as
  it is now, and needs that nobody was paid before the mint set it.
- `ReportsWereEarned` says nothing of a callback that has read and not yet claimed.
  `ChainsCovered` does: while the workflow's stake is in the pool, what a callback has
  reported lies below the debt of the position, below the debt of the position it has
  read, and, with what it is about to claim, below what the stake earned. A purchase
  raises the stake's gross rewards and `entitled` by the same amount, so these
  differences stand still, and a claim by an overlapping callback only raises the debt.
- `SupplyConserved` speaks of sums, and the types of a component of single balances; the
  components' views of "all other tokens" are differences that only the two together
  show to be natural.

**Sums.** `SumOver` and the running total of a release are recursive functions, and what
such a function computes cannot be proved by the library's induction theorems, which
take an operator. `TokenArithmetic` gets by without: strict inclusion is well-founded
below a finite set, so a family of subsets that lacks one lacks a smallest one
(`SubsetInduction`, likewise `PrefixInduction` for lists), and the sum of a set equals the
number of the single tokens its members hold (`SumIsCount`), where `FiniteSetTheorems`
helps. From it follow the rules used everywhere: one owner more, one balance changed,
two sums added, a list's entries sorted by peer.

**Composition.** `EconomyProofs` instantiates the proofs of both components with the
substitution under which `CollectionEconomy` instantiates the components, and
`MonitorProofs` those of the pool under RewardMonitor, with the workflow's amount among
the amounts. A lemma first shows that their assumptions hold there; then a component's
step lemmas serve unchanged.

Only model-checked: liveness under fairness (`PromiseFulfilled`, `WaitsEnd`,
`CleanupCollects`, `MonitorStops`), which the prover does not do, and the violations
below, which are counterexamples.


## 5. Findings

Disagreements between the code and its docs or comments met while modelling; those with
a run have a counterexample.

- Topping up a stake discards pending rewards (`top_up`).
- `burn_expired_escrow` cannot succeed as written (`burn_as_written`).
- A host that revealed once cannot reveal a re-purchase (`reveal_again`).
- A peer paid by the sweep gains no trust (`paid_trust`).
- A claim that lists a video twice is paid twice for it (`vault_short`). The theorem
  `ShortVaultsAreExplained` shows what else could leave a vault short: before the burn, a
  vault without a share for each unclaimed video has paid such a list, or a list that
  reaches into the bits past the last video, which a ticket created with a larger
  collection can have. Refusing both would keep `VaultCoversUnclaimed`.
- Accounts nothing binds, without a violation run: the modules do what the code does, and
  their properties say what is left of the intent.
  - The staking instructions never compare `collection_mint` with the collection's mint.
    Any mint's tokens can be staked, and the stake withdrawn, or its rewards claimed, in
    the collection's. That the pool's account covers its stakers is therefore false:
    `PoolSolvent` subtracts what they put in through other mints and have not taken out so.
  - `create_access_escrow` sends the lot to any token account, the purchaser's own too.
    `EscrowBacked` asks for tokens only where the lot went to an account of the escrow.
  - A release and a burn accept any token account of the escrow's PDA, and the burn is
    anyone's to submit. The escrow closes; the lot may stay in another account, where a
    later purchase or `create_access_escrow` at the same PDA makes it reachable again.
    `EscrowPromise` is a promise about each account, not about each purchase.
  - The sweep goes to the account passed for the last entry, which is compared with the
    peer and the mint only where that entry's own amount is above 0.
- Trust: one `PeerTrustState` per peer adds up what it earned in all collections, while
  `total_trust_score` is of one. A peer's score may exceed the total of every collection
  it serves; `TrustCounted` subtracts what came from elsewhere.
- Without a run: an escrow whose locked amount rounds to 0 can be neither released nor
  burned; tokens arriving while nothing is staked are credited to nobody;
  `PeerTrustState::try_deserialize` is given data without its discriminator; the
  "skip if the account does not exist" branch of the trust update is unreachable; client
  and program disagree about the second in which an escrow expires; a test title
  expects a second mint; claim and burn sign for the claim vault with different PDAs;
  the comment on copyright claims describes a full transfer; the burn at the deadline
  can overtake a claim filed before it.
- In the clients, without a run:
  - *refused as written*: purchases, releases, stakes, claims and withdrawals of rewards,
    ticket filing, staking and slashing of moderators, the launch and `createCollection`
    all lack accounts or arguments the program requires; `resolve_ticket` itself reads an
    argument it does not have; approving and rejecting a claim read fields a ticket does
    not have; `unstakeModerator` has no instruction;
  - *wrong answers*: `isClaimPeriodExpired` is always true, `getCollectionClaims` always
    empty, a cached yes is given before the message is looked at, `totalAmountBurned`
    and `rewardsClaimed` may differ from what was moved, download progress may vanish; an
    `rpc()` that throws after its transaction landed is reported as a failure, so a landed
    burn may go uncounted, and a session may end as failed with its purchase standing;
  - *never done*: the cleanup takes the first `maxBurns` expired escrows of its listing;
    an empty one fails each time, and where those fill the run nothing else is collected;
  - *not checked*: `build()` tests neither the creator nor the videos' fields, which
    `validateCollectionManifest` does, so a verified manifest can be invalid;
  - *wrong effects*: the tracker counts no bytes, so the workflow never pays; a reveal
    sealed with a made-up key can be opened by nobody; `loadWallet` generates a key; a
    late release may pay the next purchase; a second start loses a daemon; manifests go
    on changing after `build()`;
  - in `orca.rs`, a deposit reads its balance before and, for want of a reload, once more
    before the transfer, so it fails or refunds itself entirely; with the reload that its
    comment asks for ("reload" in `Supplied`), `ReserveIsKept` holds for token B. The
    refund of collection tokens pays the creator from the reserve either way.

Where the code as written fails for a platform reason, the models can take the evident
intent, otherwise there would be nothing to say about the rest. The `Ref`s of account data
held across CPIs in `release_escrow` and the `try_deserialize` above are the defects "open
borrows" and "trust record" of `AccessEscrow.Repaired`. `MAX_SIZE = BASE_SIZE + 64` without
`Self::` in `state.rs` and the account initialisation of Token-2022 mints have no constant.

## 6. Abstractions

- An account that does not exist is a record with `exists |-> FALSE`, or all zero for
  `init_if_needed` accounts, whose fields start at zero.
- A claim vault has the one token account the clients derive for it. An escrow has any set
  of accounts. Of the pool only the account of the collection's mint has a balance; all
  other mints are one, "other", whose payments always go through, since anybody may have
  filled the account they come from.
- A sweep or an opening that ends in an account of a staker, of the pool or of any wallet
  outside the model goes to "rest". Plain transfers to the pool's own account, which would
  only add to what it holds, are left out.
- Purchasers and peers are disjoint: a wallet that is both is two names, so a purchaser
  that pays itself is not seen as such.
- Releases of other collections are seen only by what they pay our peers in trust.
- The two levels of `EconomyImplementsPool` treat the pool's mints alike; what a stake in
  another mint does to the pool is said by the pool's own properties, not by the refinement.
- Only the age of an escrow and whether a deadline has passed are kept of time.
- The trust of a peer counts as credited under the account of the peer passed beside it.
- u64 widths are modelled where products of amounts and weights or of fees are formed,
  u128 where `reward_per_token` is; elsewhere supplies are far below the limits.
- A reveal's content, NFT, metadata, names, URLs, events and logs are left out.
- `MintCollectionTokens` keeps creator and reserve as one holder; what becomes of the
  reserve is the launch's (section 7).
- Tickets other than copyright claims may carry indices, which nobody reads; the
  instance files them with an empty list.
- In the clients, a CID is right or of no use, a report successful or not, a download's
  size a number of chunks, a manifest its totals, its creator and its videos' durations and
  other fields (each in order or not, and of its declared type), a signature
  whether it fits what the message says, and the quotes, ticks and liquidity of Orca any
  amounts. Formatting, logging and confirmation texts are left out.
- `PurchaseSession` sees of the escrow's arithmetic only that a release or burn empties
  the slot; AccessEscrow has the rest, for the same instructions.
- A pinner's answer is prepared from one read; `revealCID` also fetches the collection, of
  which nothing that can change is used.
- A waiting session polls once in the run; nobody retries by hand after an `rpc()` of
  unknown outcome.
- The wallets share one Phantom adapter and its one connected flag. The 'error' event of a
  daemon's spawn is left out.
- Swaps and third-party liquidity of an Orca pool are outside: `PoolLaunch` follows what the
  deposits move between creator, reserve and the program's own share.
- `ModeratorYesHeld` says what was held when the stake was read; a slash after that read
  still gives a yes.
- The order in which `removeWallet` picks the next active wallet is left open.

Two observations that follow from the arithmetic and need large numbers to see: as
`reward_per_token` only grows, a pool whose total is tiny for long can reach a value
with which a large stake's product no longer fits in u128, and claim, unstake and top-up
of that position then fail (`DebtCovered` excludes only a debt above the accumulated
rewards, so it does not see this); and a release whose `amount_locked * weight` exceeds u64
fails until the purchaser scales the weights. Both are safe (nothing is lost or paid
twice, as the runs with cut widths show) but not live.

## 7. Plan

Done, in this order: PurchaseSplit, StakingPool with proofs, AccessEscrow with
EscrowPromise and proofs, CollectionEconomy, ModeratorStaking and Moderation with proofs;
then the clients: PurchaseSession, TrustMonitor, ProofCache, RewardMonitor, Wallets,
PoolLaunch, IpfsDaemon, ManifestBuilder and ModerationDesk; then the sums, with them the
conservation, solvency and type theorems of the program's modules, the refinements of
CollectionEconomy, the proofs of all clients, and what makes a claim vault short.

What is left, in the order of its worth:

1. **PurchaseSession over AccessEscrow**: the slot as a refinement of the escrow record,
   so that the purchaser's sessions are shown to use the program's own escrow.
2. **What the findings leave true**: theorems like `ShortVaultsAreExplained` for the other
   properties that are violated as written, under the condition that the violation needs.
3. **Two moderators** on `ModeratorStaking` alone: what a slash after a change of mint
   takes from the deposits of others.
4. **Launch from the mint on**: the reserve that `mint_collection_tokens` fills as the
   reserve a deposit draws on.

## 8. Not modelled, and why

- `TreasuryClient.ts`, `ProtocolClient.ts`, `IndexerClient.ts`: a balance, one transaction
  the program refuses as written, and reads of a web service. None keeps state, and
  `IndexerClient.ts` does not parse near its end.
- `PDAUtils.ts`, `types.ts`, `constants.ts`: derivation of addresses and declarations;
  where an address differs from the program's, the client's module has the difference.
- In modelled clients: reads that nothing acts on (lists of tickets, statistics,
  estimates, latencies), `burnUnclaimedTokens` (the instruction is in Moderation),
  `unstakeModerator` (no such instruction), and the placeholders `publishCollection` and
  `pinnerFulfillmentLoop`, which change nothing.
- `initialize_user_account`: writes one record nobody else reads.
- `src/solana-program/src/lib.rs`: an older stub that no build uses.
- Tests, examples, runbooks and lock files.

## 9. Running it

    tlc -workers 2 -config MCStakingPool.cfg MCStakingPool
    tlc -workers 2 -config MCModeration.cfg MCModeration
    tlc -workers 2 -config MCBuyerClients.cfg MCBuyerClients
    tlc -workers 2 -config MCCreatorClients.cfg MCCreatorClients
    tlapm TokenArithmetic.tla
    tlapm StakingPoolProofs.tla

The other runs use `MCAccessEscrow` (five cfgs), `MCModeration` and `MCCollectionEconomy`.
The largest, `moderation`, has 1.3 million distinct states and takes about two minutes, as
do `client_sessions` and `escrow_live` with far fewer, for their temporal properties.
Operators named `X_Something` beside an operator `X` are the deliberately wrong variants
used to confirm that each property can fail; no specification uses them.
