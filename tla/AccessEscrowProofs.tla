------------------------ MODULE AccessEscrowProofs ------------------------
(***************************************************************************)
(* Theorems about AccessEscrow for every set of purchasers, peers and token*)
(* accounts, every fee, every expiry and every set of repaired defects.    *)
(***************************************************************************)
EXTENDS AccessEscrow, TokenArithmetic

----------------------------------------------------------------------------
(* The distribution of a release: what the entries of a list are paid. *)

LEMMA TupleLength ==
    ASSUME NEW n \in Nat, NEW X, NEW list \in [1 .. n -> X]
    PROVE  Len(list) = n
  OBVIOUS

\* A list of peers is a sequence with a first and a last entry.
LEMMA ListType ==
    ASSUME AccessEscrowAssumption, NEW list \in PeerList
    PROVE  /\ Len(list) \in Nat \ {0}
           /\ DOMAIN list = 1 .. Len(list)
           /\ IsFiniteSet(DOMAIN list)
           /\ \A i \in DOMAIN list : list[i].wallet \in Peers /\ list[i].weight \in Nat
           /\ \A i \in DOMAIN list : WeightsOf(list)[i] \in Nat
           /\ TotalWeight(list) \in Nat
  <1>1. PICK n \in 1 .. MaxPeerListLength :
               list \in [1 .. n -> [wallet : Peers, weight : Weights]]
    BY DEF PeerList
  <1>2. n \in Nat \ {0}
    BY DEF AccessEscrowAssumption
  <1>3. Len(list) = n
    BY <1>1, <1>2, TupleLength
  <1>4. IsFiniteSet(1 .. n)
    BY <1>2, FS_Interval
  <1>5. \A i \in 1 .. n : list[i].wallet \in Peers /\ list[i].weight \in Nat
    BY <1>1 DEF AccessEscrowAssumption
  <1>6. \A i \in 1 .. n : WeightsOf(list)[i] \in Nat
    <2>1. DOMAIN list = 1 .. n
      BY <1>1
    <2> QED BY <1>5, <2>1 DEF WeightsOf
  <1>7. TotalWeight(list) \in Nat
    BY <1>1, <1>4, <1>6, SumType DEF TotalWeight
  <1> QED BY <1>1, <1>2, <1>3, <1>4, <1>5, <1>6, <1>7

SharesOf(locked, list) == [i \in DOMAIN list |-> PeerShare(locked, list, i)]

LEMMA SharesType ==
    ASSUME AccessEscrowAssumption, NEW list \in PeerList, NEW locked \in Nat,
           TotalWeight(list) > 0, NEW i \in DOMAIN list
    PROVE  /\ PeerShare(locked, list, i) \in Nat
           /\ SharesOf(locked, list)[i] = PeerShare(locked, list, i)
  <1>1. locked * list[i].weight \in Nat
    BY ListType, MulMono
  <1>2. TotalWeight(list) \in Nat \ {0}
    BY ListType
  <1> QED BY <1>1, <1>2, DivNat DEF PeerShare, SharesOf

\* The recursive function of TotalSent, and the equation it solves.
SentStep(locked, list, sent) ==
    [i \in 0 .. Len(list) |->
        IF i = 0 THEN 0
        ELSE LET share == PeerShare(locked, list, i)
                 remaining == locked - sent[i-1]
             IN  sent[i-1] + (IF share > remaining THEN remaining ELSE share)]

LEMMA SentUnfold ==
    ASSUME NEW locked, NEW list
    PROVE  TotalSent(locked, list)
             = CHOOSE sent : sent = SentStep(locked, list, sent)
  BY DEF TotalSent, SentStep

\* The first i peers together get their shares, capped at the locked amount.
Capped(locked, list, i) ==
    IF SumOver(SharesOf(locked, list), 1 .. i) > locked
    THEN locked ELSE SumOver(SharesOf(locked, list), 1 .. i)

LEMMA SentExists ==
    ASSUME AccessEscrowAssumption, NEW list \in PeerList, NEW locked \in Nat,
           TotalWeight(list) > 0
    PROVE  \E sent : sent = SentStep(locked, list, sent)
  <1> DEFINE n == Len(list)
             shares == SharesOf(locked, list)
             sent == [i \in 0 .. n |-> Capped(locked, list, i)]
  <1>1. n \in Nat \ {0} /\ DOMAIN list = 1 .. n
    BY ListType
  <1>2. \A i \in 1 .. n : shares[i] \in Nat /\ shares[i] = PeerShare(locked, list, i)
    BY <1>1, SharesType
  <1>3. sent[0] = 0
    <2>1. 1 .. 0 = {}
      OBVIOUS
    <2>2. SumOver(shares, 1 .. 0) = 0
      BY <2>1, SumOfNobody
    <2>3. Capped(locked, list, 0) = 0
      BY <2>2 DEF Capped
    <2> QED BY <1>1, <2>3
  <1>4. ASSUME NEW i \in 1 .. n
        PROVE  sent[i] = LET share == PeerShare(locked, list, i)
                             remaining == locked - sent[i-1]
                         IN  sent[i-1] + (IF share > remaining THEN remaining ELSE share)
    <2> DEFINE before == SumOver(shares, 1 .. (i - 1))
    <2> HIDE DEF shares, n
    <2>1. SumOver(shares, 1 .. i) = before + shares[i] /\ before \in Nat
      BY <1>1, <1>2, SumPrefix
    <2>2. shares[i] \in Nat /\ shares[i] = PeerShare(locked, list, i)
      BY <1>2
    <2>3. sent[i-1] = IF before > locked THEN locked ELSE before
      BY <1>1 DEF Capped, shares
    <2>4. sent[i] = IF SumOver(shares, 1 .. i) > locked THEN locked
                    ELSE SumOver(shares, 1 .. i)
      BY <1>1 DEF Capped, shares
    <2> HIDE DEF before, sent
    <2> QED BY <2>1, <2>2, <2>3, <2>4
  <1>5. sent = SentStep(locked, list, sent)
    <2>1. ASSUME NEW i \in 0 .. n
          PROVE  sent[i] = SentStep(locked, list, sent)[i]
      <3>1. i = 0 \/ i \in 1 .. n
        BY <1>1
      <3> QED BY <1>3, <1>4, <3>1 DEF SentStep
    <2> QED BY <2>1 DEF SentStep
  <1> QED BY <1>5

\* However many peers are named and whatever their weights, no entry gets a negative
\* amount, and all entries together get at most what was locked.
LEMMA AmountsBounded ==
    ASSUME AccessEscrowAssumption, NEW list \in PeerList, NEW locked \in Nat,
           TotalWeight(list) > 0
    PROVE  /\ \A i \in DOMAIN list : PeerAmounts(locked, list)[i] \in Nat
           /\ SumOver(PeerAmounts(locked, list), DOMAIN list) \in Nat
           /\ SumOver(PeerAmounts(locked, list), DOMAIN list) <= locked
  <1> DEFINE n == Len(list)
             sent == TotalSent(locked, list)
             amounts == PeerAmounts(locked, list)
  <1>1. n \in Nat \ {0} /\ DOMAIN list = 1 .. n /\ IsFiniteSet(DOMAIN list)
    BY ListType
  <1>2. sent = SentStep(locked, list, sent)
    BY SentUnfold, SentExists
  <1>3. sent[0] = 0
    <2>1. sent[0] = SentStep(locked, list, sent)[0]
      BY <1>2
    <2> QED BY <1>1, <2>1 DEF SentStep
  <1>4. ASSUME NEW i \in 1 .. n, sent[i-1] \in 0 .. locked
        PROVE  sent[i] \in 0 .. locked /\ sent[i] >= sent[i-1]
    <2>1. PeerShare(locked, list, i) \in Nat
      BY <1>1, SharesType
    <2>2. sent[i] = SentStep(locked, list, sent)[i]
      BY <1>2
    <2>3. sent[i] = LET share == PeerShare(locked, list, i)
                        remaining == locked - sent[i-1]
                    IN  sent[i-1] + (IF share > remaining THEN remaining ELSE share)
      BY <1>1, <2>2 DEF SentStep
    <2> HIDE DEF sent
    <2> QED BY <1>4, <2>1, <2>3
  <1>5. \A i \in 1 .. n : amounts[i] = sent[i] - sent[i-1]
    BY <1>1 DEF PeerAmounts
  <1> HIDE DEF sent, n, amounts
  <1>6. \A i \in 0 .. n : sent[i] \in 0 .. locked
    <2> DEFINE T == {i \in 0 .. n : sent[i] \in 0 .. locked}
    <2>1. 0 \in T
      BY <1>1, <1>3
    <2>2. \A i \in 1 .. n : i - 1 \in T => i \in T
      BY <1>1, <1>4
    <2>3. T = 0 .. n
      <3> HIDE DEF T
      <3>1. T \in SUBSET (0 .. n)
        BY DEF T
      <3> QED BY <1>1, <2>1, <2>2, <3>1, PrefixInduction
    <2> QED BY <2>3
  <1>7. \A i \in 1 .. n : amounts[i] \in Nat
    <2>1. ASSUME NEW i \in 1 .. n PROVE amounts[i] \in Nat
      <3>1. sent[i-1] \in 0 .. locked /\ sent[i] \in 0 .. locked
        BY <1>1, <1>6
      <3>2. sent[i] >= sent[i-1]
        BY <1>4, <3>1
      <3> QED BY <1>5, <3>1, <3>2
    <2> QED BY <2>1
  <1>8. \A i \in 0 .. n : SumOver(amounts, 1 .. i) = sent[i]
    <2> DEFINE T == {i \in 0 .. n : SumOver(amounts, 1 .. i) = sent[i]}
    <2>1. 0 \in T
      <3>1. 1 .. 0 = {}
        OBVIOUS
      <3> QED BY <1>1, <1>3, <3>1, SumOfNobody
    <2>2. ASSUME NEW i \in 1 .. n, i - 1 \in T
          PROVE  i \in T
      <3>1. SumOver(amounts, 1 .. i) = SumOver(amounts, 1 .. (i - 1)) + amounts[i]
        BY <1>1, <1>7, SumPrefix
      <3>2. SumOver(amounts, 1 .. (i - 1)) = sent[i-1]
        BY <2>2
      <3>3. sent[i-1] \in 0 .. locked /\ sent[i] \in 0 .. locked
        BY <1>1, <1>6
      <3> QED BY <1>1, <1>5, <3>1, <3>2, <3>3
    <2>3. T = 0 .. n
      <3> HIDE DEF T
      <3>1. T \in SUBSET (0 .. n)
        BY DEF T
      <3> QED BY <1>1, <2>1, <2>2, <3>1, PrefixInduction
    <2> QED BY <2>3
  <1>9. SumOver(amounts, DOMAIN list) = sent[n] /\ sent[n] \in 0 .. locked
    BY <1>1, <1>6, <1>8
  <1> QED BY <1>1, <1>7, <1>9 DEF amounts

LEMMA EntriesFinite ==
    ASSUME AccessEscrowAssumption, NEW list \in PeerList, NEW p \in Peers, NEW amounts
    PROVE  /\ EntriesOf(list, p) \in SUBSET DOMAIN list
           /\ CreditedEntries(amounts, list, p) \in SUBSET EntriesOf(list, p)
           /\ CreditedEntries(amounts, list, p) \in SUBSET DOMAIN list
           /\ IsFiniteSet(EntriesOf(list, p))
           /\ IsFiniteSet(CreditedEntries(amounts, list, p))
  <1>1. IsFiniteSet(DOMAIN list)
    BY ListType
  <1>2. /\ EntriesOf(list, p) \in SUBSET DOMAIN list
        /\ CreditedEntries(amounts, list, p) \in SUBSET EntriesOf(list, p)
        /\ CreditedEntries(amounts, list, p) \in SUBSET DOMAIN list
    BY DEF EntriesOf, CreditedEntries
  <1> QED BY <1>1, <1>2, FS_Subset

\* Sums over the entries of each peer add up to the sum over the list.
LEMMA EntriesPartition ==
    ASSUME AccessEscrowAssumption, NEW list \in PeerList, NEW f,
           \A i \in DOMAIN list : f[i] \in Nat
    PROVE  /\ \A p \in Peers : SumOver(f, EntriesOf(list, p)) \in Nat
           /\ SumOver([p \in Peers |-> SumOver(f, EntriesOf(list, p))], Peers)
                 = SumOver(f, DOMAIN list)
  <1> DEFINE owner == [i \in DOMAIN list |-> list[i].wallet]
             S == DOMAIN list
  <1>1. IsFiniteSet(S) /\ IsFiniteSet(Peers) /\ owner \in [S -> Peers]
    BY ListType DEF AccessEscrowAssumption
  <1>2. \A p \in Peers : EntriesOf(list, p) = {i \in S : owner[i] = p}
    BY DEF EntriesOf
  <1>3. ASSUME NEW p \in Peers PROVE SumOver(f, EntriesOf(list, p)) \in Nat
    BY <1>1, EntriesFinite, SumSubset
  <1>4. [p \in Peers |-> SumOver(f, EntriesOf(list, p))]
          = [p \in Peers |-> SumOver(f, {i \in S : owner[i] = p})]
    BY <1>2
  <1> HIDE DEF owner, S
  <1>5. SumOver([p \in Peers |-> SumOver(f, {i \in S : owner[i] = p})], Peers)
          = SumOver(f, S)
    BY <1>1, SumPartition DEF S
  <1> QED BY <1>3, <1>4, <1>5 DEF S

\* The payments of a release are natural numbers and add up to what the entries are
\* paid, whoever is named how often; no peer gets less than an entry of its own.
LEMMA PaymentsAddUp ==
    ASSUME AccessEscrowAssumption, NEW list \in PeerList, NEW amounts,
           \A i \in DOMAIN list : amounts[i] \in Nat
    PROVE  /\ \A p \in Peers :
                 /\ Payment(amounts, list, p) \in Nat
                 /\ \A i \in EntriesOf(list, p) :
                       amounts[i] <= Payment(amounts, list, p)
           /\ SumOver([p \in Peers |-> Payment(amounts, list, p)], Peers)
                 = SumOver(amounts, DOMAIN list)
  <1>1. /\ \A p \in Peers : SumOver(amounts, EntriesOf(list, p)) \in Nat
        /\ SumOver([p \in Peers |-> SumOver(amounts, EntriesOf(list, p))], Peers)
              = SumOver(amounts, DOMAIN list)
    BY EntriesPartition
  <1>2. ASSUME NEW p \in Peers, NEW i \in EntriesOf(list, p)
        PROVE  amounts[i] <= SumOver(amounts, EntriesOf(list, p))
    <2>1. IsFiniteSet(EntriesOf(list, p))
      BY EntriesFinite
    <2>2. \A j \in EntriesOf(list, p) : amounts[j] \in Nat
      BY DEF EntriesOf
    <2> QED BY <2>1, <2>2, SumBoundsMember
  <1> QED BY <1>1, <1>2 DEF Payment

\* What the peers gain in trust together is at most what the collection gains.
LEMMA TrustGains ==
    ASSUME AccessEscrowAssumption, NEW list \in PeerList, NEW amounts
    PROVE  /\ \A p \in Peers :
                 /\ TrustGain(amounts, list, p) \in Nat
                 /\ Cardinality(CreditedEntries(amounts, list, p)) \in Nat
                 /\ CreditedEntries(amounts, list, p) = {} =>
                       /\ TrustGain(amounts, list, p) = 0
                       /\ Cardinality(CreditedEntries(amounts, list, p)) = 0
                 /\ CreditedEntries(amounts, list, p) # {} =>
                       Cardinality(CreditedEntries(amounts, list, p)) > 0
           /\ SumOver([p \in Peers |-> TrustGain(amounts, list, p)], Peers)
                 <= TotalWeight(list)
  <1> DEFINE weights == WeightsOf(list)
             gains == [p \in Peers |-> TrustGain(amounts, list, p)]
             groups == [p \in Peers |-> SumOver(weights, EntriesOf(list, p))]
  <1>1. IsFiniteSet(Peers) /\ \A i \in DOMAIN list : weights[i] \in Nat
    BY ListType DEF AccessEscrowAssumption
  <1>2. /\ \A p \in Peers : groups[p] \in Nat
        /\ SumOver(groups, Peers) = TotalWeight(list)
    BY <1>1, EntriesPartition DEF TotalWeight
  <1>3. ASSUME NEW p \in Peers
        PROVE  TrustGain(amounts, list, p) \in Nat
               /\ TrustGain(amounts, list, p) <= groups[p]
    <2>1. \A i \in EntriesOf(list, p) : weights[i] \in Nat
      BY <1>1 DEF EntriesOf
    <2> HIDE DEF weights
    <2>2. /\ SumOver(weights, CreditedEntries(amounts, list, p)) \in Nat
          /\ SumOver(weights, CreditedEntries(amounts, list, p))
                 <= SumOver(weights, EntriesOf(list, p))
      BY <2>1, EntriesFinite, SumSubset
    <2> QED BY <2>2 DEF TrustGain, weights
  <1>4. \A p \in Peers : gains[p] \in Nat /\ gains[p] <= groups[p]
    BY <1>3
  <1>5. SumOver(gains, Peers) <= SumOver(groups, Peers)
    <2> HIDE DEF gains, groups
    <2> QED BY <1>1, <1>2, <1>4, SumMono
  <1>6. ASSUME NEW p \in Peers
        PROVE  /\ Cardinality(CreditedEntries(amounts, list, p)) \in Nat
               /\ CreditedEntries(amounts, list, p) = {} =>
                     /\ TrustGain(amounts, list, p) = 0
                     /\ Cardinality(CreditedEntries(amounts, list, p)) = 0
               /\ CreditedEntries(amounts, list, p) # {} =>
                     Cardinality(CreditedEntries(amounts, list, p)) > 0
    <2> DEFINE C == CreditedEntries(amounts, list, p)
    <2>1. IsFiniteSet(C)
      BY EntriesFinite
    <2>2. C = {} => SumOver(weights, C) = 0
      BY SumOfNobody
    <2> HIDE DEF C, weights
    <2>3. Cardinality(C) \in Nat /\ (Cardinality(C) = 0 <=> C = {})
      BY <2>1, FS_CardinalityType, FS_EmptySet
    <2>4. C # {} => Cardinality(C) > 0
      BY <2>3
    <2> QED BY <2>2, <2>3, <2>4 DEF C, TrustGain, weights
  <1> QED BY <1>2, <1>3, <1>5, <1>6

----------------------------------------------------------------------------
(* Types of the escrows and their balances. *)

EscrowType ==
    /\ escrow \in [Purchasers -> EscrowRecord \cup {NoEscrow}]
    /\ lot \in [Purchasers -> Destinations \cup {"none"}]
    /\ escrowTokens \in [EscrowAccounts -> Nat]

\* An escrow that exists is a record of the right type, one that does not is NoEscrow.
LEMMA EscrowCases ==
    ASSUME AccessEscrowAssumption, EscrowType, NEW b \in Purchasers
    PROVE  /\ escrow[b].exists \in BOOLEAN
           /\ escrow[b].exists => escrow[b] \in EscrowRecord
           /\ ~escrow[b].exists => escrow[b] = NoEscrow
           /\ escrow[b].amount_locked \in Nat
           /\ escrow[b].age \in Int
           /\ escrow[b].is_cid_revealed \in BOOLEAN
  <1>1. escrow[b] \in EscrowRecord \cup {NoEscrow}
    BY DEF EscrowType
  <1>2. CASE escrow[b] \in EscrowRecord
    <2>1. /\ escrow[b].exists = TRUE
          /\ escrow[b].amount_locked \in Nat
          /\ escrow[b].is_cid_revealed \in BOOLEAN
          /\ escrow[b].age \in 0 .. Expiry + 1
      BY <1>2 DEF EscrowRecord
    <2>2. escrow[b].age \in Int
      BY <2>1 DEF AccessEscrowAssumption
    <2> QED BY <1>1, <1>2, <2>1, <2>2
  <1>3. CASE escrow[b] = NoEscrow
    BY <1>1, <1>3 DEF NoEscrow
  <1> QED BY <1>1, <1>2, <1>3

\* Whatever arrives at an account is a natural number.
LEMMA ArrivesType ==
    ASSUME NEW x, NEW to, NEW n \in Nat
    PROVE  Arrives(x, to, n) \in Nat
  BY DEF Arrives

\* What a release takes from its account: the entries' amounts, and dust that goes to
\* one other account.
LEMMA ReleaseMoves ==
    ASSUME AccessEscrowAssumption, EscrowType, NEW b \in Purchasers,
           NEW a \in EscrowAccounts, NEW list \in PeerList, ReleaseEscrow(b, a, list)
    PROVE  LET amounts == PeerAmounts(escrow[b].amount_locked, list)
               dust == Dust(escrowTokens[a], amounts, list)
           IN  /\ \A i \in DOMAIN list : amounts[i] \in Nat
               /\ SumOver(amounts, DOMAIN list) \in Nat
               /\ dust \in Nat
               /\ dust + SumOver(amounts, DOMAIN list) = escrowTokens[a]
               /\ \E to \in Destinations \ {a} : PayOut(a, amounts, list, dust, to)
               /\ Creditable(amounts, list)
  <1> DEFINE locked == escrow[b].amount_locked
             amounts == PeerAmounts(locked, list)
             dust == Dust(escrowTokens[a], amounts, list)
  <1>1. locked \in Nat /\ escrowTokens[a] \in Nat
    BY EscrowCases DEF EscrowType
  <1>2. /\ TotalWeight(list) > 0
        /\ SumOver(amounts, DOMAIN list) <= escrowTokens[a]
        /\ Creditable(amounts, list)
        /\ \E to \in SweepTargets(amounts, list, a) : PayOut(a, amounts, list, dust, to)
    BY DEF ReleaseEscrow, DistributionComputes
  <1>3. /\ \A i \in DOMAIN list : amounts[i] \in Nat
        /\ SumOver(amounts, DOMAIN list) \in Nat
    <2> HIDE DEF locked
    <2> QED BY <1>1, <1>2, AmountsBounded
  <1>4. dust \in Nat /\ dust + SumOver(amounts, DOMAIN list) = escrowTokens[a]
    <2> DEFINE total == SumOver(amounts, DOMAIN list)
    <2>1. total \in Nat /\ total <= escrowTokens[a] /\ dust = escrowTokens[a] - total
      BY <1>2, <1>3 DEF Dust
    <2> HIDE DEF total, dust
    <2> QED BY <1>1, <2>1 DEF total
  <1>5. SweepTargets(amounts, list, a) \subseteq Destinations \ {a}
    <2>1. list[Len(list)].wallet \in Peers
      BY ListType
    <2>2. list[Len(list)].wallet # a
      BY <2>1 DEF AccessEscrowAssumption
    <2> QED BY <2>1, <2>2 DEF SweepTargets, Destinations
  <1> HIDE DEF amounts, dust
  <1> QED BY <1>2, <1>3, <1>4, <1>5 DEF amounts, dust

\* The accounts after a release: its own is empty, and no other one loses anything.
LEMMA ReleaseBalances ==
    ASSUME AccessEscrowAssumption, EscrowType, NEW b \in Purchasers,
           NEW a \in EscrowAccounts, NEW list \in PeerList, ReleaseEscrow(b, a, list)
    PROVE  /\ escrowTokens' \in [EscrowAccounts -> Nat]
           /\ escrowTokens'[a] = 0
           /\ \A c \in EscrowAccounts \ {a} : escrowTokens'[c] >= escrowTokens[c]
  <1> DEFINE amounts == PeerAmounts(escrow[b].amount_locked, list)
             dust == Dust(escrowTokens[a], amounts, list)
  <1>0. dust \in Nat /\ \E to \in Destinations \ {a} : PayOut(a, amounts, list, dust, to)
    BY ReleaseMoves
  <1> HIDE DEF amounts, dust
  <1>1. PICK to \in Destinations :
           escrowTokens' = [c \in EscrowAccounts |->
                              IF c = a THEN 0
                              ELSE escrowTokens[c] + Arrives(c, to, dust)]
    BY <1>0 DEF PayOut
  <1>2. \A c \in EscrowAccounts : escrowTokens[c] \in Nat /\ Arrives(c, to, dust) \in Nat
    BY <1>0, ArrivesType DEF EscrowType
  <1> QED BY <1>1, <1>2

\* The accounts after a burn.
LEMMA BurnBalances ==
    ASSUME EscrowType, NEW b \in Purchasers, NEW a \in EscrowAccounts,
           BurnExpiredEscrow(b, a)
    PROVE  /\ escrowTokens' \in [EscrowAccounts -> Nat]
           /\ escrowTokens'[a] = 0
           /\ \A c \in EscrowAccounts \ {a} : escrowTokens'[c] >= escrowTokens[c]
  <1>1. escrowTokens' = [escrowTokens EXCEPT ![a] = escrowTokens[a] - escrowTokens[a]]
    BY DEF BurnExpiredEscrow, BurnedAmount
  <1>2. \A c \in EscrowAccounts : escrowTokens[c] \in Nat
    BY DEF EscrowType
  <1> QED BY <1>1, <1>2 DEF EscrowType

\* The same of the accounts when a new escrow gets its tokens.
LEMMA OpenBalances ==
    ASSUME AccessEscrowAssumption, EscrowType, NEW b \in Purchasers, NEW locked \in Nat,
           NEW to \in Destinations, OpenEscrow(b, locked, to)
    PROVE  /\ escrowTokens' \in [EscrowAccounts -> Nat]
           /\ \A a \in EscrowAccounts : escrowTokens'[a] >= escrowTokens[a]
           /\ to \in EscrowAccounts => escrowTokens'[to] >= locked
  <1>1. /\ escrowTokens' = [a \in EscrowAccounts |->
                              escrowTokens[a] + Arrives(a, to, locked)]
        /\ \A a \in EscrowAccounts :
              escrowTokens[a] \in Nat /\ Arrives(a, to, locked) \in Nat
        /\ Arrives(to, to, locked) = locked
    BY ArrivesType DEF OpenEscrow, EscrowType, Arrives
  <1> QED BY <1>1

----------------------------------------------------------------------------
escrowVars == <<escrow, lot, escrowTokens, burned, reveal>>

\* What a step can do to the escrows, whatever it does to wallets and trust.
LEMMA StepCases ==
    ASSUME AccessEscrowAssumption, [Next]_vars
    PROVE  \/ \E b \in Purchasers, locked \in Nat, to \in Destinations :
                 OpenEscrow(b, locked, to)
           \/ \E b \in Purchasers, a \in EscrowAccounts, list \in PeerList :
                 ReleaseEscrow(b, a, list)
           \/ \E b \in Purchasers, a \in EscrowAccounts : BurnExpiredEscrow(b, a)
           \/ \E b \in Purchasers, p \in Peers : RevealCid(p, b)
           \/ \E a \in EscrowAccounts, amount \in Nat : Deposit(a, amount)
           \/ Tick
           \/ UNCHANGED escrowVars
  <1>1. ASSUME NEW b \in Purchasers, NEW total \in Amounts, NEW bp \in FeeRates,
               NEW a \in EscrowAccounts, PurchaseAccess(b, total, bp, a)
        PROVE  \E locked \in Nat, to \in Destinations : OpenEscrow(b, locked, to)
    <2>1. Locked(total, bp) \in Nat
      BY SplitExact DEF Locked, AccessEscrowAssumption
    <2>2. a \in Destinations
      BY DEF Destinations
    <2> QED BY <1>1, <2>1, <2>2 DEF PurchaseAccess
  <1>2. ASSUME NEW b \in Purchasers, NEW amount \in Amounts, NEW to \in Destinations,
               CreateAccessEscrow(b, amount, to)
        PROVE  \E locked \in Nat : OpenEscrow(b, locked, to)
    BY <1>2 DEF CreateAccessEscrow, AccessEscrowAssumption
  <1>3. ASSUME NEW p \in Peers,
               InitializePeerTrustState(p) \/ RegisterCollectionHost(p)
        PROVE  UNCHANGED escrowVars
    BY <1>3 DEF InitializePeerTrustState, RegisterCollectionHost, escrowVars, tokens
  <1>4. Blacklist => UNCHANGED escrowVars
    BY DEF Blacklist, escrowVars, tokens
  <1>5. UNCHANGED vars => UNCHANGED escrowVars
    BY DEF vars, escrowVars
  <1>6. ASSUME NEW a \in EscrowAccounts, NEW amount \in Amounts, Deposit(a, amount)
        PROVE  \E n \in Nat : Deposit(a, n)
    BY <1>6 DEF AccessEscrowAssumption
  <1>7. ASSUME NEW locked \in Amounts, NEW list \in PeerList,
               ReleaseElsewhere(locked, list)
        PROVE  UNCHANGED escrowVars
    BY <1>7 DEF ReleaseElsewhere, escrowVars, tokens
  <1> QED
    BY <1>1, <1>2, <1>3, <1>4, <1>5, <1>6, <1>7 DEF Next

LEMMA OpenedType ==
    ASSUME AccessEscrowAssumption, NEW locked \in Nat
    PROVE  [exists |-> TRUE, amount_locked |-> locked, age |-> 0,
            is_cid_revealed |-> FALSE] \in EscrowRecord
  BY DEF AccessEscrowAssumption, EscrowRecord

LEMMA EscrowTypeInit == Init => EscrowType
  BY DEF Init, EscrowType

LEMMA EscrowTypeNext ==
    ASSUME AccessEscrowAssumption, EscrowType, [Next]_vars
    PROVE  EscrowType'
  <1>1. ASSUME NEW b \in Purchasers, NEW locked \in Nat, NEW to \in Destinations,
               OpenEscrow(b, locked, to)
        PROVE  EscrowType'
    <2>1. escrow' \in [Purchasers -> EscrowRecord \cup {NoEscrow}]
      BY <1>1, OpenedType DEF OpenEscrow, EscrowType
    <2>2. lot' \in [Purchasers -> Destinations \cup {"none"}]
      BY <1>1 DEF OpenEscrow, EscrowType
    <2> QED BY <1>1, <2>1, <2>2, OpenBalances DEF EscrowType
  <1>2. ASSUME NEW b \in Purchasers, NEW a \in EscrowAccounts, NEW list \in PeerList,
               ReleaseEscrow(b, a, list)
        PROVE  EscrowType'
    <2>1. escrowTokens' \in [EscrowAccounts -> Nat]
      BY <1>2, ReleaseBalances
    <2> QED BY <1>2, <2>1 DEF ReleaseEscrow, AfterRelease, EscrowType
  <1>3. ASSUME NEW b \in Purchasers, NEW a \in EscrowAccounts, BurnExpiredEscrow(b, a)
        PROVE  EscrowType'
    <2>1. escrowTokens' \in [EscrowAccounts -> Nat]
      BY <1>3, BurnBalances
    <2> QED BY <1>3, <2>1 DEF BurnExpiredEscrow, EscrowType
  <1>4. ASSUME NEW b \in Purchasers, NEW p \in Peers, RevealCid(p, b)
        PROVE  EscrowType'
    <2>1. [escrow[b] EXCEPT !.is_cid_revealed = TRUE] \in EscrowRecord
      BY <1>4, EscrowCases DEF RevealCid, EscrowRecord
    <2> QED
      BY <1>4, <2>1 DEF RevealCid, tokens, EscrowType
  <1>5. ASSUME NEW a \in EscrowAccounts, NEW amount \in Nat, Deposit(a, amount)
        PROVE  EscrowType'
    BY <1>5 DEF Deposit, EscrowType
  <1>6. CASE Tick
    <2>1. ASSUME NEW b \in Purchasers, escrow[b].exists, ~IsExpired(b)
          PROVE  [escrow[b] EXCEPT !.age = @ + 1] \in EscrowRecord
      <3>1. escrow[b] \in EscrowRecord /\ escrow[b].age \in Int
        BY <2>1, EscrowCases
      <3>2. escrow[b].age + 1 \in 0 .. Expiry + 1
        <4>1. escrow[b].age \in 0 .. Expiry + 1
          BY <3>1 DEF EscrowRecord
        <4> QED BY <2>1, <4>1 DEF IsExpired, AccessEscrowAssumption
      <3> QED BY <3>1, <3>2 DEF EscrowRecord
    <2>2. \A b \in Purchasers : escrow[b] \in EscrowRecord \cup {NoEscrow}
      BY DEF EscrowType
    <2> QED
      BY <1>6, <2>1, <2>2 DEF Tick, tokens, EscrowType
  <1>7. CASE UNCHANGED escrowVars
    BY <1>7 DEF escrowVars, EscrowType
  <1> QED
    BY <1>1, <1>2, <1>3, <1>4, <1>5, <1>6, <1>7, StepCases

----------------------------------------------------------------------------
(* The balances cover what is locked. *)

LEMMA BackedInit == Init => EscrowBacked
  BY DEF Init, EscrowBacked, NoEscrow

\* The end of an escrow of b leaves the accounts of the others what they hold.
LEMMA BackedAfterClosing ==
    ASSUME AccessEscrowAssumption, EscrowType, EscrowBacked,
           NEW b \in Purchasers, NEW a \in EscrowAccounts, SignsFor(b, a),
           escrow' = [escrow EXCEPT ![b] = NoEscrow],
           lot' = [lot EXCEPT ![b] = "none"],
           escrowTokens' \in [EscrowAccounts -> Nat],
           \A c \in EscrowAccounts \ {a} : escrowTokens'[c] >= escrowTokens[c]
    PROVE  EscrowBacked'
  <1> SUFFICES ASSUME NEW c \in Purchasers, NEW x \in EscrowAccounts,
                      escrow'[c].exists, lot'[c] = x, OwnerOf[x] = c
               PROVE  escrowTokens'[x] >= escrow'[c].amount_locked
    BY DEF EscrowBacked
  <1>1. c # b /\ x # a
    BY DEF EscrowType, NoEscrow, SignsFor
  <1>2. escrow'[c] = escrow[c] /\ lot'[c] = lot[c]
    BY <1>1 DEF EscrowType
  <1>3. escrowTokens[x] >= escrow[c].amount_locked
    BY <1>2 DEF EscrowBacked
  <1>4. /\ escrowTokens'[x] >= escrowTokens[x]
        /\ escrowTokens'[x] \in Nat /\ escrowTokens[x] \in Nat
        /\ escrow[c].amount_locked \in Nat
    BY <1>1, EscrowCases DEF EscrowType
  <1> QED BY <1>2, <1>3, <1>4

LEMMA BackedNext ==
    ASSUME AccessEscrowAssumption, EscrowType, EscrowBacked, [Next]_vars
    PROVE  EscrowBacked'
  <1>1. ASSUME NEW b \in Purchasers, NEW locked \in Nat, NEW to \in Destinations,
               OpenEscrow(b, locked, to)
        PROVE  EscrowBacked'
    <2> SUFFICES ASSUME NEW c \in Purchasers, NEW x \in EscrowAccounts,
                        escrow'[c].exists, lot'[c] = x, OwnerOf[x] = c
                 PROVE  escrowTokens'[x] >= escrow'[c].amount_locked
      BY DEF EscrowBacked
    <2>1. CASE c = b
      <3>1. x = to /\ escrow'[c].amount_locked = locked
        BY <1>1, <2>1 DEF OpenEscrow, EscrowType
      <3> QED BY <1>1, <3>1, OpenBalances
    <2>2. CASE c # b
      <3>1. escrow'[c] = escrow[c] /\ lot'[c] = lot[c]
        BY <1>1, <2>2 DEF OpenEscrow, EscrowType
      <3>2. escrowTokens[x] >= escrow[c].amount_locked
        BY <3>1 DEF EscrowBacked
      <3>3. /\ escrowTokens'[x] >= escrowTokens[x]
            /\ escrowTokens'[x] \in Nat /\ escrowTokens[x] \in Nat
            /\ escrow[c].amount_locked \in Nat
        BY <1>1, OpenBalances, EscrowCases DEF EscrowType
      <3> QED BY <3>1, <3>2, <3>3
    <2> QED BY <2>1, <2>2
  <1>2. ASSUME NEW b \in Purchasers, NEW a \in EscrowAccounts, NEW list \in PeerList,
               ReleaseEscrow(b, a, list)
        PROVE  EscrowBacked'
    <2>1. /\ escrowTokens' \in [EscrowAccounts -> Nat]
          /\ \A c \in EscrowAccounts \ {a} : escrowTokens'[c] >= escrowTokens[c]
      BY <1>2, ReleaseBalances
    <2>2. /\ SignsFor(b, a)
          /\ escrow' = [escrow EXCEPT ![b] = NoEscrow]
          /\ lot' = [lot EXCEPT ![b] = "none"]
      BY <1>2 DEF ReleaseEscrow, AfterRelease
    <2> QED BY <2>1, <2>2, BackedAfterClosing
  <1>3. ASSUME NEW b \in Purchasers, NEW a \in EscrowAccounts, BurnExpiredEscrow(b, a)
        PROVE  EscrowBacked'
    <2>1. /\ escrowTokens' \in [EscrowAccounts -> Nat]
          /\ \A c \in EscrowAccounts \ {a} : escrowTokens'[c] >= escrowTokens[c]
      BY <1>3, BurnBalances
    <2>2. /\ SignsFor(b, a)
          /\ escrow' = [escrow EXCEPT ![b] = NoEscrow]
          /\ lot' = [lot EXCEPT ![b] = "none"]
      BY <1>3 DEF BurnExpiredEscrow
    <2> QED BY <2>1, <2>2, BackedAfterClosing
  <1>4. ASSUME lot' = lot,
               \A b \in Purchasers :
                  /\ escrow'[b].exists = escrow[b].exists
                  /\ escrow'[b].amount_locked = escrow[b].amount_locked,
               \A a \in EscrowAccounts :
                  /\ escrowTokens'[a] \in Nat
                  /\ escrowTokens'[a] >= escrowTokens[a]
        PROVE  EscrowBacked'
    <2> SUFFICES ASSUME NEW c \in Purchasers, NEW x \in EscrowAccounts,
                        escrow'[c].exists, lot'[c] = x, OwnerOf[x] = c
                 PROVE  escrowTokens'[x] >= escrow'[c].amount_locked
      BY DEF EscrowBacked
    <2>1. escrowTokens[x] >= escrow[c].amount_locked
      BY <1>4 DEF EscrowBacked
    <2>2. /\ escrowTokens'[x] >= escrowTokens[x]
          /\ escrowTokens'[x] \in Nat /\ escrowTokens[x] \in Nat
          /\ escrow[c].amount_locked \in Nat
          /\ escrow'[c].amount_locked = escrow[c].amount_locked
      BY <1>4, EscrowCases DEF EscrowType
    <2> QED BY <2>1, <2>2
  <1>5. ASSUME escrowTokens' = escrowTokens
        PROVE  \A a \in EscrowAccounts : /\ escrowTokens'[a] \in Nat
                                         /\ escrowTokens'[a] >= escrowTokens[a]
    BY <1>5 DEF EscrowType
  <1>6. ASSUME NEW b \in Purchasers, NEW p \in Peers, RevealCid(p, b)
        PROVE  EscrowBacked'
    <2>1. /\ escrow'[b].exists = escrow[b].exists
          /\ escrow'[b].amount_locked = escrow[b].amount_locked
      BY <1>6, EscrowCases DEF RevealCid, EscrowType, EscrowRecord
    <2>2. \A c \in Purchasers \ {b} : escrow'[c] = escrow[c]
      BY <1>6 DEF RevealCid, EscrowType
    <2>3. lot' = lot /\ escrowTokens' = escrowTokens
      BY <1>6 DEF RevealCid, tokens
    <2> QED BY <1>4, <1>5, <2>1, <2>2, <2>3
  <1>7. ASSUME NEW a \in EscrowAccounts, NEW amount \in Nat, Deposit(a, amount)
        PROVE  EscrowBacked'
    <2>1. lot' = lot /\ escrow' = escrow
      BY <1>7 DEF Deposit
    <2>2. \A x \in EscrowAccounts : /\ escrowTokens'[x] \in Nat
                                    /\ escrowTokens'[x] >= escrowTokens[x]
      BY <1>7 DEF Deposit, EscrowType
    <2> QED BY <1>4, <2>1, <2>2
  <1>8. CASE Tick
    <2>1. ASSUME NEW b \in Purchasers
          PROVE  /\ escrow'[b].exists = escrow[b].exists
                 /\ escrow'[b].amount_locked = escrow[b].amount_locked
      BY <1>8, EscrowCases DEF Tick, EscrowRecord
    <2>2. lot' = lot /\ escrowTokens' = escrowTokens
      BY <1>8 DEF Tick, tokens
    <2> QED BY <1>4, <1>5, <2>1, <2>2
  <1>9. CASE UNCHANGED escrowVars
    BY <1>4, <1>5, <1>9 DEF escrowVars
  <1> QED
    BY <1>1, <1>2, <1>3, <1>6, <1>7, <1>8, <1>9, StepCases

\* An open escrow whose tokens went to an account of its PDA is backed by that account
\* until it is closed, whatever is purchased, deposited, released, swept and burned.
THEOREM EscrowAlwaysBacked == Spec => []EscrowBacked
  <1>1. Init => EscrowType /\ EscrowBacked
    BY EscrowTypeInit, BackedInit
  <1>2. EscrowType /\ EscrowBacked /\ [Next]_vars => EscrowType' /\ EscrowBacked'
    BY AccessEscrowAssumption, EscrowTypeNext, BackedNext
  <1> QED
    BY <1>1, <1>2, PTL DEF Spec

----------------------------------------------------------------------------
(* One reveal per purchase. *)

\* The reveals of the running purchase are none before is_cid_revealed, one after.
RevealsMatch ==
    /\ reveal \in [Purchasers -> [Peers -> {"none", "current", "past"}]]
    /\ \A b \in Purchasers :
          escrow[b].exists =>
              IF escrow[b].is_cid_revealed
              THEN \E p \in Peers : {q \in Peers : reveal[b][q] = "current"} = {p}
              ELSE \A q \in Peers : reveal[b][q] # "current"

LEMMA RevealsInit == Init => RevealsMatch
  BY DEF Init, RevealsMatch, NoEscrow

LEMMA RevealsNext ==
    ASSUME AccessEscrowAssumption, EscrowType, RevealsMatch, [Next]_vars
    PROVE  RevealsMatch'
  <1>1. ASSUME NEW b \in Purchasers, NEW locked \in Nat, NEW to \in Destinations,
               OpenEscrow(b, locked, to)
        PROVE  RevealsMatch'
    <2>1. /\ reveal' \in [Purchasers -> [Peers -> {"none", "current", "past"}]]
          /\ \A q \in Peers : reveal'[b][q] # "current"
          /\ \A c \in Purchasers \ {b} : reveal'[c] = reveal[c]
      BY <1>1 DEF OpenEscrow, RevealsMatch
    <2>2. /\ ~escrow'[b].is_cid_revealed
          /\ \A c \in Purchasers \ {b} : escrow'[c] = escrow[c]
      BY <1>1 DEF OpenEscrow, EscrowType
    <2> QED BY <2>1, <2>2 DEF RevealsMatch
  <1>2. ASSUME NEW b \in Purchasers, escrow' = [escrow EXCEPT ![b] = NoEscrow],
               reveal' = reveal
        PROVE  RevealsMatch'
    <2>1. /\ ~escrow'[b].exists
          /\ \A c \in Purchasers \ {b} : escrow'[c] = escrow[c]
      BY <1>2 DEF EscrowType, NoEscrow
    <2> QED BY <1>2, <2>1 DEF RevealsMatch
  <1>3. ASSUME NEW b \in Purchasers, NEW p \in Peers, RevealCid(p, b)
        PROVE  RevealsMatch'
    <2>1. /\ reveal' \in [Purchasers -> [Peers -> {"none", "current", "past"}]]
          /\ \A q \in Peers : reveal'[b][q] = IF q = p THEN "current" ELSE reveal[b][q]
          /\ \A c \in Purchasers \ {b} : reveal'[c] = reveal[c]
      BY <1>3 DEF RevealCid, RevealsMatch
    <2>2. /\ escrow'[b].is_cid_revealed = TRUE
          /\ \A c \in Purchasers \ {b} : escrow'[c] = escrow[c]
      <3>1. escrow[b] \in EscrowRecord
        BY <1>3, EscrowCases DEF RevealCid
      <3> QED BY <1>3, <3>1 DEF RevealCid, EscrowType, EscrowRecord
    <2>3. \A q \in Peers : reveal[b][q] # "current"
      BY <1>3 DEF RevealCid, NotYetRevealed, RevealsMatch
    <2>4. {q \in Peers : reveal'[b][q] = "current"} = {p}
      BY <2>1, <2>3
    <2>5. ASSUME NEW c \in Purchasers, c # b, escrow'[c].exists
          PROVE  IF escrow'[c].is_cid_revealed
                 THEN \E r \in Peers : {q \in Peers : reveal'[c][q] = "current"} = {r}
                 ELSE \A q \in Peers : reveal'[c][q] # "current"
      <3>1. escrow'[c] = escrow[c] /\ reveal'[c] = reveal[c]
        BY <2>1, <2>2, <2>5
      <3> QED BY <2>5, <3>1 DEF RevealsMatch
    <2>6. \E r \in Peers : {q \in Peers : reveal'[b][q] = "current"} = {r}
      BY <2>4
    <2> QED BY <2>1, <2>2, <2>5, <2>6 DEF RevealsMatch
  <1>4. ASSUME reveal' = reveal,
               \A b \in Purchasers :
                  /\ escrow'[b].exists = escrow[b].exists
                  /\ escrow'[b].is_cid_revealed = escrow[b].is_cid_revealed
        PROVE  RevealsMatch'
    BY <1>4 DEF RevealsMatch
  <1>5. ASSUME NEW a \in EscrowAccounts, NEW amount \in Nat, Deposit(a, amount)
        PROVE  RevealsMatch'
    BY <1>4, <1>5 DEF Deposit
  <1>6. CASE Tick
    <2>1. ASSUME NEW b \in Purchasers
          PROVE  /\ escrow'[b].exists = escrow[b].exists
                 /\ escrow'[b].is_cid_revealed = escrow[b].is_cid_revealed
      BY <1>6, EscrowCases DEF Tick, EscrowRecord
    <2> QED BY <1>4, <1>6, <2>1 DEF Tick
  <1>7. CASE UNCHANGED escrowVars
    BY <1>4, <1>7 DEF escrowVars
  <1>8. ASSUME NEW b \in Purchasers, NEW a \in EscrowAccounts, NEW list \in PeerList,
               ReleaseEscrow(b, a, list)
        PROVE  RevealsMatch'
    BY <1>2, <1>8 DEF ReleaseEscrow, AfterRelease
  <1>9. ASSUME NEW b \in Purchasers, NEW a \in EscrowAccounts, BurnExpiredEscrow(b, a)
        PROVE  RevealsMatch'
    BY <1>2, <1>9 DEF BurnExpiredEscrow
  <1> QED
    BY <1>1, <1>3, <1>5, <1>6, <1>7, <1>8, <1>9, StepCases

LEMMA RevealsMatchIsOne ==
    ASSUME AccessEscrowAssumption, EscrowType, RevealsMatch
    PROVE  OneRevealPerPurchase
  <1> SUFFICES ASSUME NEW b \in Purchasers, escrow[b].exists
               PROVE  Cardinality({p \in Peers : reveal[b][p] = "current"}) =
                          (IF escrow[b].is_cid_revealed THEN 1 ELSE 0)
    BY DEF OneRevealPerPurchase
  <1> DEFINE revealers == {p \in Peers : reveal[b][p] = "current"}
  <1>1. CASE escrow[b].is_cid_revealed
    <2>1. PICK p \in Peers : revealers = {p}
      BY <1>1 DEF RevealsMatch
    <2>2. Cardinality(revealers) = 1
      BY <2>1, FS_Singleton
    <2> QED BY <1>1, <2>2
  <1>2. CASE ~escrow[b].is_cid_revealed
    <2>1. revealers = {}
      BY <1>2 DEF RevealsMatch
    <2>2. Cardinality(revealers) = 0
      BY <2>1, FS_EmptySet
    <2> QED BY <1>2, <2>2
  <1> QED BY <1>1, <1>2

\* However many pinners race and however often a purchaser buys again, the running
\* purchase has one reveal once the escrow says so and none before.
THEOREM AtMostOneReveal == Spec => []OneRevealPerPurchase
  <1>1. Init => EscrowType /\ RevealsMatch
    BY EscrowTypeInit, RevealsInit
  <1>2. EscrowType /\ RevealsMatch /\ [Next]_vars => EscrowType' /\ RevealsMatch'
    BY AccessEscrowAssumption, EscrowTypeNext, RevealsNext
  <1>3. EscrowType /\ RevealsMatch => OneRevealPerPurchase
    BY AccessEscrowAssumption, RevealsMatchIsOne
  <1> QED
    BY <1>1, <1>2, <1>3, PTL DEF Spec

----------------------------------------------------------------------------
(* The escrow implements EscrowPromise. *)

LEMMA PromiseInit == Init => Promise!Init
  BY DEF Init, Promise!Init, Phase, NoEscrow

\* The phases of all purchasers after a step that changes one escrow only.
LEMMA PhaseMoves ==
    ASSUME EscrowType, NEW b \in Purchasers, NEW from, NEW to, Phase(b) = from,
           Phase(b)' = to, \A c \in Purchasers \ {b} : escrow'[c] = escrow[c]
    PROVE  Promise!Moves(b, from, to)
  <1>1. \A c \in Purchasers \ {b} : Phase(c)' = Phase(c)
    BY DEF Phase, IsExpired
  <1> QED BY <1>1 DEF Promise!Moves

\* A step that changes the lot of b alone maps to a step of that lot.
LEMMA PromiseNext ==
    ASSUME AccessEscrowAssumption, EscrowType, [Next]_vars
    PROVE  [Promise!Next]_(Promise!promise)
  <1>0. \A a \in EscrowAccounts : escrowTokens[a] \in Nat /\ OwnerOf[a] \in Purchasers
    BY DEF EscrowType, AccessEscrowAssumption
  <1>1. ASSUME NEW b \in Purchasers, NEW locked \in Nat, NEW to \in Destinations,
               OpenEscrow(b, locked, to)
        PROVE  Promise!Lock(b)
    <2>1. /\ \A c \in Purchasers \ {b} : escrow'[c] = escrow[c]
          /\ escrow'[b].exists /\ escrow'[b].age = 0
          /\ ~escrow[b].exists
          /\ burned' = burned
      BY <1>1 DEF OpenEscrow, EscrowType
    <2>2. Phase(b) = "free" /\ Phase(b)' = "open"
      BY <2>1 DEF Phase, IsExpired, AccessEscrowAssumption
    <2>3. Promise!Moves(b, "free", "open")
      BY <2>1, <2>2, PhaseMoves
    <2>4. Promise!OnlyLose({})
      BY <1>1, OpenBalances DEF Promise!OnlyLose
    <2> QED BY <2>1, <2>3, <2>4 DEF Promise!Lock
  <1>2. ASSUME NEW b \in Purchasers, NEW a \in EscrowAccounts, NEW list \in PeerList,
               ReleaseEscrow(b, a, list)
        PROVE  Promise!Pay(a)
    <2>1. /\ escrow'[b] = NoEscrow
          /\ \A c \in Purchasers \ {b} : escrow'[c] = escrow[c]
          /\ escrow[b].exists /\ escrow[b].age <= Expiry
          /\ OwnerOf[a] = b
          /\ burned' = burned
      BY <1>2 DEF ReleaseEscrow, AfterRelease, EscrowType, CanRelease, InReleaseWindow,
                  SignsFor
    <2>2. Phase(b) = "open" /\ Phase(b)' = "free"
      BY <2>1, EscrowCases DEF Phase, IsExpired, NoEscrow, AccessEscrowAssumption
    <2>3. Promise!Moves(b, "open", "free")
      BY <2>1, <2>2, PhaseMoves
    <2>4. escrowTokens'[a] = 0 /\ Promise!OnlyLose({a})
      BY <1>2, ReleaseBalances DEF Promise!OnlyLose
    <2> QED BY <2>1, <2>3, <2>4 DEF Promise!Pay
  <1>3. ASSUME NEW b \in Purchasers, NEW a \in EscrowAccounts, BurnExpiredEscrow(b, a)
        PROVE  Promise!Destroy(a)
    <2>1. /\ escrow'[b] = NoEscrow
          /\ \A c \in Purchasers \ {b} : escrow'[c] = escrow[c]
          /\ escrow[b].exists /\ IsExpired(b)
          /\ OwnerOf[a] = b
      BY <1>3 DEF BurnExpiredEscrow, EscrowType, SignsFor
    <2>2. Phase(b) = "expired" /\ Phase(b)' = "free"
      BY <2>1 DEF Phase, NoEscrow
    <2>3. Promise!Moves(b, "expired", "free")
      BY <2>1, <2>2, PhaseMoves
    <2>4. /\ escrowTokens[a] > 0
          /\ escrowTokens'[a] = 0
          /\ Promise!OnlyLose({a})
          /\ burned' = burned + escrowTokens[a]
      BY <1>3, BurnBalances DEF BurnExpiredEscrow, BurnedAmount, Promise!OnlyLose
    <2> QED BY <2>1, <2>3, <2>4 DEF Promise!Destroy
  <1>4. ASSUME NEW b \in Purchasers, NEW p \in Peers, RevealCid(p, b)
        PROVE  UNCHANGED Promise!promise
    <2>1. \A c \in Purchasers : /\ escrow'[c].exists = escrow[c].exists
                                /\ escrow'[c].age = escrow[c].age
      <3>1. escrow[b] \in EscrowRecord
        BY <1>4, EscrowCases DEF RevealCid
      <3> QED BY <1>4, <3>1 DEF RevealCid, EscrowType, EscrowRecord
    <2>2. \A c \in Purchasers : Phase(c)' = Phase(c)
      BY <2>1 DEF Phase, IsExpired
    <2> QED
      BY <1>4, <2>2 DEF RevealCid, tokens, Promise!promise
  <1>5. ASSUME NEW a \in EscrowAccounts, NEW amount \in Nat, Deposit(a, amount)
        PROVE  Promise!Receive
    <2>1. escrow' = escrow /\ burned' = burned
      BY <1>5 DEF Deposit
    <2>2. \A c \in Purchasers : Phase(c)' = Phase(c)
      BY <2>1 DEF Phase, IsExpired
    <2>3. Promise!OnlyLose({})
      BY <1>0, <1>5 DEF Deposit, EscrowType, Promise!OnlyLose
    <2> QED BY <2>1, <2>2, <2>3 DEF Promise!Receive
  <1>6. ASSUME Tick
        PROVE  \E S \in SUBSET Purchasers : Promise!Expire(S)
    <2> DEFINE S == {b \in Purchasers : Phase(b) = "open" /\ Phase(b)' = "expired"}
    <2>1. ASSUME NEW b \in Purchasers
          PROVE  Phase(b)' = IF b \in S THEN "expired" ELSE Phase(b)
      <3>1. CASE escrow[b].exists /\ ~IsExpired(b)
        <4>1. escrow'[b].exists
          BY <1>6, <3>1, EscrowCases DEF Tick, EscrowRecord
        <4> QED BY <3>1, <4>1 DEF Phase
      <3>2. CASE ~(escrow[b].exists /\ ~IsExpired(b))
        <4>1. escrow'[b] = escrow[b]
          BY <1>6, <3>2 DEF Tick
        <4> QED BY <4>1 DEF Phase, IsExpired
      <3> QED BY <3>1, <3>2
    <2>2. Promise!Expire(S)
      BY <1>6, <2>1 DEF Tick, tokens, Promise!Expire
    <2> QED BY <2>2
  <1>7. ASSUME UNCHANGED escrowVars
        PROVE  UNCHANGED Promise!promise
    BY <1>7 DEF escrowVars, Promise!promise, Phase, IsExpired
  <1> QED
    BY <1>1, <1>2, <1>3, <1>4, <1>5, <1>6, <1>7, StepCases DEF Promise!Next

\* Whatever purchasers, peers, depositors and burners do, an account of an escrow loses
\* tokens only whole and with an escrow of its owner: to the named peers and one sweep
\* before it expires, or destroyed after.
THEOREM EscrowImplementsPromise == Spec => PromiseKept
  <1>1. Init => EscrowType /\ Promise!Init
    BY EscrowTypeInit, PromiseInit
  <1>2. EscrowType /\ [Next]_vars => EscrowType' /\ [Promise!Next]_(Promise!promise)
    BY AccessEscrowAssumption, EscrowTypeNext, PromiseNext
  <1> QED
    BY <1>1, <1>2, PTL DEF Spec, PromiseKept, Promise!Safety

----------------------------------------------------------------------------
(* Types of all the accounts. *)

LEMMA TypeHasEscrowType == TypeOK => EscrowType
  BY DEF TypeOK, EscrowType

\* A trust account's record, and the fields a proof reads from it.
LEMMA TrustCases ==
    ASSUME TypeOK, NEW p \in Peers
    PROVE  /\ trust[p].exists \in BOOLEAN
           /\ trust[p].serves \in Nat
           /\ trust[p].score \in Nat
           /\ trust[p].exists => trust[p] \in TrustRecord
           /\ ~trust[p].exists => trust[p] = NoTrust
  <1>1. trust[p] \in TrustRecord \cup {NoTrust}
    BY DEF TypeOK
  <1>2. CASE trust[p] \in TrustRecord
    BY <1>2 DEF TrustRecord
  <1>3. CASE trust[p] = NoTrust
    BY <1>3 DEF NoTrust
  <1> QED BY <1>1, <1>2, <1>3

\* A release leaves every trust account well-formed, the uncredited ones as they were.
LEMMA TrustAfterType ==
    ASSUME AccessEscrowAssumption, TypeOK, NEW list \in PeerList, NEW amounts,
           Creditable(amounts, list), NEW p \in Peers
    PROVE  /\ TrustAfter(amounts, list, p) \in TrustRecord \cup {NoTrust}
           /\ TrustAfter(amounts, list, p).score
                = trust[p].score + TrustGain(amounts, list, p)
           /\ TrustAfter(amounts, list, p).serves = trust[p].serves
                + Cardinality(CreditedEntries(amounts, list, p))
           /\ CreditedEntries(amounts, list, p) = {} =>
                TrustAfter(amounts, list, p) = trust[p]
  <1> DEFINE C == CreditedEntries(amounts, list, p)
             gain == TrustGain(amounts, list, p)
             serves == Cardinality(C)
             after == TrustAfter(amounts, list, p)
  <1>1. gain \in Nat /\ serves \in Nat /\ (C = {} => gain = 0 /\ serves = 0)
    BY TrustGains
  <1>2. C # {} => trust[p].exists
    BY DEF Creditable
  <1>3. after = [exists |-> trust[p].exists, serves |-> trust[p].serves + serves,
                 score |-> trust[p].score + gain]
    BY DEF TrustAfter
  <1>4. trust[p].serves \in Nat /\ trust[p].score \in Nat
    BY TrustCases
  <1> HIDE DEF C, gain, serves, after
  <1>5. CASE trust[p].exists
    <2>1. trust[p] \in TrustRecord
      BY <1>5, TrustCases
    <2>2. /\ after \in TrustRecord
          /\ after.score = trust[p].score + gain
          /\ after.serves = trust[p].serves + serves
      <3>1. trust[p].exists = TRUE
        BY <2>1 DEF TrustRecord
      <3>2. trust[p].serves + serves \in Nat /\ trust[p].score + gain \in Nat
        BY <1>1, <1>4
      <3>3. after \in TrustRecord
        BY <1>3, <3>1, <3>2 DEF TrustRecord
      <3> QED BY <1>3, <3>3
    <2>3. C = {} => after = trust[p]
      <3> SUFFICES ASSUME C = {} PROVE after = trust[p]
        OBVIOUS
      <3>1. gain = 0 /\ serves = 0
        BY <1>1
      <3>2. trust[p].serves + 0 = trust[p].serves /\ trust[p].score + 0 = trust[p].score
        BY <1>4
      <3>3. after = [exists |-> trust[p].exists, serves |-> trust[p].serves,
                     score |-> trust[p].score]
        BY <1>3, <3>1, <3>2
      <3> QED BY <2>1, <3>3 DEF TrustRecord
    <2> QED BY <2>2, <2>3 DEF C, gain, serves, after
  <1>6. CASE ~trust[p].exists
    <2>1. trust[p] = NoTrust /\ C = {}
      BY <1>2, <1>6, TrustCases
    <2>2. gain = 0 /\ serves = 0
      BY <1>1, <2>1
    <2>3. after = NoTrust
      BY <1>3, <2>1, <2>2 DEF NoTrust
    <2>4. after.score = trust[p].score + gain /\ after.serves = trust[p].serves + serves
      BY <2>1, <2>2, <2>3 DEF NoTrust
    <2> QED BY <2>1, <2>3, <2>4 DEF C, gain, serves, after
  <1> QED BY <1>5, <1>6

\* The accounts whose types the lemmas on escrows and reveals do not cover.
OtherTypes ==
    /\ wallet \in [Purchasers -> Nat]
    /\ paid \in [Peers -> Nat]
    /\ rest \in Nat
    /\ burned \in Nat
    /\ paidElsewhere \in [Peers -> Nat]
    /\ trust \in [Peers -> TrustRecord \cup {NoTrust}]
    /\ totalTrust \in Nat
    /\ otherTrust \in Nat
    /\ isHost \in [Peers -> BOOLEAN]
    /\ isBlacklisted \in BOOLEAN

\* Both kinds of release credit a list of peers, for the collection they belong to.
LEMMA CreditTypes ==
    ASSUME AccessEscrowAssumption, TypeOK, NEW list \in PeerList, NEW amounts,
           Creditable(amounts, list),
           trust' = [p \in Peers |-> TrustAfter(amounts, list, p)]
    PROVE  /\ trust' \in [Peers -> TrustRecord \cup {NoTrust}]
           /\ CollectionGain(list) \in Nat
  BY TrustAfterType, ListType DEF CollectionGain

\* The amounts another collection's release pays.
LEMMA ElsewhereAmounts ==
    ASSUME AccessEscrowAssumption, NEW locked \in Amounts, NEW list \in PeerList,
           ReleaseElsewhere(locked, list)
    PROVE  LET amounts == PeerAmounts(locked, list)
           IN  /\ \A i \in DOMAIN list : amounts[i] \in Nat
               /\ Creditable(amounts, list)
               /\ paidElsewhere' = [p \in Peers |-> paidElsewhere[p]
                                                      + Payment(amounts, list, p)]
               /\ trust' = [p \in Peers |-> TrustAfter(amounts, list, p)]
  <1>1. locked \in Nat /\ TotalWeight(list) > 0
    BY DEF ReleaseElsewhere, DistributionComputes, AccessEscrowAssumption
  <1>2. \A i \in DOMAIN list : PeerAmounts(locked, list)[i] \in Nat
    BY <1>1, AmountsBounded
  <1> QED BY <1>2 DEF ReleaseElsewhere

LEMMA OtherTypesNext ==
    ASSUME AccessEscrowAssumption, TypeOK, [Next]_vars
    PROVE  OtherTypes'
  <1>0. OtherTypes
    BY DEF TypeOK, OtherTypes
  <1>a. ASSUME NEW b \in Purchasers, NEW locked \in Nat, NEW to \in Destinations,
               OpenEscrow(b, locked, to)
        PROVE  paid' \in [Peers -> Nat]
    <2>1. \A p \in Peers : paid[p] \in Nat /\ Arrives(p, to, locked) \in Nat
      BY <1>0, ArrivesType DEF OtherTypes
    <2> QED BY <1>a, <2>1 DEF OpenEscrow
  <1>1. ASSUME NEW b \in Purchasers, NEW total \in Amounts, NEW bp \in FeeRates,
               NEW a \in EscrowAccounts, PurchaseAccess(b, total, bp, a)
        PROVE  OtherTypes'
    <2>1. /\ total \in Nat
          /\ Locked(total, bp) \in Nat
          /\ TotalFee(total, bp) \in Nat
          /\ AmountToStakers(total, bp) \in Nat
      BY SplitExact DEF AccessEscrowAssumption, Locked
    <2>2. OpenEscrow(b, Locked(total, bp), a) /\ a \in Destinations
      BY <1>1 DEF PurchaseAccess, Destinations
    <2>3. paid' \in [Peers -> Nat]
      BY <1>a, <2>1, <2>2
    <2>4. UNCHANGED <<burned, reputation, isHost, isBlacklisted>>
      BY <2>2 DEF OpenEscrow
    <2>5. wallet' \in [Purchasers -> Nat] /\ rest' \in Nat
      BY <1>0, <1>1, <2>1 DEF PurchaseAccess, OtherTypes
    <2> QED BY <1>0, <2>3, <2>4, <2>5 DEF OtherTypes, reputation
  <1>2. ASSUME NEW b \in Purchasers, NEW amount \in Amounts, NEW to \in Destinations,
               CreateAccessEscrow(b, amount, to)
        PROVE  OtherTypes'
    <2>1. amount \in Nat
      BY DEF AccessEscrowAssumption
    <2>2. OpenEscrow(b, amount, to)
      BY <1>2 DEF CreateAccessEscrow
    <2>3. paid' \in [Peers -> Nat]
      BY <1>a, <2>1, <2>2
    <2>4. UNCHANGED <<burned, reputation, isHost, isBlacklisted>>
      BY <2>2 DEF OpenEscrow
    <2>5. wallet' \in [Purchasers -> Nat]
      <3>1. ASSUME NEW c \in Purchasers
            PROVE  wallet[c] - Arrives(c, b, amount) + Arrives(c, to, amount) \in Nat
        BY <1>0, <1>2, <2>1 DEF CreateAccessEscrow, OtherTypes, Arrives
      <3> QED BY <1>2, <3>1 DEF CreateAccessEscrow
    <2>6. rest' \in Nat
      BY <1>0, <1>2, <2>1, ArrivesType DEF CreateAccessEscrow, OtherTypes
    <2> QED BY <1>0, <2>3, <2>4, <2>5, <2>6 DEF OtherTypes, reputation
  <1>3. ASSUME NEW b \in Purchasers, NEW a \in EscrowAccounts, NEW list \in PeerList,
               ReleaseEscrow(b, a, list)
        PROVE  OtherTypes'
    <2> DEFINE amounts == PeerAmounts(escrow[b].amount_locked, list)
               dust == Dust(escrowTokens[a], amounts, list)
    <2>1. /\ \A i \in DOMAIN list : amounts[i] \in Nat
          /\ dust \in Nat
          /\ Creditable(amounts, list)
          /\ \E to \in Destinations \ {a} : PayOut(a, amounts, list, dust, to)
      BY <1>3, ReleaseMoves, TypeHasEscrowType
    <2>2. trust' = [p \in Peers |-> TrustAfter(amounts, list, p)]
      BY <1>3 DEF ReleaseEscrow
    <2> HIDE DEF amounts, dust
    <2>3. PICK to \in Destinations : PayOut(a, amounts, list, dust, to)
      BY <2>1
    <2>4. \A p \in Peers : /\ paid[p] \in Nat
                           /\ Payment(amounts, list, p) \in Nat
                           /\ Arrives(p, to, dust) \in Nat
      BY <1>0, <2>1, PaymentsAddUp, ArrivesType DEF OtherTypes
    <2>5. paid' \in [Peers -> Nat]
      BY <2>3, <2>4 DEF PayOut
    <2>6. \A c \in Purchasers : wallet[c] \in Nat /\ Arrives(c, to, dust) \in Nat
      BY <1>0, <2>1, ArrivesType DEF OtherTypes
    <2>7. wallet' \in [Purchasers -> Nat]
      BY <2>3, <2>6 DEF PayOut
    <2>8. rest' \in Nat
      BY <1>0, <2>1, <2>3, ArrivesType DEF PayOut, OtherTypes
    <2>9. trust' \in [Peers -> TrustRecord \cup {NoTrust}] /\ totalTrust' \in Nat
      <3>1. /\ trust' \in [Peers -> TrustRecord \cup {NoTrust}]
            /\ CollectionGain(list) \in Nat
        BY <2>1, <2>2, CreditTypes
      <3>2. totalTrust' = totalTrust + CollectionGain(list)
        BY <1>3 DEF ReleaseEscrow
      <3> QED BY <1>0, <3>1, <3>2 DEF OtherTypes
    <2>10. UNCHANGED <<burned, paidElsewhere, otherTrust, isHost, isBlacklisted>>
      BY <1>3 DEF ReleaseEscrow
    <2> QED BY <1>0, <2>5, <2>7, <2>8, <2>9, <2>10 DEF OtherTypes
  <1>4. ASSUME NEW b \in Purchasers, NEW a \in EscrowAccounts, BurnExpiredEscrow(b, a)
        PROVE  OtherTypes'
    <2>1. escrowTokens[a] \in Nat
      BY DEF TypeOK
    <2>2. burned' = burned + escrowTokens[a]
      BY <1>4 DEF BurnExpiredEscrow, BurnedAmount
    <2>3. UNCHANGED <<wallet, paid, rest, reputation, isHost, isBlacklisted>>
      BY <1>4 DEF BurnExpiredEscrow
    <2> QED BY <1>0, <2>1, <2>2, <2>3 DEF OtherTypes, reputation
  <1>5. ASSUME NEW b \in Purchasers, NEW p \in Peers, RevealCid(p, b)
        PROVE  OtherTypes'
    BY <1>0, <1>5 DEF RevealCid, OtherTypes, tokens, reputation
  <1>6. ASSUME NEW a \in EscrowAccounts, NEW amount \in Amounts, Deposit(a, amount)
        PROVE  OtherTypes'
    <2>1. amount \in Nat
      BY DEF AccessEscrowAssumption
    <2> QED BY <1>0, <1>6, <2>1 DEF Deposit, OtherTypes, reputation
  <1>7. ASSUME NEW p \in Peers, InitializePeerTrustState(p)
        PROVE  OtherTypes'
    BY <1>0, <1>7 DEF InitializePeerTrustState, OtherTypes, tokens, TrustRecord
  <1>8. ASSUME NEW p \in Peers, RegisterCollectionHost(p)
        PROVE  OtherTypes'
    BY <1>0, <1>8 DEF RegisterCollectionHost, OtherTypes, tokens, reputation
  <1>9. CASE Blacklist
    BY <1>0, <1>9 DEF Blacklist, OtherTypes, tokens, reputation
  <1>10. CASE Tick
    BY <1>0, <1>10 DEF Tick, OtherTypes, tokens, reputation
  <1>11. CASE UNCHANGED vars
    BY <1>0, <1>11 DEF vars, OtherTypes
  <1>12. ASSUME NEW locked \in Amounts, NEW list \in PeerList,
                ReleaseElsewhere(locked, list)
         PROVE  OtherTypes'
    <2> DEFINE amounts == PeerAmounts(locked, list)
    <2>1. /\ \A i \in DOMAIN list : amounts[i] \in Nat
          /\ Creditable(amounts, list)
          /\ paidElsewhere' = [p \in Peers |-> paidElsewhere[p]
                                                 + Payment(amounts, list, p)]
          /\ trust' = [p \in Peers |-> TrustAfter(amounts, list, p)]
      BY <1>12, ElsewhereAmounts
    <2> HIDE DEF amounts
    <2>2. \A p \in Peers : paidElsewhere[p] \in Nat /\ Payment(amounts, list, p) \in Nat
      BY <1>0, <2>1, PaymentsAddUp DEF OtherTypes
    <2>3. paidElsewhere' \in [Peers -> Nat]
      BY <2>1, <2>2
    <2>4. trust' \in [Peers -> TrustRecord \cup {NoTrust}] /\ otherTrust' \in Nat
      <3>1. /\ trust' \in [Peers -> TrustRecord \cup {NoTrust}]
            /\ CollectionGain(list) \in Nat
        BY <2>1, CreditTypes
      <3>2. otherTrust' = otherTrust + CollectionGain(list)
        BY <1>12 DEF ReleaseElsewhere
      <3> QED BY <1>0, <3>1, <3>2 DEF OtherTypes
    <2>5. UNCHANGED <<tokens, totalTrust, isHost, isBlacklisted>>
      BY <1>12 DEF ReleaseElsewhere
    <2> QED BY <1>0, <2>3, <2>4, <2>5 DEF OtherTypes, tokens
  <1> QED
    BY <1>1, <1>2, <1>3, <1>4, <1>5, <1>6, <1>7, <1>8, <1>9, <1>10, <1>11, <1>12 DEF Next

LEMMA TypeInit == AccessEscrowAssumption /\ Init => TypeOK
  <1> SUFFICES ASSUME AccessEscrowAssumption, Init PROVE TypeOK
    OBVIOUS
  <1>1. EscrowType
    BY EscrowTypeInit
  <1>2. /\ wallet \in [Purchasers -> Nat] /\ rest \in Nat
        /\ paid \in [Peers -> Nat] /\ burned \in Nat /\ totalTrust \in Nat
        /\ paidElsewhere \in [Peers -> Nat] /\ otherTrust \in Nat
    BY DEF Init, AccessEscrowAssumption
  <1>3. /\ trust \in [Peers -> TrustRecord \cup {NoTrust}]
        /\ isHost \in [Peers -> BOOLEAN]
        /\ reveal \in [Purchasers -> [Peers -> {"none", "current", "past"}]]
        /\ isBlacklisted \in BOOLEAN
    BY DEF Init
  <1> QED BY <1>1, <1>2, <1>3 DEF TypeOK, EscrowType

LEMMA TypeNext ==
    ASSUME AccessEscrowAssumption, TypeOK, RevealsMatch, [Next]_vars
    PROVE  TypeOK'
  <1>1. EscrowType'
    BY EscrowTypeNext, TypeHasEscrowType
  <1>2. RevealsMatch'
    BY RevealsNext, TypeHasEscrowType
  <1>3. OtherTypes'
    BY OtherTypesNext
  <1> QED BY <1>1, <1>2, <1>3 DEF TypeOK, EscrowType, RevealsMatch, OtherTypes

\* Every field keeps its type; in particular no balance goes below zero, however a
\* release divides what is locked, and an account that is closed has no content.
THEOREM TypeCorrect == Spec => []TypeOK
  <1>1. Init => TypeOK /\ RevealsMatch
    BY AccessEscrowAssumption, TypeInit, RevealsInit
  <1>2. TypeOK /\ RevealsMatch /\ [Next]_vars => TypeOK' /\ RevealsMatch'
    BY AccessEscrowAssumption, TypeNext, RevealsNext, TypeHasEscrowType
  <1> QED BY <1>1, <1>2, PTL DEF Spec

----------------------------------------------------------------------------
(* Conservation.  What leaves an account arrives at one destination, and a *)
(* destination is in one of the sums only.                                 *)

Held == SumOver(wallet, Purchasers) + SumOver(escrowTokens, EscrowAccounts)
          + SumOver(paid, Peers) + rest + burned

LEMMA HeldType ==
    ASSUME AccessEscrowAssumption, TypeOK
    PROVE  /\ SumOver(wallet, Purchasers) \in Nat
           /\ SumOver(escrowTokens, EscrowAccounts) \in Nat
           /\ SumOver(paid, Peers) \in Nat
           /\ rest \in Nat
           /\ burned \in Nat
           /\ \A b \in Purchasers : wallet[b] \in Nat
           /\ \A a \in EscrowAccounts : escrowTokens[a] \in Nat
           /\ \A p \in Peers : paid[p] \in Nat
           /\ IsFiniteSet(Purchasers)
           /\ IsFiniteSet(EscrowAccounts)
           /\ IsFiniteSet(Peers)
  <1>1. /\ rest \in Nat /\ burned \in Nat
        /\ \A b \in Purchasers : wallet[b] \in Nat
        /\ \A a \in EscrowAccounts : escrowTokens[a] \in Nat
        /\ \A p \in Peers : paid[p] \in Nat
    BY DEF TypeOK
  <1>2. IsFiniteSet(Purchasers) /\ IsFiniteSet(EscrowAccounts) /\ IsFiniteSet(Peers)
    BY DEF AccessEscrowAssumption
  <1> QED BY <1>1, <1>2, SumType

\* Changing one account of S changes what all of them hold by as much.
LEMMA AccountChange ==
    ASSUME NEW S, IsFiniteSet(S), NEW f, NEW x \in S, NEW n \in Nat, NEW g,
           \A y \in S : f[y] \in Nat, \A y \in S \ {x} : g[y] = f[y], g[x] = n
    PROVE  /\ SumOver(g, S) = SumOver(f, S) - f[x] + n
           /\ SumOver(f, S) \in Nat
           /\ SumOver(g, S) \in Nat
  <1>1. /\ \A y \in S : f[y] \in Nat /\ g[y] \in Nat
        /\ \A y \in S \ {x} : g[y] = f[y]
        /\ g[x] = n
    OBVIOUS
  <1>2. SumOver(g, S) = SumOver(f, S) - f[x] + g[x]
    BY <1>1, SumUpdate
  <1>3. SumOver(f, S) \in Nat /\ SumOver(g, S) \in Nat
    BY <1>1, SumType
  <1> QED BY <1>1, <1>2, <1>3

\* The part of n tokens sent to `to` that the accounts of S get together.
ShareOf(S, to, n) == IF to \in S THEN n ELSE 0

LEMMA SumArrives ==
    ASSUME NEW S, IsFiniteSet(S), NEW f, \A x \in S : f[x] \in Nat, NEW to,
           NEW n \in Nat, NEW g, \A x \in S : g[x] = f[x] + Arrives(x, to, n)
    PROVE  /\ SumOver(g, S) = SumOver(f, S) + ShareOf(S, to, n)
           /\ SumOver(f, S) \in Nat
           /\ SumOver(g, S) \in Nat
           /\ ShareOf(S, to, n) \in Nat
  <1>1. \A x \in S : g[x] \in Nat
    BY DEF Arrives
  <1>2. SumOver(f, S) \in Nat /\ SumOver(g, S) \in Nat /\ ShareOf(S, to, n) \in Nat
    BY <1>1, SumType DEF ShareOf
  <1>3. CASE to \in S
    <2>1. g[to] = f[to] + n /\ \A x \in S \ {to} : g[x] = f[x]
      BY <1>3 DEF Arrives
    <2>2. SumOver(g, S) = SumOver(f, S) - f[to] + g[to]
      BY <1>1, <1>3, <2>1, SumUpdate
    <2>3. f[to] \in Nat
      BY <1>3
    <2> QED BY <1>2, <1>3, <2>1, <2>2, <2>3 DEF ShareOf
  <1>4. CASE to \notin S
    <2>1. \A x \in S : g[x] = f[x]
      BY <1>4 DEF Arrives
    <2>2. SumOver(g, S) = SumOver(f, S)
      BY <2>1, SumSame
    <2> QED BY <1>2, <1>4, <2>2 DEF ShareOf
  <1> QED BY <1>3, <1>4

\* Whatever is sent to a destination is counted once.
LEMMA OneDestination ==
    ASSUME AccessEscrowAssumption, NEW to \in Destinations, NEW n \in Nat
    PROVE  /\ ShareOf(Purchasers, to, n) \in Nat
           /\ ShareOf(EscrowAccounts, to, n) \in Nat
           /\ ShareOf(Peers, to, n) \in Nat
           /\ Arrives("rest", to, n) \in Nat
           /\ ShareOf(Purchasers, to, n) + ShareOf(EscrowAccounts, to, n)
                + ShareOf(Peers, to, n) + Arrives("rest", to, n) = n
  <1> USE DEF ShareOf, Arrives
  <1>1. CASE to \in Purchasers
    <2>1. to \notin EscrowAccounts /\ to \notin Peers /\ to # "rest"
      BY <1>1 DEF AccessEscrowAssumption
    <2> QED BY <1>1, <2>1
  <1>2. CASE to \in EscrowAccounts
    <2>1. to \notin Purchasers /\ to \notin Peers /\ to # "rest"
      BY <1>2 DEF AccessEscrowAssumption
    <2> QED BY <1>2, <2>1
  <1>3. CASE to \in Peers
    <2>1. to \notin Purchasers /\ to \notin EscrowAccounts /\ to # "rest"
      BY <1>3 DEF AccessEscrowAssumption
    <2> QED BY <1>3, <2>1
  <1>4. CASE to = "rest"
    <2>1. to \notin Purchasers /\ to \notin EscrowAccounts /\ to \notin Peers
      BY <1>4 DEF AccessEscrowAssumption
    <2> QED BY <1>4, <2>1
  <1> QED BY <1>1, <1>2, <1>3, <1>4 DEF Destinations

LEMMA HeldNext ==
    ASSUME AccessEscrowAssumption, TypeOK, [Next]_vars
    PROVE  Held' = Held
  <1> DEFINE inWallets == SumOver(wallet, Purchasers)
             inEscrow == SumOver(escrowTokens, EscrowAccounts)
             inPaid == SumOver(paid, Peers)
  <1>0. /\ inWallets \in Nat /\ inEscrow \in Nat /\ inPaid \in Nat
        /\ rest \in Nat /\ burned \in Nat
        /\ wallet \in [Purchasers -> Nat] /\ escrowTokens \in [EscrowAccounts -> Nat]
        /\ paid \in [Peers -> Nat]
        /\ IsFiniteSet(Purchasers) /\ IsFiniteSet(EscrowAccounts) /\ IsFiniteSet(Peers)
    BY HeldType DEF TypeOK
  <1>a. Held = inWallets + inEscrow + inPaid + rest + burned
    BY DEF Held
  <1>b. Held' = inWallets' + inEscrow' + inPaid' + rest' + burned'
    BY DEF Held
  <1>c. ASSUME NEW b \in Purchasers, NEW locked \in Nat, NEW to \in Destinations,
               OpenEscrow(b, locked, to)
        PROVE  /\ inEscrow' = inEscrow + ShareOf(EscrowAccounts, to, locked)
               /\ inPaid' = inPaid + ShareOf(Peers, to, locked)
               /\ burned' = burned
    <2>1. /\ \A a \in EscrowAccounts :
                escrowTokens'[a] = escrowTokens[a] + Arrives(a, to, locked)
          /\ \A p \in Peers : paid'[p] = paid[p] + Arrives(p, to, locked)
          /\ burned' = burned
      BY <1>c DEF OpenEscrow
    <2>2. /\ \A a \in EscrowAccounts : escrowTokens[a] \in Nat
          /\ \A p \in Peers : paid[p] \in Nat
      BY <1>0
    <2>3. inEscrow' = inEscrow + ShareOf(EscrowAccounts, to, locked)
      BY <1>0, <2>1, <2>2, SumArrives
    <2>4. inPaid' = inPaid + ShareOf(Peers, to, locked)
      BY <1>0, <2>1, <2>2, SumArrives
    <2> QED BY <2>1, <2>3, <2>4
  <1>1. ASSUME NEW b \in Purchasers, NEW total \in Amounts, NEW bp \in FeeRates,
               NEW a \in EscrowAccounts, PurchaseAccess(b, total, bp, a)
        PROVE  Held' = Held
    <2> DEFINE locked == Locked(total, bp)
               others == TotalFee(total, bp) + AmountToStakers(total, bp)
    <2>1. /\ total \in Nat /\ locked \in Nat /\ others \in Nat
          /\ locked + others = total
          /\ rest' = rest + others
      <3>1. /\ total \in Nat
            /\ TotalFee(total, bp) \in Nat
            /\ locked \in Nat
            /\ AmountToStakers(total, bp) \in Nat
            /\ TotalFee(total, bp) + locked + AmountToStakers(total, bp) = total
        BY SplitExact DEF AccessEscrowAssumption, Locked
      <3>2. rest' = rest + TotalFee(total, bp) + AmountToStakers(total, bp)
        BY <1>1 DEF PurchaseAccess
      <3> HIDE DEF locked
      <3> QED BY <1>0, <3>1, <3>2
    <2>2. /\ total <= wallet[b]
          /\ wallet' = [wallet EXCEPT ![b] = wallet[b] - total]
          /\ OpenEscrow(b, locked, a)
      BY <1>1 DEF PurchaseAccess
    <2> HIDE DEF locked, others
    <2>3. wallet[b] \in Nat /\ wallet[b] - total \in Nat
      BY <1>0, <2>1, <2>2
    <2>4. inWallets' = inWallets - wallet[b] + (wallet[b] - total)
      <3>1. /\ \A c \in Purchasers : wallet[c] \in Nat
            /\ \A c \in Purchasers \ {b} : wallet'[c] = wallet[c]
            /\ wallet'[b] = wallet[b] - total
        BY <1>0, <2>2
      <3> DEFINE left == wallet[b] - total
      <3>2. IsFiniteSet(Purchasers) /\ left \in Nat /\ wallet'[b] = left
        BY <1>0, <2>3, <3>1
      <3> HIDE DEF left
      <3>3. SumOver(wallet', Purchasers) = SumOver(wallet, Purchasers) - wallet[b] + left
        BY <3>1, <3>2, AccountChange
      <3> QED BY <3>3 DEF left
    <2>5. a \in Destinations /\ a \in EscrowAccounts /\ a \notin Peers
      BY DEF Destinations, AccessEscrowAssumption
    <2>6. /\ inEscrow' = inEscrow + locked
          /\ inPaid' = inPaid + 0
          /\ burned' = burned
      <3>1. ShareOf(EscrowAccounts, a, locked) = locked /\ ShareOf(Peers, a, locked) = 0
        BY <2>5 DEF ShareOf
      <3> HIDE DEF inWallets, inEscrow, inPaid
      <3> QED BY <1>c, <2>1, <2>2, <2>5, <3>1
    <2> HIDE DEF inWallets, inEscrow, inPaid
    <2> QED BY <1>0, <1>a, <1>b, <2>1, <2>2, <2>3, <2>4, <2>6
  <1>2. ASSUME NEW b \in Purchasers, NEW amount \in Amounts, NEW to \in Destinations,
               CreateAccessEscrow(b, amount, to)
        PROVE  Held' = Held
    <2>1. amount \in Nat
      BY DEF AccessEscrowAssumption
    <2>2. /\ amount <= wallet[b]
          /\ wallet' = [c \in Purchasers |->
                         wallet[c] - Arrives(c, b, amount) + Arrives(c, to, amount)]
          /\ rest' = rest + Arrives("rest", to, amount)
          /\ OpenEscrow(b, amount, to)
      BY <1>2 DEF CreateAccessEscrow
    <2> DEFINE spent == [wallet EXCEPT ![b] = wallet[b] - amount]
    <2>3. wallet[b] \in Nat /\ wallet[b] - amount \in Nat
      BY <1>0, <2>1, <2>2
    <2>4. /\ SumOver(spent, Purchasers) = inWallets - wallet[b] + (wallet[b] - amount)
          /\ spent \in [Purchasers -> Nat]
      <3>1. /\ \A c \in Purchasers : wallet[c] \in Nat
            /\ \A c \in Purchasers \ {b} : spent[c] = wallet[c]
            /\ spent[b] = wallet[b] - amount
        BY <1>0
      <3>2. spent \in [Purchasers -> Nat]
        BY <1>0, <2>3
      <3> HIDE DEF spent
      <3> QED BY <1>0, <2>3, <3>1, <3>2, AccountChange
    <2>5. \A c \in Purchasers : wallet'[c] = spent[c] + Arrives(c, to, amount)
      <3> SUFFICES ASSUME NEW c \in Purchasers
                   PROVE  wallet'[c] = spent[c] + Arrives(c, to, amount)
        OBVIOUS
      <3>1. spent[c] = wallet[c] - Arrives(c, b, amount)
        BY <1>0, <2>1, <2>3 DEF Arrives
      <3> QED BY <2>2, <3>1
    <2> HIDE DEF spent
    <2>6. inWallets' = SumOver(spent, Purchasers) + ShareOf(Purchasers, to, amount)
      <3>1. \A c \in Purchasers : spent[c] \in Nat
        BY <2>4
      <3> QED BY <1>0, <2>1, <2>5, <3>1, SumArrives
    <2>7. /\ inEscrow' = inEscrow + ShareOf(EscrowAccounts, to, amount)
          /\ inPaid' = inPaid + ShareOf(Peers, to, amount)
          /\ burned' = burned
      BY <1>c, <2>1, <2>2
    <2> HIDE DEF inWallets, inEscrow, inPaid
    <2>8. /\ ShareOf(Purchasers, to, amount) \in Nat
          /\ ShareOf(EscrowAccounts, to, amount) \in Nat
          /\ ShareOf(Peers, to, amount) \in Nat
          /\ Arrives("rest", to, amount) \in Nat
          /\ ShareOf(Purchasers, to, amount) + ShareOf(EscrowAccounts, to, amount)
               + ShareOf(Peers, to, amount) + Arrives("rest", to, amount) = amount
      BY <2>1, OneDestination
    <2>9. inWallets' = inWallets - amount + ShareOf(Purchasers, to, amount)
      BY <1>0, <2>1, <2>3, <2>4, <2>6
    <2>10. rest' = rest + Arrives("rest", to, amount)
      BY <2>2
    <2> QED BY <1>0, <1>a, <1>b, <2>1, <2>7, <2>8, <2>9, <2>10
  <1>3. ASSUME NEW b \in Purchasers, NEW a \in EscrowAccounts, NEW list \in PeerList,
               ReleaseEscrow(b, a, list)
        PROVE  Held' = Held
    <2> DEFINE amounts == PeerAmounts(escrow[b].amount_locked, list)
               dust == Dust(escrowTokens[a], amounts, list)
               sent == SumOver(amounts, DOMAIN list)
               payments == [p \in Peers |-> Payment(amounts, list, p)]
               afterPay == [p \in Peers |-> paid[p] + Payment(amounts, list, p)]
               emptied == [escrowTokens EXCEPT ![a] = 0]
    <2>1. /\ \A i \in DOMAIN list : amounts[i] \in Nat
          /\ sent \in Nat /\ dust \in Nat
          /\ dust + sent = escrowTokens[a]
          /\ \E to \in Destinations \ {a} : PayOut(a, amounts, list, dust, to)
      BY <1>3, ReleaseMoves, TypeHasEscrowType
    <2>2. burned' = burned
      BY <1>3 DEF ReleaseEscrow
    <2> HIDE DEF dust
    <2>3. PICK to \in Destinations \ {a} : PayOut(a, amounts, list, dust, to)
      BY <2>1
    <2>4. /\ \A p \in Peers : payments[p] \in Nat
          /\ SumOver(payments, Peers) = sent
      <3> HIDE DEF amounts
      <3> QED BY <2>1, PaymentsAddUp
    <2>5. /\ \A c \in EscrowAccounts :
                escrowTokens'[c] = emptied[c] + Arrives(c, to, dust)
          /\ \A p \in Peers : paid'[p] = afterPay[p] + Arrives(p, to, dust)
          /\ \A c \in Purchasers : wallet'[c] = wallet[c] + Arrives(c, to, dust)
          /\ rest' = rest + Arrives("rest", to, dust)
      <3> HIDE DEF amounts
      <3>1. ASSUME NEW c \in EscrowAccounts
            PROVE  escrowTokens'[c] = emptied[c] + Arrives(c, to, dust)
        <4>1. CASE c = a
          <5>1. Arrives(c, to, dust) = 0 /\ emptied[c] = 0 /\ escrowTokens'[c] = 0
            BY <1>0, <2>3, <4>1 DEF Arrives, PayOut
          <5> QED BY <5>1
        <4>2. CASE c # a
          BY <1>0, <2>3, <4>2 DEF PayOut
        <4> QED BY <4>1, <4>2
      <3> QED BY <2>3, <3>1 DEF PayOut
    <2>6. /\ SumOver(emptied, EscrowAccounts) = inEscrow - escrowTokens[a] + 0
          /\ SumOver(emptied, EscrowAccounts) \in Nat
          /\ emptied \in [EscrowAccounts -> Nat]
      <3>1. /\ \A c \in EscrowAccounts : escrowTokens[c] \in Nat
            /\ \A c \in EscrowAccounts \ {a} : emptied[c] = escrowTokens[c]
            /\ emptied[a] = 0
        BY <1>0
      <3>2. emptied \in [EscrowAccounts -> Nat]
        BY <1>0
      <3> HIDE DEF emptied
      <3> QED BY <1>0, <3>1, <3>2, AccountChange
    <2>7. /\ SumOver(afterPay, Peers) = inPaid + sent
          /\ \A p \in Peers : afterPay[p] \in Nat
      <3>1. \A p \in Peers : /\ paid[p] \in Nat
                             /\ afterPay[p] = paid[p] + payments[p]
        BY <1>0
      <3>2. \A p \in Peers : afterPay[p] \in Nat
        BY <2>4, <3>1
      <3> HIDE DEF payments, amounts, afterPay, sent
      <3>3. SumOver(afterPay, Peers) = SumOver(paid, Peers) + SumOver(payments, Peers)
        BY <1>0, <2>4, <3>1, SumPlus
      <3> QED BY <2>4, <3>2, <3>3
    <2>8. inEscrow' = SumOver(emptied, EscrowAccounts) + ShareOf(EscrowAccounts, to, dust)
      <3>1. \A c \in EscrowAccounts : emptied[c] \in Nat
        BY <2>6
      <3> HIDE DEF emptied
      <3> QED BY <1>0, <2>1, <2>5, <3>1, SumArrives
    <2>9. inPaid' = SumOver(afterPay, Peers) + ShareOf(Peers, to, dust)
      <3> HIDE DEF afterPay
      <3> QED BY <1>0, <2>1, <2>5, <2>7, SumArrives
    <2>10. inWallets' = inWallets + ShareOf(Purchasers, to, dust)
      <3>1. \A c \in Purchasers : wallet[c] \in Nat
        BY <1>0
      <3> QED BY <1>0, <2>1, <2>5, <3>1, SumArrives
    <2>11. /\ ShareOf(Purchasers, to, dust) \in Nat
           /\ ShareOf(EscrowAccounts, to, dust) \in Nat
           /\ ShareOf(Peers, to, dust) \in Nat
           /\ Arrives("rest", to, dust) \in Nat
           /\ ShareOf(Purchasers, to, dust) + ShareOf(EscrowAccounts, to, dust)
                + ShareOf(Peers, to, dust) + Arrives("rest", to, dust) = dust
      BY <2>1, OneDestination
    <2> HIDE DEF inWallets, inEscrow, inPaid, sent, emptied, afterPay
    <2> QED
      BY <1>0, <1>a, <1>b, <2>1, <2>2, <2>5, <2>6, <2>7, <2>8, <2>9, <2>10, <2>11
  <1>4. ASSUME NEW b \in Purchasers, NEW a \in EscrowAccounts, BurnExpiredEscrow(b, a)
        PROVE  Held' = Held
    <2>1. /\ escrowTokens' = [escrowTokens EXCEPT ![a] = escrowTokens[a] - escrowTokens[a]]
          /\ burned' = burned + escrowTokens[a]
          /\ UNCHANGED <<wallet, paid, rest>>
      BY <1>4 DEF BurnExpiredEscrow, BurnedAmount
    <2>2. escrowTokens[a] \in Nat /\ escrowTokens[a] - escrowTokens[a] \in Nat
      BY <1>0
    <2>3. inEscrow' = inEscrow - escrowTokens[a] + (escrowTokens[a] - escrowTokens[a])
      <3>1. /\ \A c \in EscrowAccounts : escrowTokens[c] \in Nat
            /\ \A c \in EscrowAccounts \ {a} : escrowTokens'[c] = escrowTokens[c]
            /\ escrowTokens'[a] = escrowTokens[a] - escrowTokens[a]
        BY <1>0, <2>1
      <3> DEFINE left == escrowTokens[a] - escrowTokens[a]
      <3>2. IsFiniteSet(EscrowAccounts) /\ left \in Nat /\ escrowTokens'[a] = left
        BY <1>0, <2>2, <3>1
      <3> HIDE DEF left
      <3>3. SumOver(escrowTokens', EscrowAccounts) = SumOver(escrowTokens, EscrowAccounts) - escrowTokens[a] + left
        BY <3>1, <3>2, AccountChange
      <3> QED BY <3>3 DEF left
    <2>4. inWallets' = inWallets /\ inPaid' = inPaid
      BY <2>1
    <2> HIDE DEF inWallets, inEscrow, inPaid
    <2> QED BY <1>0, <1>a, <1>b, <2>1, <2>2, <2>3, <2>4
  <1>5. ASSUME NEW a \in EscrowAccounts, NEW amount \in Amounts, Deposit(a, amount)
        PROVE  Held' = Held
    <2>1. amount \in Nat
      BY DEF AccessEscrowAssumption
    <2>2. /\ amount <= rest /\ rest' = rest - amount
          /\ escrowTokens' = [escrowTokens EXCEPT ![a] = escrowTokens[a] + amount]
          /\ UNCHANGED <<wallet, paid, burned>>
      BY <1>5 DEF Deposit
    <2>3. escrowTokens[a] \in Nat /\ escrowTokens[a] + amount \in Nat
      BY <1>0, <2>1
    <2>4. inEscrow' = inEscrow - escrowTokens[a] + (escrowTokens[a] + amount)
      <3>1. /\ \A c \in EscrowAccounts : escrowTokens[c] \in Nat
            /\ \A c \in EscrowAccounts \ {a} : escrowTokens'[c] = escrowTokens[c]
            /\ escrowTokens'[a] = escrowTokens[a] + amount
        BY <1>0, <2>2
      <3> DEFINE left == escrowTokens[a] + amount
      <3>2. IsFiniteSet(EscrowAccounts) /\ left \in Nat /\ escrowTokens'[a] = left
        BY <1>0, <2>3, <3>1
      <3> HIDE DEF left
      <3>3. SumOver(escrowTokens', EscrowAccounts) = SumOver(escrowTokens, EscrowAccounts) - escrowTokens[a] + left
        BY <3>1, <3>2, AccountChange
      <3> QED BY <3>3 DEF left
    <2>5. inWallets' = inWallets /\ inPaid' = inPaid
      BY <2>2
    <2> HIDE DEF inWallets, inEscrow, inPaid
    <2> QED BY <1>0, <1>a, <1>b, <2>1, <2>2, <2>3, <2>4, <2>5
  <1>6. UNCHANGED tokens => Held' = Held
    BY DEF tokens, Held
  <1>7. ASSUME NEW b \in Purchasers, NEW p \in Peers, RevealCid(p, b)
        PROVE  UNCHANGED tokens
    BY <1>7 DEF RevealCid
  <1>8. ASSUME NEW p \in Peers,
               InitializePeerTrustState(p) \/ RegisterCollectionHost(p)
        PROVE  UNCHANGED tokens
    BY <1>8 DEF InitializePeerTrustState, RegisterCollectionHost
  <1>9. Blacklist \/ Tick \/ UNCHANGED vars => UNCHANGED tokens
    BY DEF Blacklist, Tick, vars, tokens
  <1>10. ASSUME NEW locked \in Amounts, NEW list \in PeerList,
                ReleaseElsewhere(locked, list)
         PROVE  UNCHANGED tokens
    BY <1>10 DEF ReleaseElsewhere
  <1> QED
    BY <1>1, <1>2, <1>3, <1>4, <1>5, <1>6, <1>7, <1>8, <1>9, <1>10 DEF Next

\* No order of purchases, deposits, releases and burns creates or loses a token, for
\* any number of purchasers and peers, any weights and any rounding.
THEOREM TokensAlwaysConserved == Spec => []TokensConserved
  <1>1. Init => TokensConserved
    <2> SUFFICES ASSUME Init PROVE TokensConserved
      OBVIOUS
    <2>1. /\ \A a \in EscrowAccounts : escrowTokens[a] = 0
          /\ \A p \in Peers : paid[p] = 0
          /\ wallet = PurchaserTokens /\ rest = OtherTokens /\ burned = 0
      BY DEF Init
    <2>2. SumOver(escrowTokens, EscrowAccounts) = 0 /\ SumOver(paid, Peers) = 0
      BY <2>1, SumZero, AccessEscrowAssumption DEF AccessEscrowAssumption
    <2>3. SumOver(wallet, Purchasers) \in Nat /\ rest \in Nat
      BY TypeInit, HeldType, AccessEscrowAssumption
    <2> QED BY <2>1, <2>2, <2>3 DEF TokensConserved
  <1>2. TypeOK /\ TokensConserved /\ [Next]_vars => TokensConserved'
    BY AccessEscrowAssumption, HeldNext DEF TokensConserved, Held
  <1> QED BY <1>1, <1>2, TypeCorrect, PTL DEF Spec

----------------------------------------------------------------------------
(* Trust. *)

Scores == [p \in Peers |-> trust[p].score]

\* The peers credited by a release gain no more than the collection it belongs to.
LEMMA ScoresGain ==
    ASSUME AccessEscrowAssumption, TypeOK, NEW list \in PeerList, NEW amounts,
           Creditable(amounts, list),
           trust' = [p \in Peers |-> TrustAfter(amounts, list, p)]
    PROVE  SumOver(Scores', Peers) <= SumOver(Scores, Peers) + CollectionGain(list)
  <1> DEFINE gains == [p \in Peers |-> TrustGain(amounts, list, p)]
  <1>1. /\ \A p \in Peers : Scores[p] \in Nat
        /\ IsFiniteSet(Peers)
        /\ CollectionGain(list) \in Nat
        /\ CollectionGain(list) = TotalWeight(list)
    BY TrustCases, ListType DEF Scores, CollectionGain, AccessEscrowAssumption
  <1>2. /\ \A p \in Peers : gains[p] \in Nat
        /\ SumOver(gains, Peers) <= TotalWeight(list)
    BY TrustGains
  <1>3. \A p \in Peers : Scores'[p] = Scores[p] + gains[p]
    BY TrustAfterType DEF Scores
  <1> HIDE DEF gains, Scores
  <1>4. SumOver(Scores', Peers) = SumOver(Scores, Peers) + SumOver(gains, Peers)
    BY <1>1, <1>2, <1>3, SumPlus
  <1>5. SumOver(gains, Peers) \in Nat /\ SumOver(Scores, Peers) \in Nat
    BY <1>1, <1>2, SumType
  <1> QED BY <1>1, <1>2, <1>4, <1>5

LEMMA TrustCountedNext ==
    ASSUME AccessEscrowAssumption, TypeOK, TrustCounted, [Next]_vars
    PROVE  TrustCounted'
  <1>0. /\ \A p \in Peers : Scores[p] \in Nat
        /\ SumOver(Scores, Peers) \in Nat
        /\ SumOver(Scores, Peers) <= totalTrust + otherTrust
        /\ totalTrust \in Nat /\ otherTrust \in Nat
        /\ IsFiniteSet(Peers)
    <2>1. \A p \in Peers : Scores[p] \in Nat
      BY TrustCases DEF Scores
    <2>2. SumOver(Scores, Peers) \in Nat
      BY <2>1, SumType DEF AccessEscrowAssumption
    <2> QED BY <2>1, <2>2 DEF TrustCounted, Scores, TypeOK, AccessEscrowAssumption
  <1> SUFFICES SumOver(Scores', Peers) <= totalTrust' + otherTrust'
    BY DEF TrustCounted, Scores
  <1>a. ASSUME NEW list \in PeerList,
               SumOver(Scores', Peers) <= SumOver(Scores, Peers) + CollectionGain(list),
               SumOver(Scores', Peers) \in Nat,
               \/ totalTrust' = totalTrust + CollectionGain(list)
                  /\ otherTrust' = otherTrust
               \/ otherTrust' = otherTrust + CollectionGain(list)
                  /\ totalTrust' = totalTrust
        PROVE  SumOver(Scores', Peers) <= totalTrust' + otherTrust'
    <2>1. CollectionGain(list) \in Nat
      BY ListType DEF CollectionGain
    <2> DEFINE gain == CollectionGain(list)
               before == SumOver(Scores, Peers)
               after == SumOver(Scores', Peers)
    <2> HIDE DEF gain, before, after
    <2>2. /\ gain \in Nat /\ before \in Nat /\ after \in Nat
          /\ after <= before + gain
          /\ before <= totalTrust + otherTrust
          /\ \/ totalTrust' = totalTrust + gain /\ otherTrust' = otherTrust
             \/ otherTrust' = otherTrust + gain /\ totalTrust' = totalTrust
      BY <1>0, <1>a, <2>1 DEF gain, before, after
    <2>3. after <= totalTrust' + otherTrust'
      BY <1>0, <2>2
    <2> QED BY <2>3 DEF after
  <1>b. ASSUME NEW list \in PeerList, NEW amounts, Creditable(amounts, list),
               trust' = [p \in Peers |-> TrustAfter(amounts, list, p)]
        PROVE  SumOver(Scores', Peers) \in Nat
    <2>1. \A p \in Peers : Scores'[p] \in Nat
      <3> SUFFICES ASSUME NEW p \in Peers PROVE Scores'[p] \in Nat
        OBVIOUS
      <3>1. Scores'[p] = trust[p].score + TrustGain(amounts, list, p)
        BY <1>b, TrustAfterType DEF Scores
      <3>2. TrustGain(amounts, list, p) \in Nat
        BY TrustGains
      <3>3. trust[p].score \in Nat
        BY TrustCases
      <3> QED BY <3>1, <3>2, <3>3
    <2> QED BY <1>0, <2>1, SumType
  <1>1. ASSUME NEW b \in Purchasers, NEW a \in EscrowAccounts, NEW list \in PeerList,
               ReleaseEscrow(b, a, list)
        PROVE  SumOver(Scores', Peers) <= totalTrust' + otherTrust'
    <2> DEFINE amounts == PeerAmounts(escrow[b].amount_locked, list)
    <2>1. /\ Creditable(amounts, list)
          /\ trust' = [p \in Peers |-> TrustAfter(amounts, list, p)]
          /\ totalTrust' = totalTrust + CollectionGain(list)
          /\ otherTrust' = otherTrust
      BY <1>1 DEF ReleaseEscrow
    <2> HIDE DEF amounts
    <2>2. SumOver(Scores', Peers) <= SumOver(Scores, Peers) + CollectionGain(list)
      BY <2>1, ScoresGain
    <2>3. SumOver(Scores', Peers) \in Nat
      BY <1>b, <2>1
    <2> QED BY <1>a, <2>1, <2>2, <2>3
  <1>2. ASSUME NEW locked \in Amounts, NEW list \in PeerList,
               ReleaseElsewhere(locked, list)
        PROVE  SumOver(Scores', Peers) <= totalTrust' + otherTrust'
    <2> DEFINE amounts == PeerAmounts(locked, list)
    <2>1. /\ Creditable(amounts, list)
          /\ trust' = [p \in Peers |-> TrustAfter(amounts, list, p)]
          /\ otherTrust' = otherTrust + CollectionGain(list)
          /\ totalTrust' = totalTrust
      BY <1>2 DEF ReleaseElsewhere
    <2> HIDE DEF amounts
    <2>2. SumOver(Scores', Peers) <= SumOver(Scores, Peers) + CollectionGain(list)
      BY <2>1, ScoresGain
    <2>3. SumOver(Scores', Peers) \in Nat
      BY <1>b, <2>1
    <2> QED BY <1>a, <2>1, <2>2, <2>3
  <1>3. ASSUME NEW p \in Peers, InitializePeerTrustState(p)
        PROVE  SumOver(Scores', Peers) <= totalTrust' + otherTrust'
    <2>1. trust[p] = NoTrust
      BY <1>3, TrustCases DEF InitializePeerTrustState
    <2>2. \A q \in Peers : Scores'[q] = Scores[q]
      BY <1>3, <2>1 DEF InitializePeerTrustState, Scores, NoTrust, TypeOK
    <2>3. SumOver(Scores', Peers) = SumOver(Scores, Peers)
      <3> HIDE DEF Scores
      <3> QED BY <1>0, <2>2, SumSame
    <2>4. totalTrust' = totalTrust /\ otherTrust' = otherTrust
      BY <1>3 DEF InitializePeerTrustState
    <2> QED BY <1>0, <2>3, <2>4
  <1>4. UNCHANGED reputation => SumOver(Scores', Peers) <= totalTrust' + otherTrust'
    BY <1>0 DEF reputation, Scores
  <1>5. ASSUME NEW b \in Purchasers,
               \/ \E total \in Amounts, bp \in FeeRates, a \in EscrowAccounts :
                     PurchaseAccess(b, total, bp, a)
               \/ \E amount \in Amounts, to \in Destinations :
                     CreateAccessEscrow(b, amount, to)
               \/ \E a \in EscrowAccounts : BurnExpiredEscrow(b, a)
               \/ \E p \in Peers : RevealCid(p, b)
        PROVE  UNCHANGED reputation
    BY <1>5 DEF PurchaseAccess, CreateAccessEscrow, OpenEscrow, BurnExpiredEscrow,
                RevealCid
  <1>6. \/ \E a \in EscrowAccounts, amount \in Amounts : Deposit(a, amount)
        \/ \E p \in Peers : RegisterCollectionHost(p)
        \/ Blacklist
        \/ Tick
        \/ UNCHANGED vars
        => UNCHANGED reputation
    BY DEF Deposit, RegisterCollectionHost, Blacklist, Tick, vars, reputation
  <1> QED
    BY <1>1, <1>2, <1>3, <1>4, <1>5, <1>6 DEF Next

\* Whatever peers the releases of this and of another collection name, and named how
\* often, what they credit to the peers is covered by what they credit to the two.
THEOREM TrustAlwaysCounted == Spec => []TrustCounted
  <1>1. Init => TrustCounted
    <2> SUFFICES ASSUME Init PROVE TrustCounted
      OBVIOUS
    <2>1. \A p \in Peers : Scores[p] = 0
      BY DEF Init, Scores, NoTrust
    <2>2. SumOver(Scores, Peers) = 0
      BY <2>1, SumZero, AccessEscrowAssumption DEF AccessEscrowAssumption
    <2> QED BY <2>2 DEF Init, TrustCounted, Scores
  <1>2. TypeOK /\ TrustCounted /\ [Next]_vars => TrustCounted'
    BY AccessEscrowAssumption, TrustCountedNext
  <1> QED BY <1>1, <1>2, TypeCorrect, PTL DEF Spec

\* A release that changes a peer's trust account pays it, serves it and lowers nothing.
LEMMA CreditEarnsTrust ==
    ASSUME AccessEscrowAssumption, TypeOK, NEW list \in PeerList, NEW amounts,
           \A i \in DOMAIN list : amounts[i] \in Nat, Creditable(amounts, list),
           trust' = [q \in Peers |-> TrustAfter(amounts, list, q)],
           NEW p \in Peers, trust'[p] # trust[p]
    PROVE  /\ trust'[p].serves > trust[p].serves
           /\ trust'[p].score >= trust[p].score
           /\ Payment(amounts, list, p) \in Nat
           /\ Payment(amounts, list, p) > 0
  <1> DEFINE credited == CreditedEntries(amounts, list, p)
  <1>1. trust[p].serves \in Nat /\ trust[p].score \in Nat
    BY TrustCases
  <1>2. credited # {}
    BY TrustAfterType
  <1>3. /\ TrustGain(amounts, list, p) \in Nat
        /\ Cardinality(credited) \in Nat
        /\ Cardinality(credited) > 0
    BY <1>2, TrustGains
  <1>4. /\ trust'[p].score = trust[p].score + TrustGain(amounts, list, p)
        /\ trust'[p].serves = trust[p].serves + Cardinality(credited)
    BY TrustAfterType
  <1>5. PICK i \in EntriesOf(list, p) : amounts[i] > 0
    BY <1>2 DEF CreditedEntries
  <1>6. /\ Payment(amounts, list, p) \in Nat
        /\ amounts[i] <= Payment(amounts, list, p)
    BY PaymentsAddUp
  <1>7. amounts[i] \in Nat
    BY DEF EntriesOf
  <1> HIDE DEF credited
  <1> QED BY <1>1, <1>3, <1>4, <1>5, <1>6, <1>7

LEMMA ReleaseEarnsTrust ==
    ASSUME AccessEscrowAssumption, TypeOK, NEW b \in Purchasers,
           NEW a \in EscrowAccounts, NEW list \in PeerList, ReleaseEscrow(b, a, list),
           NEW p \in Peers, trust'[p] # trust[p]
    PROVE  /\ trust'[p].serves > trust[p].serves
           /\ trust'[p].score >= trust[p].score
           /\ paid'[p] > paid[p]
  <1> DEFINE amounts == PeerAmounts(escrow[b].amount_locked, list)
             dust == Dust(escrowTokens[a], amounts, list)
  <1>1. /\ \A i \in DOMAIN list : amounts[i] \in Nat
        /\ dust \in Nat
        /\ Creditable(amounts, list)
        /\ \E to \in Destinations \ {a} : PayOut(a, amounts, list, dust, to)
    BY ReleaseMoves, TypeHasEscrowType
  <1>2. trust' = [q \in Peers |-> TrustAfter(amounts, list, q)]
    BY DEF ReleaseEscrow
  <1> HIDE DEF amounts, dust
  <1>3. /\ trust'[p].serves > trust[p].serves
        /\ trust'[p].score >= trust[p].score
        /\ Payment(amounts, list, p) \in Nat
        /\ Payment(amounts, list, p) > 0
    BY <1>1, <1>2, CreditEarnsTrust
  <1>4. PICK to \in Destinations : PayOut(a, amounts, list, dust, to)
    BY <1>1
  <1>5. /\ paid'[p] = paid[p] + Payment(amounts, list, p) + Arrives(p, to, dust)
        /\ paid[p] \in Nat
        /\ Arrives(p, to, dust) \in Nat
    BY <1>1, <1>4, ArrivesType DEF PayOut, TypeOK
  <1> QED BY <1>3, <1>5

LEMMA ElsewhereEarnsTrust ==
    ASSUME AccessEscrowAssumption, TypeOK, NEW locked \in Amounts,
           NEW list \in PeerList, ReleaseElsewhere(locked, list),
           NEW p \in Peers, trust'[p] # trust[p]
    PROVE  /\ trust'[p].serves > trust[p].serves
           /\ trust'[p].score >= trust[p].score
           /\ paidElsewhere'[p] > paidElsewhere[p]
  <1> DEFINE amounts == PeerAmounts(locked, list)
  <1>1. /\ \A i \in DOMAIN list : amounts[i] \in Nat
        /\ Creditable(amounts, list)
        /\ paidElsewhere' = [q \in Peers |-> paidElsewhere[q]
                                               + Payment(amounts, list, q)]
        /\ trust' = [q \in Peers |-> TrustAfter(amounts, list, q)]
    BY ElsewhereAmounts
  <1> HIDE DEF amounts
  <1>2. /\ trust'[p].serves > trust[p].serves
        /\ trust'[p].score >= trust[p].score
        /\ Payment(amounts, list, p) \in Nat
        /\ Payment(amounts, list, p) > 0
    BY <1>1, CreditEarnsTrust
  <1>3. paidElsewhere[p] \in Nat
    BY DEF TypeOK
  <1> QED BY <1>1, <1>2, <1>3

\* A peer's trust and serve count only grow, and only in a release that pays the peer:
\* no other instruction, and no entry of weight without payment, touches them.
THEOREM TrustAlwaysEarned == Spec => TrustIsEarned
  <1>1. ASSUME AccessEscrowAssumption, TypeOK, [Next]_vars
        PROVE  [\A p \in Peers :
                  trust[p].exists /\ trust'[p] # trust[p] =>
                      /\ trust'[p].serves > trust[p].serves
                      /\ trust'[p].score >= trust[p].score
                      /\ paid'[p] > paid[p] \/ paidElsewhere'[p] > paidElsewhere[p]]_vars
    <2> SUFFICES ASSUME Next, NEW p \in Peers, trust[p].exists, trust'[p] # trust[p]
                 PROVE  /\ trust'[p].serves > trust[p].serves
                        /\ trust'[p].score >= trust[p].score
                        /\ \/ paid'[p] > paid[p]
                           \/ paidElsewhere'[p] > paidElsewhere[p]
      BY <1>1
    <2>1. \/ \E b \in Purchasers, a \in EscrowAccounts, list \in PeerList :
                ReleaseEscrow(b, a, list)
          \/ \E locked \in Amounts, list \in PeerList : ReleaseElsewhere(locked, list)
      <3>1. ~ UNCHANGED trust
        OBVIOUS
      <3>2. ASSUME NEW q \in Peers, InitializePeerTrustState(q) PROVE FALSE
        BY <1>1, <3>2 DEF InitializePeerTrustState, TypeOK
      <3>3. ASSUME NEW b \in Purchasers,
                   \/ \E total \in Amounts, bp \in FeeRates, a \in EscrowAccounts :
                         PurchaseAccess(b, total, bp, a)
                   \/ \E amount \in Amounts, to \in Destinations :
                         CreateAccessEscrow(b, amount, to)
                   \/ \E a \in EscrowAccounts : BurnExpiredEscrow(b, a)
                   \/ \E q \in Peers : RevealCid(q, b)
            PROVE  UNCHANGED trust
        BY <3>3 DEF PurchaseAccess, CreateAccessEscrow, OpenEscrow, BurnExpiredEscrow,
                    RevealCid, reputation
      <3>4. \/ \E a \in EscrowAccounts, amount \in Amounts : Deposit(a, amount)
            \/ \E q \in Peers : RegisterCollectionHost(q)
            \/ Blacklist
            \/ Tick
            => UNCHANGED trust
        BY DEF Deposit, RegisterCollectionHost, Blacklist, Tick, reputation
      <3> QED BY <3>1, <3>2, <3>3, <3>4 DEF Next
    <2> QED BY <1>1, <2>1, ReleaseEarnsTrust, ElsewhereEarnsTrust
  <1> QED
    BY <1>1, AccessEscrowAssumption, TypeCorrect, PTL DEF Spec, TrustIsEarned
=============================================================================
