-------------------------- MODULE MCAccessEscrow --------------------------
(* Two purchasers and two peers around one collection. *)
EXTENDS AccessEscrow, TLC

CONSTANTS b1, b2, p1, p2, a1, a2, a3

MCPurchasers == {b1, b2}
MCPeers == {p1, p2}
MCPurchaserTokens == (b1 :> 2) @@ (b2 :> 1)
MCAmounts == {1, 2}
MCFeeRates == {0, 200}
\* Large weights: their sums and products soon reach MaxU64, which bounds the trust.
MCWeights == {0, 4000, 6000}

\* The escrow of b1 owns two token accounts, that of b2 one.
MCEscrowAccounts == {a1, a2, a3}
MCOwnerOf == (a1 :> b1) @@ (a2 :> b1) @@ (a3 :> b2)

AllRepaired == Defects
BurnAsWritten == Defects \ {"burn authority"}

\* The peers are alike, and so are the two accounts of b1.
Symmetry == {p @@ a : p \in Permutations(MCPeers), a \in Permutations({a1, a2})}

\* The small instances: one peer, one purchaser who can pay for two purchases, one
\* account for each escrow.
OnePeer == {p1}
OnePurchaser == {b1}
OnePurchaserTokens == b1 :> 4
TwoTokens == b1 :> 2
OneAccount == {a1}
TwoAccounts == {a1, a2}
BothOwner == (a1 :> b1) @@ (a2 :> b1)
OneOwner == a1 :> b1
TwoOrFour == {2, 4}
NoFee == {0}
SmallWeights == {0, 1}
=============================================================================
