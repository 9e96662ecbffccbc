------------------------ MODULE MCCollectionEconomy ------------------------
(* Two stakers, one purchaser and one peer. *)
EXTENDS CollectionEconomy, TLC

CONSTANTS s1, s2, b1, p1, a1

MCStakers == {s1, s2}
MCStakerTokens == (s1 :> 1) @@ (s2 :> 1)
MCForeignTokens == (s1 :> 0) @@ (s2 :> 0)
MCPurchasers == {b1}
MCPurchaserTokens == b1 :> 3
MCPeers == {p1}
MCEscrowAccounts == {a1}
MCOwnerOf == a1 :> b1
AllRepaired == {"burn authority", "open borrows", "trust record"}
MCAmounts == {1, 3}
MCFeeRates == {0, 200}
MCWeights == {1}
=============================================================================
