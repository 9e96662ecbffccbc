--------------------------- MODULE MCStakingPool ---------------------------
(* A small collection: two stakers and the rest of the market. *)
EXTENDS StakingPool, TLC

CONSTANTS s1, s2

MCStakers == {s1, s2}
MCStakerTokens == (s1 :> 2) @@ (s2 :> 1)
MCForeignTokens == (s1 :> 1) @@ (s2 :> 0)
MCNoForeignTokens == (s1 :> 0) @@ (s2 :> 0)
MCMarketTokens == 4
MCAmounts == 1 .. 4
MCFeeRates == {0, 200}
MCPrecision == 4
=============================================================================
