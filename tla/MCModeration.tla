---------------------------- MODULE MCModeration ----------------------------
(* One moderator, two targets, and two collections of two videos and of one. *)
EXTENDS Moderation, TLC

CONSTANTS m1, g1, g2, c1, c2, t1, t2

MCModerators == {m1}
MCMints == {g1, g2}
MCCapgmHeld == m1 :> (g1 :> 1 @@ g2 :> 1)
MCStakeAmounts == {1}
MCMinimums == {1, 2}
MCCollections == {c1, c2}
MCTargets == {t1, t2}
MCTotalVideos == c1 :> 2 @@ c2 :> 1
MCClaimShare == c1 :> 30 @@ c2 :> 10
\* The vault of c1 gets 13: a video is worth 6 and one token stays.
MCMintAmounts == {44}
MCClaimIndices == {<<1>>, <<0, 0>>, <<0, 1>>}
MCVideos == {0, 1}
TargetSymmetry == Permutations(MCTargets)
=============================================================================
