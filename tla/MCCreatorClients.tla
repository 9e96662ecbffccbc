-------------------------- MODULE MCCreatorClients --------------------------
(* The four parts of the creator's and the moderators' application share no  *)
(* state: each behaviour is one of one part, and the others stand still.     *)
EXTENDS PoolLaunch, IpfsDaemon, ManifestBuilder, ModerationDesk, TLC

CONSTANTS w1, w2, phantom, key1, m1, g1, report, claim, cid, video1, video2

MCWalletIds == {w1, w2}
MCKeypairs == {key1}
MCMints == {g1}
MCModerators == {m1}
MCCapgmHeld == m1 :> (g1 :> 1)
MCStakeAmounts == {1}
MCMinimums == {0, 1, 2}
MCTickets == {report, claim, cid}
MCTypeOf == report :> "ContentReport" @@ claim :> "CopyrightClaim" @@ cid :> "CidCensorship"
MCVideos == {video1, video2}
MCDurations == {0, 1, 2}
MCFields == {"recorded_at"}

VARIABLE part

Init ==
    /\ part \in {"launch", "daemon", "manifest", "desk"}
    /\ LaunchInit /\ DaemonInit /\ ManifestInit /\ DeskInit
    /\ part # "desk" => global_state.moderator_stake_minimum = 1

Next ==
    /\ UNCHANGED part
    /\ \/ part = "launch" /\ LaunchNext /\ UNCHANGED <<daemonVars, manifestVars, deskVars>>
       \/ part = "daemon" /\ DaemonNext /\ UNCHANGED <<launchVars, manifestVars, deskVars>>
       \/ part = "manifest" /\ ManifestNext /\ UNCHANGED <<launchVars, daemonVars, deskVars>>
       \/ part = "desk" /\ DeskNext /\ UNCHANGED <<launchVars, daemonVars, manifestVars>>

Spec == Init /\ [][Next]_<<part, launchVars, daemonVars, manifestVars, deskVars>>
=============================================================================
