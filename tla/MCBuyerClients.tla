--------------------------- MODULE MCBuyerClients ---------------------------
(* Four parts of the clients that share no state: the sessions around one    *)
(* escrow, the download tracker, a pinner's proof cache, and a staker's      *)
(* reward monitor.  Each behaviour is one of one part; the others stand      *)
(* still, and nothing they are fair about is enabled.                        *)
(*                                                                           *)
(* The sessions come in two parts, whose product is out of TLC's reach: with *)
(* pinners, where the burns are those of others, and with the cleanup, where *)
(* no pinner answers.                                                        *)
EXTENDS PurchaseSession, TrustMonitor, ProofCache, RewardMonitor, TLC

CONSTANTS s1, s2, p1, p2, d1, d2, cid

MCSessions == {s1, s2}
MCWorkflowSessions == {s2}
MCPinners == {p1, p2}
MCStakerTokens == 1 :> 1 @@ 2 :> 1
MCForeignTokens == 1 :> 0 @@ 2 :> 0
MCDownloads == {d1, d2}
MCCidOf == [d \in MCDownloads |-> cid]

VARIABLE part

Init ==
    /\ part \in {"purchase", "cleanup", "download", "cache", "rewards"}
    /\ SessionInit /\ TrackerInit /\ CacheInit /\ MonitorInit
    /\ part # "cache" => cacheExpiry = MaxExpiry

Next ==
    /\ UNCHANGED part
    /\ \/ /\ \/ part = "purchase" /\ UNCHANGED <<cleanup, expired>>
             \/ part = "cleanup" /\ UNCHANGED answering
          /\ SessionNext
          /\ UNCHANGED <<trackerVars, cacheVars, monitorVars>>
       \/ part = "download" /\ TrackerNext /\ UNCHANGED <<sessionVars, cacheVars, monitorVars>>
       \/ part = "cache" /\ CacheNext /\ UNCHANGED <<sessionVars, trackerVars, monitorVars>>
       \/ part = "rewards" /\ MonitorNext /\ UNCHANGED <<sessionVars, trackerVars, cacheVars>>

Spec ==
    /\ Init
    /\ [][Next]_<<part, sessionVars, trackerVars, cacheVars, monitorVars>>
    /\ SessionFairness
    /\ MonitorFairness
=============================================================================
