---------------------------- MODULE TrustMonitor ----------------------------
(***************************************************************************)
(* The download tracker of the purchaser's application (IPFSTrustMonitor). *)
(*                                                                         *)
(* One monitor serves several downloads at once, of one CID too.  Each     *)
(* awaits its chunks and, after every chunk, the list of connected peers;  *)
(* peers are registered, and the monitor is disconnected, in between.      *)
(***************************************************************************)
EXTENDS Naturals

CONSTANTS Downloads,   \* calls of trackPeerPerformance
          CidOf,       \* what each of them downloads
          Peers,       \* IPFS peers
          PeerWallets, \* wallets they may be registered with
          MaxChunks    \* chunks of a content

VARIABLES
    peerMappings,    \* the wallet of each peer
    activeDownloads, \* the download whose progress object each CID shows
    download,        \* where each download is, its chunks and the peers it has seen
    reports          \* the reports it returned

trackerVars == <<peerMappings, activeDownloads, download, reports>>

Nobody == "nobody"

ASSUME TrustMonitorAssumption == Nobody \notin Downloads

Cids == {CidOf[d] : d \in Downloads}

TrackerInit ==
    /\ peerMappings = [p \in Peers |-> Nobody]
    /\ activeDownloads = [cid \in Cids |-> Nobody]
    /\ download = [d \in Downloads |-> [at |-> "idle", chunks |-> 0, peerStats |-> {}]]
    /\ reports = [d \in Downloads |-> {}]

Running(d) == download[d].at \in {"streaming", "updating"}

(* registerPeerMapping; a peer's wallet may be replaced. *)
RegisterPeerMapping(p, w) ==
    /\ peerMappings' = [peerMappings EXCEPT ![p] = w]
    /\ UNCHANGED <<activeDownloads, download, reports>>

(* trackPeerPerformance, up to its first chunk.  Its progress object replaces that *)
(* of a download of the same CID.                                                  *)
TrackPeerPerformance(d) ==
    /\ download[d].at = "idle"
    /\ download' = [download EXCEPT ![d].at = "streaming"]
    /\ activeDownloads' = [activeDownloads EXCEPT ![CidOf[d]] = d]
    /\ UNCHANGED <<peerMappings, reports>>

ReceiveChunk(d) ==
    /\ download[d].at = "streaming"
    /\ download[d].chunks < MaxChunks
    /\ download' = [download EXCEPT ![d] = [at        |-> "updating",
                                            chunks    |-> @.chunks + 1,
                                            peerStats |-> @.peerStats]]
    /\ UNCHANGED <<peerMappings, activeDownloads, reports>>

(* updatePeerStats: the peers connected now are seen, with no bytes; a failed query *)
(* is only logged.                                                                  *)
UpdatePeerStats(d) ==
    /\ download[d].at = "updating"
    /\ \E connected \in SUBSET Peers :
          download' = [download EXCEPT ![d] = [at        |-> "streaming",
                                               chunks    |-> @.chunks,
                                               peerStats |-> @.peerStats \cup connected]]
    /\ UNCHANGED <<peerMappings, activeDownloads, reports>>

\* The `bytes` of a peer's stats, which nothing adds to.
BytesOf(d, p) == 0

\* The reports: of the peers seen whose wallet is registered by now.
ReportsOf(d) ==
    {[peerWallet |-> peerMappings[p], peerId |-> p, successful |-> BytesOf(d, p) > 0] :
        p \in {q \in download[d].peerStats : peerMappings[q] # Nobody}}

AfterDownload_KeptOnError(d, succeeded) ==
    activeDownloads' = IF succeeded THEN [activeDownloads EXCEPT ![CidOf[d]] = Nobody]
                       ELSE activeDownloads

\* The finally block, whoever's progress the CID shows by now.
AfterDownload(d, succeeded) ==
    activeDownloads' = [activeDownloads EXCEPT ![CidOf[d]] = Nobody]

FinishDownload(d) ==
    /\ download[d].at = "streaming"
    /\ download' = [download EXCEPT ![d].at = "done"]
    /\ reports' = [reports EXCEPT ![d] = ReportsOf(d)]
    /\ AfterDownload(d, TRUE)
    /\ UNCHANGED peerMappings

(* The stream throws. *)
DownloadFails(d) ==
    /\ download[d].at = "streaming"
    /\ download' = [download EXCEPT ![d].at = "failed"]
    /\ AfterDownload(d, FALSE)
    /\ UNCHANGED <<peerMappings, reports>>

(* generateProofOfDelivery throws unless a report is successful. *)
GenerateProofOfDelivery(d) ==
    /\ download[d].at = "done"
    /\ download' = [download EXCEPT ![d].at =
                       IF \E r \in reports[d] : r.successful THEN "proved" ELSE "unproved"]
    /\ UNCHANGED <<peerMappings, activeDownloads, reports>>

(* disconnect: the maps are cleared, the downloads go on. *)
Disconnect ==
    /\ peerMappings' = [p \in Peers |-> Nobody]
    /\ activeDownloads' = [cid \in Cids |-> Nobody]
    /\ UNCHANGED <<download, reports>>

TrackerNext ==
    \/ \E p \in Peers, w \in PeerWallets : RegisterPeerMapping(p, w)
    \/ \E d \in Downloads :
          \/ TrackPeerPerformance(d) \/ ReceiveChunk(d) \/ UpdatePeerStats(d)
          \/ FinishDownload(d) \/ DownloadFails(d) \/ GenerateProofOfDelivery(d)
    \/ Disconnect

TrackerSpec == TrackerInit /\ [][TrackerNext]_trackerVars

----------------------------------------------------------------------------
(* Properties *)

\* getDownloadProgress never shows a download that has ended, with an error or
\* without, although downloads of one CID share the entry and any of them, or
\* disconnect, clears it.  (It may show nothing while one still runs.)
ProgressIsLive ==
    \A cid \in Cids :
        activeDownloads[cid] # Nobody =>
            Running(activeDownloads[cid]) /\ CidOf[activeDownloads[cid]] = cid

=============================================================================
