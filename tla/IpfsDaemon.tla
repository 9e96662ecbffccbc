----------------------------- MODULE IpfsDaemon -----------------------------
(***************************************************************************)
(* The IPFS daemon of the creator's application (IpfsManager).             *)
(*                                                                         *)
(* startDaemon returns as soon as the process is spawned.  Its output      *)
(* arrives later, of a process that was stopped or replaced in the         *)
(* meantime too, and its handler awaits the creation of the client.        *)
(***************************************************************************)
EXTENDS Naturals

CONSTANT MaxDaemons  \* daemons spawned

ASSUME DaemonAssumption == MaxDaemons \in Nat

VARIABLES
    daemon,      \* each process: not spawned, starting, ready (and said so) or exited
    ipfsProcess, \* the one the manager holds, 0 if none
    isRunning,
    client,      \* null, being created by a handler, or there
    killed,      \* history: processes that were sent a signal
    overtaken    \* history: processes replaced before they had reported ready

daemonVars == <<daemon, ipfsProcess, isRunning, client, killed, overtaken>>

Processes == 1 .. MaxDaemons

DaemonInit ==
    /\ daemon = [p \in Processes |-> "none"]
    /\ ipfsProcess = 0
    /\ isRunning = FALSE
    /\ client = "null"
    /\ killed = {}
    /\ overtaken = {}

Alive(p) == daemon[p] \in {"starting", "ready"}

(* startDaemon, when it does not return at once. *)
StartDaemon(p) ==
    /\ ~isRunning
    /\ daemon[p] = "none"
    /\ \A q \in 1 .. p - 1 : daemon[q] # "none"
    /\ daemon' = [daemon EXCEPT ![p] = "starting"]
    /\ ipfsProcess' = p
    /\ overtaken' = IF ipfsProcess # 0 /\ daemon[ipfsProcess] = "starting"
                    THEN overtaken \cup {ipfsProcess} ELSE overtaken
    /\ UNCHANGED <<isRunning, client, killed>>

(* "Daemon is ready" in the output of p, whichever process the manager holds. *)
DaemonReady(p) ==
    /\ daemon[p] = "starting"
    /\ daemon' = [daemon EXCEPT ![p] = "ready"]
    /\ isRunning' = TRUE
    /\ client' = IF client = "null" THEN "creating" ELSE client
    /\ UNCHANGED <<ipfsProcess, killed, overtaken>>

(* The await in connectClient ends; nothing ever takes the client away again. *)
ConnectClient ==
    /\ client = "creating"
    /\ client' = "connected"
    /\ UNCHANGED <<daemon, ipfsProcess, isRunning, killed, overtaken>>

AfterStop_Forgets == UNCHANGED killed

AfterStop == killed' = killed \cup {ipfsProcess}

(* stopDaemon; the manager keeps the handle of the process it has signalled. *)
StopDaemon ==
    /\ ipfsProcess # 0
    /\ isRunning' = FALSE
    /\ AfterStop
    /\ UNCHANGED <<daemon, ipfsProcess, client, overtaken>>

(* A process ends: some time after the signal, on a crash, or because another one *)
(* holds the repository.  The manager does not listen for it.                     *)
DaemonExits(p) ==
    /\ Alive(p)
    /\ daemon' = [daemon EXCEPT ![p] = "exited"]
    /\ UNCHANGED <<ipfsProcess, isRunning, client, killed, overtaken>>

DaemonNext ==
    \/ \E p \in Processes : StartDaemon(p) \/ DaemonReady(p) \/ DaemonExits(p)
    \/ ConnectClient
    \/ StopDaemon

DaemonSpec == DaemonInit /\ [][DaemonNext]_daemonVars

----------------------------------------------------------------------------
(* Properties *)

\* A daemon that lives on, although the manager no longer holds it and never sent
\* it a signal, was overtaken: startDaemon was called again before it was ready.
\* No order of starts, stops, crashes and late outputs loses a daemon otherwise.
OrphansComeFromEarlyStarts ==
    \A p \in Processes : Alive(p) /\ p # ipfsProcess /\ p \notin killed => p \in overtaken

=============================================================================
