------------------------------ MODULE Wallets ------------------------------
(***************************************************************************)
(* The wallets of the application (WalletManager, Wallet, and the Phantom  *)
(* adapter of ExternalWalletAdapter).                                      *)
(*                                                                         *)
(* The registry is a map from ids to entries.  Removing an external wallet *)
(* awaits the adapter's disconnect, and anything may happen before the     *)
(* removal goes on.  There is one Phantom extension, which any number of   *)
(* entries may share.                                                      *)
(***************************************************************************)
EXTENDS Naturals

CONSTANTS WalletIds,  \* ids the application uses
          Keypairs,   \* keypairs that may be generated
          PhantomKey  \* the account of the Phantom extension

VARIABLES
    entries,        \* wallets: the entry of each id
    activeWalletId,
    removing,       \* ids whose removal awaits the adapter's disconnect
    connected,      \* the adapter's flag
    walletFiles,    \* the key saved for each id
    unused          \* keypairs not generated yet

walletVars == <<entries, activeWalletId, removing, connected, walletFiles, unused>>

NoWallet == "no wallet"

ASSUME WalletsAssumption == PhantomKey \notin Keypairs /\ NoWallet \notin WalletIds

NoEntry == [kind |-> "none", key |-> NoWallet, isActive |-> FALSE]

Registered(id) == entries[id] # NoEntry

WalletInit ==
    /\ entries = [id \in WalletIds |-> NoEntry]
    /\ activeWalletId = NoWallet
    /\ removing = {}
    /\ connected = FALSE
    /\ walletFiles = [id \in WalletIds |-> NoWallet]
    /\ unused = Keypairs

\* setActiveWallet on a registry: the flag moves from the active entry, if there is
\* one, to the new one.
Activated(registry, id) ==
    [i \in WalletIds |->
        IF i = id THEN [registry[i] EXCEPT !.isActive = TRUE]
        ELSE IF i = activeWalletId THEN [registry[i] EXCEPT !.isActive = FALSE]
        ELSE registry[i]]

\* An added wallet replaces whatever had its id, and becomes active if none is.
Register(id, kind, key) ==
    LET registry == [entries EXCEPT ![id] = [kind |-> kind, key |-> key,
                                             isActive |-> FALSE]]
    IN  IF activeWalletId = NoWallet
        THEN entries' = Activated(registry, id) /\ activeWalletId' = id
        ELSE entries' = registry /\ UNCHANGED activeWalletId

\* createWallet generates a keypair and writes it to the file.
CreateWallet(id, key) ==
    /\ unused' = unused \ {key}
    /\ walletFiles' = [walletFiles EXCEPT ![id] = key]

\* loadWallet reads the file, which must be there, and generates a keypair, whatever
\* the file holds.
LoadWallet(id, key) ==
    /\ walletFiles[id] # NoWallet
    /\ unused' = unused \ {key}
    /\ UNCHANGED walletFiles

CreateInternalWallet(id) ==
    /\ \E key \in unused : CreateWallet(id, key) /\ Register(id, "internal", key)
    /\ UNCHANGED <<removing, connected>>

LoadInternalWallet(id) ==
    /\ \E key \in unused : LoadWallet(id, key) /\ Register(id, "internal", key)
    /\ UNCHANGED <<removing, connected>>

(* PhantomWalletAdapter.connect; the QR code and the deep link always throw. *)
ConnectPhantom ==
    /\ ~connected
    /\ connected' = TRUE
    /\ UNCHANGED <<entries, activeWalletId, removing, walletFiles, unused>>

AddExternalWallet(id) ==
    /\ connected
    /\ Register(id, "external", PhantomKey)
    /\ UNCHANGED <<removing, connected, walletFiles, unused>>

RemainingIds(id) == {i \in WalletIds \ {id} : Registered(i)}

\* Some remaining wallet takes over (in the code the one added first).
Remove(id) ==
    LET registry == [entries EXCEPT ![id] = NoEntry]
    IN  \/ /\ activeWalletId = id
           /\ \E next \in RemainingIds(id) :
                 /\ entries' = Activated(registry, next)
                 /\ activeWalletId' = next
        \/ /\ activeWalletId = id
           /\ RemainingIds(id) = {}
           /\ entries' = registry
           /\ activeWalletId' = NoWallet
        \/ /\ activeWalletId # id
           /\ entries' = registry
           /\ UNCHANGED activeWalletId

(* removeWallet: at once for an internal wallet; an external one is            *)
(* disconnected first ...                                                      *)
RemoveWallet(id) ==
    /\ Registered(id)
    /\ \/ /\ entries[id].kind = "internal"
          /\ Remove(id)
          /\ UNCHANGED removing
       \/ /\ entries[id].kind = "external"
          /\ removing' = removing \cup {id}
          /\ UNCHANGED <<entries, activeWalletId>>
    /\ UNCHANGED <<connected, walletFiles, unused>>

AfterDisconnect_Deletes(id) ==
    entries' = [entries EXCEPT ![id] = NoEntry] /\ UNCHANGED activeWalletId

\* ... and only then the active wallet is looked at, and whatever has the id by now
\* is deleted.
AfterDisconnect(id) == Remove(id)

DisconnectAndRemove(id) ==
    /\ id \in removing
    /\ removing' = removing \ {id}
    /\ connected' = FALSE
    /\ AfterDisconnect(id)
    /\ UNCHANGED <<walletFiles, unused>>

SetActiveWallet(id) ==
    /\ Registered(id)
    /\ entries' = Activated(entries, id)
    /\ activeWalletId' = id
    /\ UNCHANGED <<removing, connected, walletFiles, unused>>

\* getActivePublicKey, of an active wallet.
ActivePublicKey == entries[activeWalletId].key

HasActive == activeWalletId # NoWallet

\* PhantomWalletAdapter.signTransaction throws while it is not connected.
AdapterSigns == connected

\* Who signs when the request is routed now: an internal wallet always can.
CanSign ==
    HasActive /\ (entries[activeWalletId].kind = "external" => AdapterSigns)

WalletNext ==
    \/ ConnectPhantom
    \/ \E id \in WalletIds :
          \/ CreateInternalWallet(id) \/ LoadInternalWallet(id)
          \/ AddExternalWallet(id) \/ RemoveWallet(id) \/ DisconnectAndRemove(id)
          \/ SetActiveWallet(id)

WalletSpec == WalletInit /\ [][WalletNext]_walletVars

----------------------------------------------------------------------------
(* Properties *)

\* The active id always names a registered wallet, so signing never meets an id
\* whose wallet is gone, and no other wallet is flagged active, although removals
\* go on after an await during which wallets are added, replaced and activated.
\* (The active wallet itself may lack the flag: replacing it clears the flag.)
ActiveIsRegistered ==
    /\ HasActive => Registered(activeWalletId)
    /\ \A id \in WalletIds : entries[id].isActive => id = activeWalletId

=============================================================================
