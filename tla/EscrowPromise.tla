--------------------------- MODULE EscrowPromise ---------------------------
(***************************************************************************)
(* What access escrow promises, without saying how.  Each purchaser's lot  *)
(* is free, open or expired, and the tokens set aside for purchasers are   *)
(* held in accounts with one owner each.  An account loses its tokens only *)
(* whole, and only with a lot of its owner: as a payment while the lot is  *)
(* open, to destruction once it has expired.  Either ends the lot, so each *)
(* lot takes at most one account with it; what the owner's other accounts  *)
(* hold stays for the next lots.  A lot does not last forever while its    *)
(* owner's accounts hold something.                                        *)
(***************************************************************************)
EXTENDS Integers

CONSTANTS Purchasers, Accounts, OwnerOf

VARIABLES phase,   \* "free", "open" or "expired": the lot of each purchaser
          held,    \* tokens in each account
          burned   \* tokens destroyed so far

promise == <<phase, held, burned>>

Init ==
    /\ phase = [b \in Purchasers |-> "free"]
    /\ held = [a \in Accounts |-> 0]
    /\ burned = 0

\* No account outside S loses anything.
OnlyLose(S) ==
    /\ DOMAIN held' = Accounts
    /\ \A a \in Accounts \ S : held'[a] >= held[a]

\* The lot of b goes from one phase to another, those of the others stay.
Moves(b, from, to) ==
    /\ phase[b] = from
    /\ phase' = [phase EXCEPT ![b] = to]

Lock(b) ==
    /\ Moves(b, "free", "open")
    /\ OnlyLose({})
    /\ UNCHANGED burned

(* Anybody may add to an account; nobody may take part of it. *)
Receive ==
    /\ OnlyLose({})
    /\ UNCHANGED <<phase, burned>>

(* The passing of time may expire several lots at once. *)
Expire(S) ==
    /\ \A b \in S : phase[b] = "open"
    /\ phase' = [b \in Purchasers |-> IF b \in S THEN "expired" ELSE phase[b]]
    /\ UNCHANGED <<held, burned>>

Pay(a) ==
    /\ Moves(OwnerOf[a], "open", "free")
    /\ held'[a] = 0
    /\ OnlyLose({a})
    /\ UNCHANGED burned

Destroy(a) ==
    /\ Moves(OwnerOf[a], "expired", "free")
    /\ held[a] > 0
    /\ held'[a] = 0
    /\ OnlyLose({a})
    /\ burned' = burned + held[a]

Next ==
    \/ \E b \in Purchasers : Lock(b)
    \/ \E a \in Accounts : Pay(a) \/ Destroy(a)
    \/ \E S \in SUBSET Purchasers : Expire(S)
    \/ Receive

Safety == Init /\ [][Next]_promise

\* A lot whose owner's accounts hold something is paid or destroyed in the end.
EventuallySettled ==
    \A a \in Accounts :
        (phase[OwnerOf[a]] # "free" /\ held[a] > 0) ~> phase[OwnerOf[a]] = "free"

Spec == Safety /\ EventuallySettled
=============================================================================
