----------------------------- MODULE ProofCache -----------------------------
(***************************************************************************)
(* A pinner's checks that a purchaser holds an Access NFT                  *)
(* (PinnerClient.verifyNFTOwnership and its cache, and the proof message   *)
(* of CryptoUtils), for one wallet and one NFT mint.                       *)
(*                                                                         *)
(* The NFT is not transferable, but its holder may burn it.  A check is    *)
(* two remote calls with awaits; other checks, clearCache and              *)
(* setCacheExpiry run in between.  Time is counted down: an entry has      *)
(* `left` steps to live, and a loss is `gone` steps ago.                   *)
(***************************************************************************)
EXTENDS Integers

CONSTANTS Checks,        \* verifications that may be in flight together
          Expiries,      \* values given to setCacheExpiry; 0 is a legal one
          MaxExpiry,     \* the largest of them
          MaxCall,       \* a check's calls together are answered within this time
          MaxProofAge    \* 300 seconds in clock steps

ASSUME ProofCacheAssumption ==
    /\ Expiries \subseteq 0 .. MaxExpiry
    /\ Expiries # {}
    /\ MaxExpiry \in Nat
    /\ MaxCall \in Nat
    /\ MaxProofAge \in Nat

VARIABLES
    nft,         \* the Access NFT: not minted yet, held by the wallet, or burned
    gone,        \* how long ago it was burned, counted up to a horizon
    cacheExpiry, \* cacheExpirySeconds
    entry,       \* the cached answer: its remaining life, 0 when absent or expired
    check,       \* each verification: where it is, and since when
    answer       \* what the last finished one said

cacheVars == <<nft, gone, cacheExpiry, entry, check, answer>>

\* Nothing depends on a loss longer ago than this.
Horizon == MaxCall + MaxExpiry + 1

NoCheck == [at |-> "idle", since |-> 0]

NoAnswer == [valid |-> FALSE, gone |-> 0]

CacheInit ==
    /\ nft = "unminted"
    /\ gone = Horizon
    /\ cacheExpiry \in Expiries
    /\ entry = 0
    /\ check = [c \in Checks |-> NoCheck]
    /\ answer = NoAnswer

Held == nft = "held"

Answers(valid) == answer' = [valid |-> valid, gone |-> IF Held THEN 0 ELSE gone]

Finishes(c, valid) ==
    /\ check' = [check EXCEPT ![c] = NoCheck]
    /\ Answers(valid)

----------------------------------------------------------------------------
EntryAfterHit_Renewed == cacheExpiry

\* A hit leaves the entry its old expiry time.
EntryAfterHit == entry

\* createAccessProofMessage signs what the message says; what arrives here may say
\* something else than was signed.
Messages == [collection_id : {"asked for", "another"}, signed : {"asked for", "another"},
             age : -1 .. MaxProofAge + 1]

\* verifyAccessProofMessage
SignatureHolds(message) == message.signed = message.collection_id

\* isProofMessageFresh: neither from the future nor too old.
IsFresh(age) == age >= 0 /\ age <= MaxProofAge

(* The synchronous part: a cached answer is given before the message is looked *)
(* at; otherwise the signature, the age and the collection id must be right.   *)
BeginCheck(c, message) ==
    /\ check[c].at = "idle"
    /\ LET accepted == /\ SignatureHolds(message)
                       /\ IsFresh(message.age)
                       /\ message.collection_id = "asked for"
       IN  \/ /\ entry > 0
              /\ entry' = EntryAfterHit
              /\ Answers(TRUE)
              /\ UNCHANGED check
           \/ /\ entry = 0 /\ accepted
              /\ check' = [check EXCEPT ![c] = [at |-> "accounts", since |-> 0]]
              /\ UNCHANGED <<entry, answer>>
           \/ /\ entry = 0 /\ ~accepted
              /\ Answers(FALSE)
              /\ UNCHANGED <<check, entry>>
    /\ UNCHANGED <<nft, gone, cacheExpiry>>

(* getTokenAccountsByOwner: an account that once held the NFT may stay open. *)
ListAccounts(c) ==
    /\ check[c].at = "accounts"
    /\ \/ /\ nft # "unminted"
          /\ check' = [check EXCEPT ![c].at = "amount"]
          /\ UNCHANGED answer
       \/ /\ ~Held
          /\ Finishes(c, FALSE)
    /\ UNCHANGED <<nft, gone, cacheExpiry, entry>>

(* getAccount reads the amount on the chain ... *)
ReadAmount(c) ==
    /\ check[c].at = "amount"
    /\ \/ /\ Held
          /\ check' = [check EXCEPT ![c].at = "yes"]
          /\ UNCHANGED answer
       \/ /\ ~Held
          /\ Finishes(c, FALSE)
    /\ UNCHANGED <<nft, gone, cacheExpiry, entry>>

(* ... and when the answer has arrived it is cached, to live from now and not *)
(* from when it was true, and given.                                          *)
CacheAndAnswer(c) ==
    /\ check[c].at = "yes"
    /\ entry' = cacheExpiry
    /\ Finishes(c, TRUE)
    /\ UNCHANGED <<nft, gone, cacheExpiry>>

(* A remote call fails: the answer is no, and nothing is cached. *)
CallFails(c) ==
    /\ check[c].at # "idle"
    /\ Finishes(c, FALSE)
    /\ UNCHANGED <<nft, gone, cacheExpiry, entry>>

ClearCache ==
    /\ entry' = 0
    /\ UNCHANGED <<nft, gone, cacheExpiry, check, answer>>

(* setCacheExpiry does not touch the entry there is. *)
SetCacheExpiry(seconds) ==
    /\ cacheExpiry' = seconds
    /\ UNCHANGED <<nft, gone, entry, check, answer>>

----------------------------------------------------------------------------
(* The chain and the clock. *)

ReceiveNFT ==
    /\ nft = "unminted"
    /\ nft' = "held"
    /\ UNCHANGED <<gone, cacheExpiry, entry, check, answer>>

BurnNFT ==
    /\ Held
    /\ nft' = "burned"
    /\ gone' = 0
    /\ UNCHANGED <<cacheExpiry, entry, check, answer>>

(* The clock moves while no call is out for longer than it may be. *)
PassTime ==
    /\ \A c \in Checks : check[c].at # "idle" => check[c].since < MaxCall
    /\ check' = [c \in Checks |-> IF check[c].at = "idle" THEN NoCheck
                                  ELSE [check[c] EXCEPT !.since = @ + 1]]
    /\ entry' = IF entry > 0 THEN entry - 1 ELSE 0
    /\ gone' = IF nft = "burned" /\ gone < Horizon THEN gone + 1 ELSE gone
    /\ UNCHANGED <<nft, cacheExpiry, answer>>

CacheNext ==
    \/ \E c \in Checks :
          \/ \E message \in Messages : BeginCheck(c, message)
          \/ ListAccounts(c) \/ ReadAmount(c) \/ CacheAndAnswer(c) \/ CallFails(c)
    \/ ClearCache
    \/ \E seconds \in Expiries : SetCacheExpiry(seconds)
    \/ ReceiveNFT
    \/ BurnNFT
    \/ PassTime

CacheSpec == CacheInit /\ [][CacheNext]_cacheVars

----------------------------------------------------------------------------
(* Properties *)

\* A yes is never staler than the longest call plus the longest life an entry was
\* given: whatever overlaps, and although the life starts when the answer arrives
\* and not when it was true, after that time no check says yes for a burned NFT.
StaleYesIsBounded == answer.valid => answer.gone <= MaxCall + MaxExpiry

=============================================================================
