----------------------------- MODULE PoolLaunch -----------------------------
(***************************************************************************)
(* The launch of a collection's Orca pool: the creator's OrcaClient, which *)
(* signs through the wallets, and the three instructions of orca.rs.       *)
(*                                                                         *)
(* A request reads the active wallet's key, awaits the building of its     *)
(* transaction, and is then signed by the wallet that is active by then,   *)
(* after its user's confirmation.                                          *)
(***************************************************************************)
EXTENDS Wallets, Integers

CONSTANTS Owner,           \* the wallet key that owns the collection
          CollectionMintFirst, \* whether its mint sorts before the CAPGM mint
          Supplied,        \* what the client puts in, and the reload of the reserve
                           \* by the program; as written, none of the things named
                           \* below
          MaxTokens,       \* token amounts are 0 .. MaxTokens
          MinCapgm,        \* MIN_INITIAL_CAPGM_LIQUIDITY
          ReserveTokens    \* collection tokens minted into the reserve

ASSUME LaunchAssumption == MaxTokens \in Nat /\ MinCapgm \in Nat /\ ReserveTokens \in Nat

VARIABLES
    request,   \* the request under way: its step, instruction, creator and signer
    poolExists, positionExists,
    reserveA, reserveB,  \* the collection's reserves of its token and of CAPGM
    pooledA, pooledB,    \* what deposits put into Orca's pool of each, where swaps
                         \* and others' liquidity move it on
    creatorA, creatorB,  \* what the creator holds of each
    fundedB              \* history: CAPGM transferred to the reserve directly

balances == <<reserveA, reserveB, pooledA, pooledB, creatorA, creatorB, fundedB>>
chain == <<poolExists, positionExists, balances>>
launchVars == <<walletVars, request, chain>>

NoRequest == [at |-> "idle", op |-> "none", creator |-> NoWallet, signer |-> NoWallet]

LaunchInit ==
    /\ WalletInit
    /\ request = NoRequest
    /\ poolExists = FALSE
    /\ positionExists = FALSE
    /\ reserveA = ReserveTokens
    /\ reserveB = 0
    /\ pooledA = 0 /\ pooledB = 0
    /\ creatorA = 0 /\ creatorB = MaxTokens
    /\ fundedB = 0

----------------------------------------------------------------------------
(* OrcaClient: initializePool, openPosition and depositLiquidity. *)

Operations == {"initializePool", "openPosition", "depositLiquidity"}

StartRequest(op) ==
    /\ request.at = "idle"
    /\ HasActive
    /\ request' = [at |-> "building", op |-> op, creator |-> ActivePublicKey,
                   signer |-> NoWallet]
    /\ UNCHANGED <<walletVars, chain>>

(* What each instruction needs of its builder: an account that is left out makes *)
(* the builder throw, and so does the position's mint that signs, on a           *)
(* transaction without a blockhash.                                              *)
PoolIsBuilt == "token badges" \in Supplied

PositionIsBuilt == "blockhash" \in Supplied

DepositIsBuilt == "creator_token_a" \in Supplied

IsBuilt(op) ==
    \/ op = "initializePool" /\ PoolIsBuilt
    \/ op = "openPosition" /\ PositionIsBuilt
    \/ op = "depositLiquidity" /\ DepositIsBuilt

(* signAndSendTransaction routes what was built to the wallet that is active now, *)
(* which cannot sign it without a blockhash either.                               *)
RouteRequest ==
    /\ request.at = "building"
    /\ request' = IF IsBuilt(request.op) /\ CanSign /\ "blockhash" \in Supplied
                  THEN [request EXCEPT !.at = "confirming", !.signer = ActivePublicKey]
                  ELSE NoRequest
    /\ UNCHANGED <<walletVars, chain>>

(* A range of ticks is empty, a fetch fails, the user turns the request down or the *)
(* chain refuses it.                                                               *)
AbandonRequest ==
    /\ request.at \in {"building", "confirming"}
    /\ request' = NoRequest
    /\ UNCHANGED <<walletVars, chain>>

\* The transaction names the creator as signer, and the program wants the owner.
Accepted(op) ==
    /\ request.at = "confirming"
    /\ request.op = op
    /\ request.signer = request.creator
    /\ request.creator = Owner

\* sortTokens: the client passes the mint that sorts first as the collection's.
MintsMatch == CollectionMintFirst

----------------------------------------------------------------------------
(* instructions/orca.rs, and what it relies on in the Orca program. *)

InitializeOrcaPool ==
    /\ Accepted("initializePool")
    /\ MintsMatch
    /\ ~poolExists
    /\ poolExists' = TRUE
    /\ request' = NoRequest
    /\ UNCHANGED <<walletVars, positionExists, balances>>

OpenOrcaPosition ==
    /\ Accepted("openPosition")
    /\ poolExists
    /\ positionExists' = TRUE
    /\ request' = NoRequest
    /\ UNCHANGED <<walletVars, poolExists, balances>>

\* calculateLiquidityAmounts: what Orca's library answers for the price and the
\* slippage of the moment; any amounts.
Quotes == [maxA : 0 .. MaxTokens, maxB : 0 .. MaxTokens]

BalanceAfterTransferB_OnlyTransferred(max) == max

\* "Balance after transfer": as written, the balance loaded before the transfer.
BalanceAfterTransferB(max) == IF "reload" \in Supplied THEN reserveB + max ELSE reserveB

(* deposit_liquidity_to_orca: the creator's CAPGM is moved to the reserve, Orca  *)
(* takes usedA and usedB of the reserves, and what it left is refunded.  A       *)
(* checked subtraction that underflows fails the whole transaction, and so does  *)
(* a refund the reserve cannot pay.                                              *)
DepositLiquidityToOrca(maxA, maxB, usedA, usedB) ==
    LET leftB == reserveB + maxB - usedB
        leftA == reserveA - usedA
        actualUsedB == BalanceAfterTransferB(maxB) - leftB
        refundB == maxB - actualUsedB
        refundA == IF maxA - usedA < leftA THEN maxA - usedA ELSE leftA
    IN  /\ Accepted("depositLiquidity")
        /\ MintsMatch
        /\ poolExists /\ positionExists
        /\ maxA > 0 /\ maxB >= MinCapgm
        /\ maxB <= creatorB
        /\ usedA <= maxA /\ usedA <= reserveA /\ usedB <= maxB
        /\ actualUsedB >= 0 /\ refundB >= 0
        /\ refundB <= leftB
        /\ reserveA' = leftA - refundA
        /\ reserveB' = leftB - refundB
        /\ pooledA' = pooledA + usedA
        /\ pooledB' = pooledB + usedB
        /\ creatorA' = creatorA + refundA
        /\ creatorB' = creatorB - maxB + refundB
        /\ request' = NoRequest
        /\ UNCHANGED <<walletVars, poolExists, positionExists, fundedB>>

(* A plain transfer of somebody's CAPGM to the reserve. *)
FundReserve(amount) ==
    /\ amount > 0
    /\ fundedB + amount <= MaxTokens
    /\ reserveB' = reserveB + amount
    /\ fundedB' = fundedB + amount
    /\ UNCHANGED <<walletVars, request, poolExists, positionExists, reserveA, pooledA,
                   pooledB, creatorA, creatorB>>

LaunchNext ==
    \/ WalletNext /\ UNCHANGED <<request, chain>>
    \/ \E op \in Operations : StartRequest(op)
    \/ RouteRequest \/ AbandonRequest
    \/ InitializeOrcaPool \/ OpenOrcaPosition
    \/ \E quote \in Quotes, usedA, usedB \in 0 .. MaxTokens :
          DepositLiquidityToOrca(quote.maxA, quote.maxB, usedA, usedB)
    \/ \E amount \in 1 .. MaxTokens : FundReserve(amount)

LaunchSpec == LaunchInit /\ [][LaunchNext]_launchVars

----------------------------------------------------------------------------
(* Properties *)

\* A deposit takes from the creator what Orca uses and no more: it refunds the excess
\* of what it just transferred, "not from the previous balance".  What somebody sent
\* to the reserve is therefore there after any number of deposits, whatever part of
\* its maximum each of them used.
ReserveIsKept == reserveB = fundedB

=============================================================================
