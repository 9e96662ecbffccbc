--------------------------- MODULE PurchaseSplit ---------------------------
(***************************************************************************)
(* The arithmetic of one access purchase (purchase_access): how the amount *)
(* a purchaser pays is divided between the treasury, the collection's      *)
(* staking pool and the access escrow.  The program computes in unsigned   *)
(* integers, so every division truncates.                                  *)
(***************************************************************************)
EXTENDS Integers

FeeDenominator == 10000

\* A fee rate GlobalState can hold, in basis points.
FeeRate == 0 .. FeeDenominator

(* constants.rs: SPLIT_TO_STAKERS and SPLIT_TO_PEERS_ESCROW, in percent. *)
SplitToStakers == 50
SplitToPeersEscrow == 50


(* Ceiling division: the treasury gets the rounding. *)
TotalFee(total, bp) == (total * bp + FeeDenominator - 1) \div FeeDenominator

AmountAfterFee(total, bp) == total - TotalFee(total, bp)

AmountToEscrow(total, bp) ==
    (AmountAfterFee(total, bp) * SplitToPeersEscrow) \div 100

(* The stakers' half plus what truncating the two halves left over. *)
AmountToStakers(total, bp) ==
    LET half == (AmountAfterFee(total, bp) * SplitToStakers) \div 100
        remainder == AmountAfterFee(total, bp)
                       - (half + AmountToEscrow(total, bp))
    IN  half + remainder
=============================================================================
