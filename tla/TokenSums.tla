----------------------------- MODULE TokenSums -----------------------------
(***************************************************************************)
(* Sums over the token accounts of a set of owners: what f holds for all   *)
(* members of the finite set S together.                                   *)
(***************************************************************************)
EXTENDS Integers, FiniteSetsExt

SumOver(f, S) == MapThenSumSet(LAMBDA x : f[x], S)
=============================================================================
