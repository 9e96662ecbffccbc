-------------------------- MODULE TokenArithmetic --------------------------
(***************************************************************************)
(* The arithmetic the other proofs share: truncating division, the split   *)
(* of a purchase for every amount and every fee, and sums over the         *)
(* accounts of any finite set of owners.                                   *)
(*                                                                         *)
(* SumOver folds over the set in an order the library chooses.  That the   *)
(* order does not matter is shown by counting: a sum of naturals is the    *)
(* number of pairs <<owner, k>> with k in 1 .. f[owner], and cardinalities *)
(* obey the library's theorems.  Induction over the subsets of a finite    *)
(* set is used in the first-order form SubsetInduction.                    *)
(***************************************************************************)
EXTENDS PurchaseSplit, TokenSums, FiniteSetTheorems, TLAPS

\* Truncating division of naturals stays below the exact quotient.
LEMMA DivNat ==
    ASSUME NEW n \in Nat, NEW d \in Nat \ {0}
    PROVE  /\ n \div d \in Nat
           /\ (n \div d) * d <= n
  OBVIOUS

\* Multiplication of naturals is monotonic.
LEMMA MulMono ==
    ASSUME NEW a \in Nat, NEW b \in Nat, NEW c \in Nat, b <= c
    PROVE  /\ a * b \in Nat
           /\ a * b <= a * c
  OBVIOUS

\* The fee never exceeds the amount it is taken from, and what is left is split
\* without creating or losing a token.
LEMMA SplitExact ==
    ASSUME NEW total \in Nat, NEW bp \in FeeRate
    PROVE  /\ TotalFee(total, bp) \in Nat
           /\ AmountToEscrow(total, bp) \in Nat
           /\ AmountToStakers(total, bp) \in Nat
           /\ TotalFee(total, bp) + AmountToEscrow(total, bp)
                + AmountToStakers(total, bp) = total
  <1>1. total * bp \in Nat /\ total * bp <= total * FeeDenominator
    BY MulMono DEF FeeRate, FeeDenominator
  <1>2. TotalFee(total, bp) \in Nat /\ TotalFee(total, bp) <= total
    <2> DEFINE prod == total * bp
    <2>1. prod \in Nat /\ prod <= total * 10000
      BY <1>1 DEF FeeDenominator
    <2>2. TotalFee(total, bp) = (prod + 9999) \div 10000
      BY <2>1 DEF TotalFee, FeeDenominator
    <2> HIDE DEF prod
    <2> QED BY <2>1, <2>2
  <1>3. AmountAfterFee(total, bp) \in Nat
    BY <1>2 DEF AmountAfterFee
  <1>4. AmountToEscrow(total, bp) \in Nat
    BY <1>3 DEF AmountToEscrow, SplitToPeersEscrow
  <1>5. AmountToStakers(total, bp)
          = AmountAfterFee(total, bp) - AmountToEscrow(total, bp)
    BY <1>3, <1>4 DEF AmountToStakers, SplitToStakers
  <1>6. AmountToEscrow(total, bp) <= AmountAfterFee(total, bp)
    BY <1>3 DEF AmountToEscrow, SplitToPeersEscrow
  <1> QED
    BY <1>2, <1>3, <1>4, <1>5, <1>6 DEF AmountAfterFee

----------------------------------------------------------------------------
(* Induction over the subsets of a finite set. *)

\* Strict inclusion has no infinite descent below a finite set.
LEMMA SubsetsWellFounded ==
    ASSUME NEW S, IsFiniteSet(S)
    PROVE  IsWellFoundedOn(StrictSubsetOrdering(S), SUBSET S)
  BY FS_StrictSubsetOrderingWellFounded, FS_FiniteSubsetsOfFinite

\* A family T that holds the empty set, and every subset from which each removal of
\* one element leads into T, holds all subsets of a finite set.
LEMMA SubsetInduction ==
    ASSUME NEW S, IsFiniteSet(S), NEW T \in SUBSET SUBSET S, {} \in T,
           ASSUME NEW A \in SUBSET S, A # {}, \A x \in A : A \ {x} \in T
           PROVE  A \in T
    PROVE  T = SUBSET S
  <1> DEFINE C == (SUBSET S) \ T
             R == StrictSubsetOrdering(S)
  <1> SUFFICES ASSUME C # {} PROVE FALSE
    OBVIOUS
  <1>1. IsWellFoundedOn(R, SUBSET S)
    BY SubsetsWellFounded
  <1> HIDE DEF R
  <1>2. PICK A \in C : \A B \in C : ~ (<<B, A>> \in R)
    <2>1. C \subseteq SUBSET S
      OBVIOUS
    <2> HIDE DEF C
    <2> QED BY <1>1, <2>1, WFMin
  <1>3. A # {}
    OBVIOUS
  <1>4. ASSUME NEW x \in A PROVE A \ {x} \in T
    <2>1. <<A \ {x}, A>> \in R
      BY DEF R, StrictSubsetOrdering
    <2> QED BY <1>2, <2>1
  <1> QED BY <1>2, <1>3, <1>4

\* Induction along the prefixes of a list of n entries.
LEMMA PrefixInduction ==
    ASSUME NEW n \in Nat, NEW T \in SUBSET (0 .. n), 0 \in T,
           \A i \in 1 .. n : i - 1 \in T => i \in T
    PROVE  T = 0 .. n
  <1> DEFINE C == (0 .. n) \ T
             R == OpToRel(<, Nat)
  <1> SUFFICES ASSUME C # {} PROVE FALSE
    OBVIOUS
  <1>1. IsWellFoundedOn(R, Nat)
    BY NatLessThanWellFounded
  <1>2. \A i, j \in Nat : i < j => <<i, j>> \in R
    BY DEF OpToRel
  <1>3. C \subseteq Nat
    OBVIOUS
  <1> HIDE DEF R
  <1>4. PICK i \in C : \A j \in C : ~ (<<j, i>> \in R)
    <2> HIDE DEF C
    <2> QED BY <1>1, <1>3, WFMin
  <1>5. i \in 1 .. n
    OBVIOUS
  <1>6. i - 1 \in C
    BY <1>5
  <1>7. <<i - 1, i>> \in R
    BY <1>2, <1>5
  <1> QED BY <1>4, <1>6, <1>7

----------------------------------------------------------------------------
(* A sum counts its tokens. *)

\* The recursive function MapThenSumSet chooses, and the equation it solves.
SumStep(f, S, iter) ==
    [T \in SUBSET S |->
        IF T = {} THEN 0
        ELSE f[CHOOSE x \in T : TRUE] + iter[T \ {CHOOSE x \in T : TRUE}]]

IsSum(f, S, iter) == iter = SumStep(f, S, iter)

\* The single tokens the owners in T hold.
TokensOf(f, T) == UNION {{x} \X (1 .. f[x]) : x \in T}

\* What the library's fold means for SumOver.
LEMMA SumUnfold ==
    ASSUME NEW f, NEW S
    PROVE  SumOver(f, S) = (CHOOSE iter : iter = SumStep(f, S, iter))[S]
  BY DEF SumOver, MapThenSumSet, MapThenFoldSet, SumStep

\* Owners hold finitely many tokens, and one owner more adds what it holds.
LEMMA TokensStep ==
    ASSUME NEW S, IsFiniteSet(S), NEW f, \A x \in S : f[x] \in Nat
    PROVE  /\ \A A \in SUBSET S : IsFiniteSet(TokensOf(f, A))
           /\ \A A \in SUBSET S : \A x \in A :
                Cardinality(TokensOf(f, A))
                    = f[x] + Cardinality(TokensOf(f, A \ {x}))
  <1>1. ASSUME NEW x \in S
        PROVE  /\ IsFiniteSet({x} \X (1 .. f[x]))
               /\ Cardinality({x} \X (1 .. f[x])) = f[x]
    <2>1. IsFiniteSet(1 .. f[x]) /\ Cardinality(1 .. f[x]) = f[x]
      BY <1>1, FS_Interval
    <2>2. IsFiniteSet({x}) /\ Cardinality({x}) = 1
      BY FS_Singleton
    <2>3. /\ IsFiniteSet({x} \X (1 .. f[x]))
          /\ Cardinality({x} \X (1 .. f[x])) = Cardinality({x}) * Cardinality(1 .. f[x])
      BY <2>1, <2>2, FS_Product
    <2> QED BY <1>1, <2>1, <2>2, <2>3
  <1>2. ASSUME NEW A \in SUBSET S
        PROVE  IsFiniteSet(TokensOf(f, A))
    <2> DEFINE Rows == {{x} \X (1 .. f[x]) : x \in A}
    <2>1. IsFiniteSet(A) BY FS_Subset
    <2>2. IsFiniteSet(Rows)
      <3> DEFINE row == [x \in A |-> {x} \X (1 .. f[x])]
      <3>1. row \in Surjection(A, Rows) BY DEF Surjection
      <3> HIDE DEF row, Rows
      <3> QED BY <2>1, <3>1, FS_Surjection
    <2>3. \A T \in Rows : IsFiniteSet(T) BY <1>1
    <2>4. TokensOf(f, A) = UNION Rows BY DEF TokensOf
    <2> HIDE DEF Rows
    <2> QED BY <2>2, <2>3, <2>4, FS_UNION
  <1>3. ASSUME NEW A \in SUBSET S, NEW x \in A
        PROVE  Cardinality(TokensOf(f, A)) = f[x] + Cardinality(TokensOf(f, A \ {x}))
    <2> DEFINE P == {x} \X (1 .. f[x])
               Q == TokensOf(f, A \ {x})
    <2>1. TokensOf(f, A) = P \cup Q /\ P \cap Q = {}
      BY DEF TokensOf
    <2>2. IsFiniteSet(P) /\ Cardinality(P) = f[x] /\ IsFiniteSet(Q)
      BY <1>1, <1>2
    <2> HIDE DEF P, Q
    <2>3. Cardinality(P \cup Q) = Cardinality(P) + Cardinality(Q) - Cardinality(P \cap Q)
      BY <2>2, FS_Union
    <2>4. Cardinality({}) = 0 BY FS_EmptySet
    <2>5. Cardinality(Q) \in Nat BY <2>2, FS_CardinalityType
    <2>6. f[x] \in Nat OBVIOUS
    <2>7. Cardinality(P \cap Q) = 0 BY <2>1, <2>4
    <2>8. Cardinality(TokensOf(f, A)) = f[x] + Cardinality(Q)
      <3>1. Cardinality(TokensOf(f, A)) = Cardinality(P \cup Q) BY <2>1
      <3> QED BY <3>1, <2>2, <2>3, <2>5, <2>6, <2>7
    <2> QED BY <2>8 DEF Q
  <1> QED BY <1>2, <1>3

\* The equation has a solution: counting the tokens of each subset.
LEMMA SumExists ==
    ASSUME NEW S, IsFiniteSet(S), NEW f, \A x \in S : f[x] \in Nat
    PROVE  \E iter : IsSum(f, S, iter)
  <1> DEFINE iter == [A \in SUBSET S |-> Cardinality(TokensOf(f, A))]
  <1>1. ASSUME NEW A \in SUBSET S
        PROVE iter[A] = IF A = {} THEN 0
                        ELSE f[CHOOSE x \in A : TRUE] + iter[A \ {CHOOSE x \in A : TRUE}]
    <2>1. CASE A = {}
       <3>1. TokensOf(f, {}) = {} BY DEF TokensOf
       <3> QED BY <2>1, <3>1, FS_EmptySet
    <2>2. CASE A # {}
       <3> DEFINE x == CHOOSE y \in A : TRUE
       <3>1. x \in A BY <2>2
       <3> HIDE DEF x
       <3>2. Cardinality(TokensOf(f, A)) = f[x] + Cardinality(TokensOf(f, A \ {x}))
         BY <3>1, TokensStep
       <3>3. A \ {x} \in SUBSET S OBVIOUS
       <3>4. iter[A] = f[x] + iter[A \ {x}] BY <3>2, <3>3
       <3> QED BY <2>2, <3>4 DEF x
    <2> QED BY <2>1, <2>2
  <1>2. iter = SumStep(f, S, iter)
    BY <1>1 DEF SumStep
  <1> QED BY <1>2 DEF IsSum

\* Whatever order the fold takes, the sum is the number of tokens.
LEMMA SumIsCount ==
    ASSUME NEW S, IsFiniteSet(S), NEW f, \A x \in S : f[x] \in Nat
    PROVE  SumOver(f, S) = Cardinality(TokensOf(f, S))
  <1> DEFINE iter == CHOOSE i : IsSum(f, S, i)
  <1>1. IsSum(f, S, iter) BY SumExists
  <1>2. SumOver(f, S) = iter[S] BY SumUnfold DEF IsSum
  <1> HIDE DEF iter
  <1> DEFINE T == {A \in SUBSET S : iter[A] = Cardinality(TokensOf(f, A))}
  <1>3. {} \in T
    <2>1. TokensOf(f, {}) = {} BY DEF TokensOf
    <2>2. iter[{}] = 0
       <3>1. iter = SumStep(f, S, iter) BY <1>1 DEF IsSum
       <3>2. iter[{}] = SumStep(f, S, iter)[{}] BY <3>1
       <3> QED BY <3>2 DEF SumStep
    <2> QED BY <2>1, <2>2, FS_EmptySet
  <1>4. ASSUME NEW A \in SUBSET S, A # {}, \A x \in A : A \ {x} \in T PROVE A \in T
    <2> DEFINE x == CHOOSE y \in A : TRUE
    <2>1. x \in A BY <1>4
    <2>2. iter[A] = f[x] + iter[A \ {x}]
       <3>1. iter[A] = SumStep(f, S, iter)[A] BY <1>1 DEF IsSum
       <3> QED BY <1>4, <3>1 DEF SumStep
    <2> HIDE DEF x
    <2>3. iter[A \ {x}] = Cardinality(TokensOf(f, A \ {x})) BY <1>4, <2>1
    <2>4. Cardinality(TokensOf(f, A)) = f[x] + Cardinality(TokensOf(f, A \ {x}))
      BY <2>1, TokensStep
    <2> QED BY <2>2, <2>3, <2>4
  <1>5. T = SUBSET S
    <2> HIDE DEF T
    <2>1. T \in SUBSET SUBSET S BY DEF T
    <2> QED BY <1>3, <1>4, <2>1, SubsetInduction
  <1> QED BY <1>2, <1>5

----------------------------------------------------------------------------
(* What the proofs about accounts use. *)

\* A sum of naturals is a natural, and depends only on what f holds on S.
LEMMA SumType ==
    ASSUME NEW S, IsFiniteSet(S), NEW f, \A x \in S : f[x] \in Nat
    PROVE  SumOver(f, S) \in Nat
  <1>1. IsFiniteSet(TokensOf(f, S))
    BY TokensStep
  <1> QED BY <1>1, SumIsCount, FS_CardinalityType

LEMMA SumSame ==
    ASSUME NEW S, IsFiniteSet(S), NEW f, NEW g, \A x \in S : f[x] \in Nat,
           \A x \in S : g[x] = f[x]
    PROVE  SumOver(g, S) = SumOver(f, S)
  <1>1. TokensOf(g, S) = TokensOf(f, S)
    BY DEF TokensOf
  <1> QED BY <1>1, SumIsCount

LEMMA SumOfNobody ==
    ASSUME NEW f
    PROVE  SumOver(f, {}) = 0
  <1>1. TokensOf(f, {}) = {}
    BY DEF TokensOf
  <1>2. IsFiniteSet({}) /\ Cardinality({}) = 0
    BY FS_EmptySet
  <1>3. SumOver(f, {}) = Cardinality(TokensOf(f, {}))
    BY <1>2, SumIsCount
  <1> QED BY <1>1, <1>2, <1>3

\* One owner's part can be taken out of a sum.
LEMMA SumRemove ==
    ASSUME NEW S, IsFiniteSet(S), NEW f, \A x \in S : f[x] \in Nat, NEW x \in S
    PROVE  /\ SumOver(f, S) = f[x] + SumOver(f, S \ {x})
           /\ SumOver(f, S \ {x}) \in Nat
           /\ IsFiniteSet(S \ {x})
  <1>1. IsFiniteSet(S \ {x})
    BY FS_RemoveElement
  <1>2. SumOver(f, S) = Cardinality(TokensOf(f, S))
    BY SumIsCount
  <1>3. SumOver(f, S \ {x}) = Cardinality(TokensOf(f, S \ {x}))
    BY <1>1, SumIsCount
  <1>4. Cardinality(TokensOf(f, S)) = f[x] + Cardinality(TokensOf(f, S \ {x}))
    BY TokensStep
  <1>5. SumOver(f, S \ {x}) \in Nat
    BY <1>1, SumType
  <1> QED BY <1>1, <1>2, <1>3, <1>4, <1>5

\* When one owner's account changes, the sum changes by as much.
LEMMA SumUpdate ==
    ASSUME NEW S, IsFiniteSet(S), NEW f, \A y \in S : f[y] \in Nat,
           NEW g, \A y \in S : g[y] \in Nat,
           NEW x \in S, \A y \in S \ {x} : g[y] = f[y]
    PROVE  SumOver(g, S) = SumOver(f, S) - f[x] + g[x]
  <1>1. /\ SumOver(f, S) = f[x] + SumOver(f, S \ {x})
        /\ SumOver(f, S \ {x}) \in Nat
        /\ IsFiniteSet(S \ {x})
    BY SumRemove
  <1>2. SumOver(g, S) = g[x] + SumOver(g, S \ {x})
    BY SumRemove
  <1>3. SumOver(g, S \ {x}) = SumOver(f, S \ {x})
    BY <1>1, SumSame
  <1>4. f[x] \in Nat /\ g[x] \in Nat
    OBVIOUS
  <1> QED BY <1>1, <1>2, <1>3, <1>4

\* No owner holds more than all together.
LEMMA SumBoundsMember ==
    ASSUME NEW S, IsFiniteSet(S), NEW f, \A y \in S : f[y] \in Nat, NEW x \in S
    PROVE  f[x] <= SumOver(f, S)
  <1>1. f[x] \in Nat
    OBVIOUS
  <1>2. /\ SumOver(f, S) = f[x] + SumOver(f, S \ {x})
        /\ SumOver(f, S \ {x}) \in Nat
    BY SumRemove
  <1> QED BY <1>1, <1>2

\* When every account grows by k times a rate of its own, so does the sum.
LEMMA SumLinear ==
    ASSUME NEW S, IsFiniteSet(S), NEW k \in Nat,
           NEW f, \A x \in S : f[x] \in Nat, NEW g, \A x \in S : g[x] \in Nat,
           NEW h, \A x \in S : h[x] = f[x] + g[x] * k
    PROVE  SumOver(h, S) = SumOver(f, S) + SumOver(g, S) * k
  <1> DEFINE T == {A \in SUBSET S :
                     SumOver(h, A) = SumOver(f, A) + SumOver(g, A) * k}
  <1>1. {} \in T
    BY SumOfNobody
  <1>2. ASSUME NEW A \in SUBSET S, A # {}, \A x \in A : A \ {x} \in T
        PROVE  A \in T
    <2>1. PICK x \in A : TRUE
      BY <1>2
    <2> DEFINE B == A \ {x}
    <2>2. /\ x \in S /\ IsFiniteSet(A)
          /\ \A y \in A : f[y] \in Nat /\ g[y] \in Nat
      BY FS_Subset
    <2>3. \A y \in A : h[y] \in Nat
      <3>1. ASSUME NEW y \in S PROVE h[y] \in Nat
        BY MulMono
      <3> QED BY <3>1
    <2>4. SumOver(f, A) = f[x] + SumOver(f, B) /\ SumOver(f, B) \in Nat
      BY <2>2, SumRemove
    <2>5. SumOver(g, A) = g[x] + SumOver(g, B) /\ SumOver(g, B) \in Nat
      BY <2>2, SumRemove
    <2>6. SumOver(h, A) = h[x] + SumOver(h, B)
      BY <2>2, <2>3, SumRemove
    <2>7. SumOver(h, B) = SumOver(f, B) + SumOver(g, B) * k
      BY <1>2
    <2>8. h[x] = f[x] + g[x] * k
      BY <2>2
    <2> HIDE DEF B
    <2>9. (g[x] + SumOver(g, B)) * k = g[x] * k + SumOver(g, B) * k
      BY <2>2, <2>5
    <2>10. g[x] * k \in Nat /\ SumOver(g, B) * k \in Nat
      BY <2>2, <2>5, MulMono
    <2>11. SumOver(h, A) = SumOver(f, A) + SumOver(g, A) * k
      BY <2>2, <2>4, <2>5, <2>6, <2>7, <2>8, <2>9, <2>10
    <2> QED BY <2>11
  <1>3. T = SUBSET S
    <2> HIDE DEF T
    <2>1. T \in SUBSET SUBSET S
      BY DEF T
    <2> QED BY <1>1, <1>2, <2>1, SubsetInduction
  <1> QED BY <1>3

\* Accounts that hold at most as much hold at most as much together.
LEMMA SumMono ==
    ASSUME NEW S, IsFiniteSet(S), NEW f, \A x \in S : f[x] \in Nat,
           NEW g, \A x \in S : g[x] \in Nat, \A x \in S : f[x] <= g[x]
    PROVE  SumOver(f, S) <= SumOver(g, S)
  <1>1. TokensOf(f, S) \in SUBSET TokensOf(g, S)
    BY DEF TokensOf
  <1>2. IsFiniteSet(TokensOf(g, S))
    BY TokensStep
  <1>3. Cardinality(TokensOf(f, S)) <= Cardinality(TokensOf(g, S))
    BY <1>1, <1>2, FS_Subset
  <1> QED BY <1>3, SumIsCount

\* Nobody holds anything.
LEMMA SumZero ==
    ASSUME NEW S, IsFiniteSet(S), NEW f, \A x \in S : f[x] = 0
    PROVE  SumOver(f, S) = 0
  <1>1. TokensOf(f, S) = {}
    BY DEF TokensOf
  <1> QED BY <1>1, SumIsCount, FS_EmptySet

\* Two accounts per owner hold what the first ones and the second ones hold.
LEMMA SumPlus ==
    ASSUME NEW S, IsFiniteSet(S),
           NEW f, \A x \in S : f[x] \in Nat, NEW g, \A x \in S : g[x] \in Nat,
           NEW h, \A x \in S : h[x] = f[x] + g[x]
    PROVE  SumOver(h, S) = SumOver(f, S) + SumOver(g, S)
  <1>1. \A x \in S : h[x] = f[x] + g[x] * 1
    OBVIOUS
  <1>2. SumOver(h, S) = SumOver(f, S) + SumOver(g, S) * 1
    BY <1>1, SumLinear
  <1>3. SumOver(g, S) \in Nat
    BY SumType
  <1> QED BY <1>2, <1>3

\* Some of the owners hold no more than all of them.
LEMMA SumSubset ==
    ASSUME NEW S, IsFiniteSet(S), NEW f, \A x \in S : f[x] \in Nat, NEW A \in SUBSET S
    PROVE  /\ IsFiniteSet(A)
           /\ SumOver(f, A) \in Nat
           /\ SumOver(f, A) <= SumOver(f, S)
  <1>1. IsFiniteSet(A)
    BY FS_Subset
  <1>2. SumOver(f, A) \in Nat
    BY <1>1, SumType
  <1>3. TokensOf(f, A) \in SUBSET TokensOf(f, S)
    BY DEF TokensOf
  <1>4. IsFiniteSet(TokensOf(f, S))
    BY TokensStep
  <1>5. Cardinality(TokensOf(f, A)) <= Cardinality(TokensOf(f, S))
    BY <1>3, <1>4, FS_Subset
  <1> QED BY <1>1, <1>2, <1>5, SumIsCount

\* The sum over one entry more of a list.
LEMMA SumPrefix ==
    ASSUME NEW n \in Nat, NEW f, \A j \in 1 .. n : f[j] \in Nat, NEW i \in 1 .. n
    PROVE  /\ SumOver(f, 1 .. i) = SumOver(f, 1 .. (i - 1)) + f[i]
           /\ SumOver(f, 1 .. (i - 1)) \in Nat
  <1>1. IsFiniteSet(1 .. i) /\ i \in 1 .. i /\ \A j \in 1 .. i : f[j] \in Nat
    BY FS_Interval
  <1>2. (1 .. i) \ {i} = 1 .. (i - 1)
    OBVIOUS
  <1>3. /\ SumOver(f, 1 .. i) = f[i] + SumOver(f, (1 .. i) \ {i})
        /\ SumOver(f, (1 .. i) \ {i}) \in Nat
    BY <1>1, SumRemove
  <1>4. f[i] \in Nat
    OBVIOUS
  <1> DEFINE before == SumOver(f, (1 .. i) \ {i})
  <1>5. before = SumOver(f, 1 .. (i - 1))
    BY <1>2
  <1>6. SumOver(f, 1 .. i) = before + f[i] /\ before \in Nat
    <2>1. SumOver(f, 1 .. i) = f[i] + before /\ before \in Nat
      BY <1>3
    <2> HIDE DEF before
    <2> QED BY <1>4, <2>1
  <1> HIDE DEF before
  <1> QED BY <1>5, <1>6

\* Grouping the entries by who owns them neither loses an entry nor counts one twice.
LEMMA SumPartition ==
    ASSUME NEW S, IsFiniteSet(S), NEW P, IsFiniteSet(P), NEW owner \in [S -> P],
           NEW f, \A x \in S : f[x] \in Nat
    PROVE  SumOver([p \in P |-> SumOver(f, {x \in S : owner[x] = p})], P)
             = SumOver(f, S)
  <1> DEFINE Own(A, p) == {x \in A : owner[x] = p}
             Groups(A) == [p \in P |-> SumOver(f, Own(A, p))]
             T == {A \in SUBSET S : SumOver(Groups(A), P) = SumOver(f, A)}
  <1>1. {} \in T
    <2>1. \A p \in P : Groups({})[p] = 0
      <3>1. \A p \in P : Own({}, p) = {}
        OBVIOUS
      <3> QED BY <3>1, SumOfNobody
    <2> HIDE DEF Groups
    <2>2. SumOver(Groups({}), P) = 0
      BY <2>1, SumZero
    <2> QED BY <2>2, SumOfNobody
  <1>2. ASSUME NEW A \in SUBSET S, A # {}, \A x \in A : A \ {x} \in T
        PROVE  A \in T
    <2>1. PICK x \in A : TRUE
      BY <1>2
    <2> DEFINE B == A \ {x}
               p == owner[x]
    <2>2. x \in S /\ p \in P /\ IsFiniteSet(A) /\ f[x] \in Nat
      BY FS_Subset
    <2>3. ASSUME NEW q \in P
          PROVE  Groups(A)[q] \in Nat /\ Groups(B)[q] \in Nat
      <3>1. Own(A, q) \in SUBSET S /\ Own(B, q) \in SUBSET S
        OBVIOUS
      <3> HIDE DEF Own
      <3>2. SumOver(f, Own(A, q)) \in Nat /\ SumOver(f, Own(B, q)) \in Nat
        BY <3>1, SumSubset
      <3> QED BY <3>2
    <2>4. ASSUME NEW q \in P \ {p}
          PROVE  Groups(A)[q] = Groups(B)[q]
      <3>1. Own(A, q) = Own(B, q)
        OBVIOUS
      <3> HIDE DEF Own
      <3> QED BY <3>1
    <2>5. Groups(A)[p] = f[x] + Groups(B)[p]
      <3>1. Own(A, p) \ {x} = Own(B, p) /\ x \in Own(A, p) /\ Own(A, p) \in SUBSET S
        OBVIOUS
      <3>2. IsFiniteSet(Own(A, p)) /\ \A y \in Own(A, p) : f[y] \in Nat
        BY <2>2, FS_Subset
      <3> HIDE DEF Own
      <3>3. SumOver(f, Own(A, p)) = f[x] + SumOver(f, Own(A, p) \ {x})
        BY <3>1, <3>2, SumRemove
      <3> QED BY <2>2, <3>1, <3>3
    <2>6. SumOver(f, A) = f[x] + SumOver(f, B) /\ SumOver(f, B) \in Nat
      BY <2>2, SumRemove
    <2>7. SumOver(Groups(B), P) = SumOver(f, B)
      BY <1>2
    <2> HIDE DEF Groups, B, p
    <2>8. SumOver(Groups(A), P) = SumOver(Groups(B), P) - Groups(B)[p] + Groups(A)[p]
      BY <2>2, <2>3, <2>4, SumUpdate
    <2>9. SumOver(Groups(A), P) = SumOver(f, A)
      BY <2>2, <2>3, <2>5, <2>6, <2>7, <2>8
    <2> QED BY <2>9 DEF Groups
  <1>3. T = SUBSET S
    <2> HIDE DEF T
    <2>1. T \in SUBSET SUBSET S
      BY DEF T
    <2> QED BY <1>1, <1>2, <2>1, SubsetInduction
  <1> QED BY <1>3
=============================================================================
