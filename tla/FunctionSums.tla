---------------------------- MODULE FunctionSums ----------------------------
(***************************************************************************)
(* Facts about SumFunctionOnSet, the sum of a function over a finite set   *)
(* of indices, for the books of an account (PolyBook, KalshiBook) and the  *)
(* stakes of a set of calls.                                               *)
(*                                                                         *)
(* The library defines a sum by recursion on the set and picks the next    *)
(* element with CHOOSE.  Its induction theorems have an operator as their  *)
(* parameter, which the provers cannot instantiate; so every induction     *)
(* below is by the least counterexample: the counterexamples are a set of  *)
(* subsets of S, inclusion is well founded on the subsets of a finite set, *)
(* and a counterexample with no smaller one is refuted (LeastSubset).      *)
(***************************************************************************)
EXTENDS Integers, Functions, FiniteSetTheorems, TLAPS

Pick(S) == CHOOSE x \in S : TRUE

\* The equation of the recursion inside SumFunctionOnSet(f, S).
IsSum(f, S, g) ==
  g = [T \in SUBSET S |-> IF T = {} THEN 0 ELSE f[Pick(T)] + g[T \ {Pick(T)}]]

LEMMA LeastSubset ==
  ASSUME NEW S, IsFiniteSet(S), NEW Bad, Bad \subseteq SUBSET S, Bad # {}
  PROVE  \E T \in Bad : \A U \in Bad : U \subseteq T => U = T
<1>1. IsWellFoundedOn(StrictSubsetOrdering(S), SUBSET S)
  BY FS_StrictSubsetOrderingWellFounded, FS_FiniteSubsetsOfFinite
<1>2. PICK T \in Bad : \A U \in Bad : <<U, T>> \notin StrictSubsetOrdering(S)
  BY <1>1, WFMin
<1> QED
  BY <1>2 DEF StrictSubsetOrdering

LEMMA PickIn == \A S : S # {} => Pick(S) \in S
BY DEF Pick

-----------------------------------------------------------------------------
(***************************************************************************)
(* The recursion is well defined: it has a solution on the subsets of any  *)
(* finite set, and two solutions agree where both are defined.             *)
(***************************************************************************)
LEMMA SumSolutionsAgree ==
  ASSUME NEW f, NEW S, IsFiniteSet(S), NEW T, NEW g, NEW h,
         IsSum(f, S, g), IsSum(f, T, h)
  PROVE  \A U : U \subseteq S /\ U \subseteq T => g[U] = h[U]
<1> DEFINE Bad == {U \in SUBSET S : U \subseteq T /\ g[U] # h[U]}
<1> SUFFICES ASSUME Bad # {} PROVE FALSE
  OBVIOUS
<1>1. PICK U \in Bad : \A V \in Bad : V \subseteq U => V = U
  <2>1. Bad \subseteq SUBSET S
    OBVIOUS
  <2> HIDE DEF Bad
  <2> QED
    BY <2>1, LeastSubset
<1>2. /\ g[U] = IF U = {} THEN 0 ELSE f[Pick(U)] + g[U \ {Pick(U)}]
      /\ h[U] = IF U = {} THEN 0 ELSE f[Pick(U)] + h[U \ {Pick(U)}]
  BY DEF IsSum
<1>3. U # {}
  BY <1>2
<1>4. g[U \ {Pick(U)}] = h[U \ {Pick(U)}]
  BY <1>1, <1>3, PickIn
<1> QED
  BY <1>2, <1>3, <1>4

Solution(f, S) == CHOOSE g : IsSum(f, S, g)

LEMMA SumSolutionExists ==
  ASSUME NEW f, NEW S, IsFiniteSet(S)
  PROVE  IsSum(f, S, Solution(f, S))
<1> DEFINE Bad == {T \in SUBSET S : ~IsSum(f, T, Solution(f, T))}
<1> SUFFICES ASSUME Bad # {} PROVE FALSE
  OBVIOUS
<1>1. PICK T \in Bad : \A U \in Bad : U \subseteq T => U = T
  <2>1. Bad \subseteq SUBSET S
    OBVIOUS
  <2> HIDE DEF Bad
  <2> QED
    BY <2>1, LeastSubset
<1>2. ASSUME NEW U, U \subseteq T, U # T
      PROVE  IsSum(f, U, Solution(f, U)) /\ IsFiniteSet(U)
  BY <1>1, <1>2, FS_Subset
<1> DEFINE Rest(U) == U \ {Pick(U)}
           g == [U \in SUBSET T |-> IF U = {} THEN 0
                                    ELSE f[Pick(U)] + Solution(f, Rest(U))[Rest(U)]]
<1>3. ASSUME NEW U, U \subseteq T, U # T
      PROVE  g[U] = Solution(f, U)[U]
  <2>1. Solution(f, U)[U] = IF U = {} THEN 0 ELSE f[Pick(U)] + Solution(f, U)[Rest(U)]
    BY <1>2, <1>3 DEF IsSum
  <2>2. Rest(U) \subseteq T /\ Rest(U) # T
    BY <1>3
  <2>3. Solution(f, U)[Rest(U)] = Solution(f, Rest(U))[Rest(U)]
    BY <1>2, <1>3, <2>2, SumSolutionsAgree
  <2> QED
    BY <1>3, <2>1, <2>3
<1>4. IsSum(f, T, g)
  <2>1. ASSUME NEW U \in SUBSET T, U # {}
        PROVE  g[Rest(U)] = Solution(f, Rest(U))[Rest(U)]
    BY <1>3, <2>1, PickIn
  <2> QED
    BY <2>1 DEF IsSum
<1> HIDE DEF g
<1> QED
  BY <1>1, <1>4 DEF Solution

LEMMA SumUnfold ==
  ASSUME NEW f, NEW S
  PROVE  SumFunctionOnSet(f, S) = Solution(f, S)[S]
BY DEF SumFunctionOnSet, FoldFunctionOnSet, MapThenFoldSet, Solution, IsSum, Pick

(***************************************************************************)
(* The sum over no index, and over the rest of the indices after the one   *)
(* that CHOOSE picks.                                                      *)
(***************************************************************************)
LEMMA SumEmpty == \A f : SumFunctionOnSet(f, {}) = 0
<1> TAKE f
<1>1. IsSum(f, {}, Solution(f, {}))
  BY SumSolutionExists, FS_EmptySet
<1> QED
  BY <1>1, SumUnfold DEF IsSum

LEMMA SumPick ==
  ASSUME NEW f, NEW S, IsFiniteSet(S), S # {}
  PROVE  SumFunctionOnSet(f, S) = f[Pick(S)] + SumFunctionOnSet(f, S \ {Pick(S)})
<1> DEFINE R == S \ {Pick(S)}
<1>1. IsFiniteSet(R) /\ R \subseteq S
  BY FS_Subset
<1>2. Solution(f, S)[S] = f[Pick(S)] + Solution(f, S)[R]
  <2>1. IsSum(f, S, Solution(f, S))
    BY SumSolutionExists
  <2> QED
    BY <2>1 DEF IsSum
<1>3. Solution(f, S)[R] = Solution(f, R)[R]
  BY <1>1, SumSolutionExists, SumSolutionsAgree
<1> QED
  BY <1>2, <1>3, SumUnfold

-----------------------------------------------------------------------------
(***************************************************************************)
(* The type of a sum.                                                      *)
(***************************************************************************)
LEMMA SumInt ==
  ASSUME NEW f, NEW S, IsFiniteSet(S), \A x \in S : f[x] \in Int
  PROVE  SumFunctionOnSet(f, S) \in Int
<1> DEFINE Bad == {T \in SUBSET S : SumFunctionOnSet(f, T) \notin Int}
<1> SUFFICES ASSUME Bad # {} PROVE FALSE
  OBVIOUS
<1>1. PICK T \in Bad : \A U \in Bad : U \subseteq T => U = T
  <2>1. Bad \subseteq SUBSET S
    OBVIOUS
  <2> HIDE DEF Bad
  <2> QED
    BY <2>1, LeastSubset
<1>2. T # {} /\ IsFiniteSet(T)
  <2>1. T # {}
    BY SumEmpty
  <2>2. IsFiniteSet(T)
    BY FS_Subset
  <2> QED
    BY <2>1, <2>2
<1>3. SumFunctionOnSet(f, T \ {Pick(T)}) \in Int
  BY <1>1, <1>2, PickIn
<1>4. f[Pick(T)] \in Int
  BY <1>2, PickIn
<1>5. SumFunctionOnSet(f, T) = f[Pick(T)] + SumFunctionOnSet(f, T \ {Pick(T)})
  BY <1>2, SumPick
<1> QED
  BY <1>3, <1>4, <1>5

LEMMA SumNat ==
  ASSUME NEW f, NEW S, IsFiniteSet(S), \A x \in S : f[x] \in Nat
  PROVE  SumFunctionOnSet(f, S) \in Nat
<1> DEFINE Bad == {T \in SUBSET S : SumFunctionOnSet(f, T) \notin Nat}
<1> SUFFICES ASSUME Bad # {} PROVE FALSE
  OBVIOUS
<1>1. PICK T \in Bad : \A U \in Bad : U \subseteq T => U = T
  <2>1. Bad \subseteq SUBSET S
    OBVIOUS
  <2> HIDE DEF Bad
  <2> QED
    BY <2>1, LeastSubset
<1>2. T # {} /\ IsFiniteSet(T)
  <2>1. T # {}
    BY SumEmpty
  <2>2. IsFiniteSet(T)
    BY FS_Subset
  <2> QED
    BY <2>1, <2>2
<1>3. SumFunctionOnSet(f, T \ {Pick(T)}) \in Nat
  BY <1>1, <1>2, PickIn
<1> QED
  BY <1>2, <1>3, SumPick, PickIn

(***************************************************************************)
(* A sum depends on the summands only.                                     *)
(***************************************************************************)
LEMMA SumSame ==
  ASSUME NEW f, NEW g, NEW S, IsFiniteSet(S), \A x \in S : f[x] = g[x]
  PROVE  SumFunctionOnSet(f, S) = SumFunctionOnSet(g, S)
<1> DEFINE Bad == {T \in SUBSET S : SumFunctionOnSet(f, T) # SumFunctionOnSet(g, T)}
<1> SUFFICES ASSUME Bad # {} PROVE FALSE
  OBVIOUS
<1>1. PICK T \in Bad : \A U \in Bad : U \subseteq T => U = T
  <2>1. Bad \subseteq SUBSET S
    OBVIOUS
  <2> HIDE DEF Bad
  <2> QED
    BY <2>1, LeastSubset
<1>2. T # {} /\ IsFiniteSet(T)
  <2>1. T # {}
    BY SumEmpty
  <2>2. IsFiniteSet(T)
    BY FS_Subset
  <2> QED
    BY <2>1, <2>2
<1>3. SumFunctionOnSet(f, T \ {Pick(T)}) = SumFunctionOnSet(g, T \ {Pick(T)})
  BY <1>1, <1>2, PickIn
<1> QED
  BY <1>2, <1>3, SumPick, PickIn

(***************************************************************************)
(* Any index may be taken out first: addition commutes.                    *)
(***************************************************************************)
LEMMA SumRemove ==
  ASSUME NEW f, NEW S, IsFiniteSet(S), \A x \in S : f[x] \in Int, NEW y \in S
  PROVE  SumFunctionOnSet(f, S) = f[y] + SumFunctionOnSet(f, S \ {y})
<1> DEFINE Bad == {T \in SUBSET S : \E x \in T :
                     SumFunctionOnSet(f, T) # f[x] + SumFunctionOnSet(f, T \ {x})}
<1> SUFFICES ASSUME Bad # {} PROVE FALSE
  OBVIOUS
<1>1. PICK T \in Bad : \A U \in Bad : U \subseteq T => U = T
  <2>1. Bad \subseteq SUBSET S
    OBVIOUS
  <2> HIDE DEF Bad
  <2> QED
    BY <2>1, LeastSubset
<1>2. PICK x \in T : SumFunctionOnSet(f, T) # f[x] + SumFunctionOnSet(f, T \ {x})
  OBVIOUS
<1> DEFINE z == Pick(T)
           R == (T \ {x}) \ {z}
<1>3. /\ z \in T
      /\ SumFunctionOnSet(f, T) = f[z] + SumFunctionOnSet(f, T \ {z})
  BY FS_Subset, SumPick, PickIn
<1>4. z # x
  BY <1>2, <1>3
<1>5. SumFunctionOnSet(f, T \ {z}) = f[x] + SumFunctionOnSet(f, R)
  <2>1. R = (T \ {z}) \ {x}
    OBVIOUS
  <2>2. SumFunctionOnSet(f, T \ {z}) = f[x] + SumFunctionOnSet(f, (T \ {z}) \ {x})
    BY <1>1, <1>3, <1>4
  <2> QED
    BY <2>1, <2>2
<1>6. SumFunctionOnSet(f, T \ {x}) = f[z] + SumFunctionOnSet(f, R)
  BY <1>1, <1>3, <1>4
<1>7. f[x] \in Int /\ f[z] \in Int /\ SumFunctionOnSet(f, R) \in Int
  <2>1. R \subseteq S /\ IsFiniteSet(R)
    BY FS_Subset
  <2> QED
    BY <1>3, <2>1, SumInt
<1> HIDE DEF R, z, Bad
<1> QED
  BY <1>2, <1>3, <1>5, <1>6, <1>7

LEMMA SumAdd ==
  ASSUME NEW f, NEW S, IsFiniteSet(S), NEW y, y \notin S,
         \A x \in S \cup {y} : f[x] \in Int
  PROVE  SumFunctionOnSet(f, S \cup {y}) = f[y] + SumFunctionOnSet(f, S)
<1>1. IsFiniteSet(S \cup {y}) /\ (S \cup {y}) \ {y} = S
  BY FS_AddElement
<1> QED
  BY <1>1, SumRemove

(***************************************************************************)
(* Assigning one position changes the book by the difference.              *)
(***************************************************************************)
LEMMA SumChange ==
  ASSUME NEW S, IsFiniteSet(S), NEW f, NEW g, NEW k \in S,
         \A x \in S : f[x] \in Int /\ g[x] \in Int,
         \A x \in S \ {k} : g[x] = f[x]
  PROVE  SumFunctionOnSet(g, S) = SumFunctionOnSet(f, S) - f[k] + g[k]
<1>1. IsFiniteSet(S \ {k})
  BY FS_Subset
<1>2. SumFunctionOnSet(g, S \ {k}) = SumFunctionOnSet(f, S \ {k})
  BY <1>1, SumSame
<1>3. SumFunctionOnSet(f, S) = f[k] + SumFunctionOnSet(f, S \ {k})
  BY SumRemove
<1>4. SumFunctionOnSet(g, S) = g[k] + SumFunctionOnSet(g, S \ {k})
  BY SumRemove
<1>5. SumFunctionOnSet(f, S \ {k}) \in Int
  BY <1>1, SumInt
<1> QED
  BY <1>2, <1>3, <1>4, <1>5

(***************************************************************************)
(* Nonnegative summands: fewer indices, no greater sum.                    *)
(***************************************************************************)
LEMMA SumSubset ==
  ASSUME NEW f, NEW S, IsFiniteSet(S), \A x \in S : f[x] \in Nat,
         NEW V, V \subseteq S
  PROVE  SumFunctionOnSet(f, V) <= SumFunctionOnSet(f, S)
<1> DEFINE Bad == {T \in SUBSET S : V \subseteq T /\
                     ~(SumFunctionOnSet(f, V) <= SumFunctionOnSet(f, T))}
<1> SUFFICES ASSUME Bad # {} PROVE FALSE
  OBVIOUS
<1>1. PICK T \in Bad : \A U \in Bad : U \subseteq T => U = T
  <2>1. Bad \subseteq SUBSET S
    OBVIOUS
  <2> HIDE DEF Bad
  <2> QED
    BY <2>1, LeastSubset
<1>2. IsFiniteSet(T) /\ IsFiniteSet(V)
  BY FS_Subset
<1>3. SumFunctionOnSet(f, V) \in Nat /\ SumFunctionOnSet(f, T) \in Nat
  BY <1>2, SumNat
<1>4. PICK x \in T : x \notin V
  BY <1>3
<1>5. SumFunctionOnSet(f, V) <= SumFunctionOnSet(f, T \ {x})
  BY <1>1, <1>4
<1>6. SumFunctionOnSet(f, T) = f[x] + SumFunctionOnSet(f, T \ {x})
  BY <1>2, SumRemove
<1>7. f[x] \in Nat /\ SumFunctionOnSet(f, T \ {x}) \in Nat
  <2>1. IsFiniteSet(T \ {x})
    BY <1>2, FS_Subset
  <2> QED
    BY <2>1, SumNat
<1>8. ~(SumFunctionOnSet(f, V) <= SumFunctionOnSet(f, T))
  OBVIOUS
<1> HIDE DEF Bad
<1> QED
  BY <1>3, <1>5, <1>6, <1>7, <1>8

(***************************************************************************)
(* A sum grows with its summands.                                          *)
(***************************************************************************)
LEMMA SumMonotone ==
  ASSUME NEW f, NEW g, NEW S, IsFiniteSet(S),
         \A x \in S : f[x] \in Int /\ g[x] \in Int /\ f[x] <= g[x]
  PROVE  SumFunctionOnSet(f, S) <= SumFunctionOnSet(g, S)
<1> DEFINE Bad == {T \in SUBSET S : ~(SumFunctionOnSet(f, T) <= SumFunctionOnSet(g, T))}
<1> SUFFICES ASSUME Bad # {} PROVE FALSE
  OBVIOUS
<1>1. PICK T \in Bad : \A U \in Bad : U \subseteq T => U = T
  <2>1. Bad \subseteq SUBSET S
    OBVIOUS
  <2> HIDE DEF Bad
  <2> QED
    BY <2>1, LeastSubset
<1>2. T # {} /\ IsFiniteSet(T)
  <2>1. T # {}
    BY SumEmpty
  <2>2. IsFiniteSet(T)
    BY FS_Subset
  <2> QED
    BY <2>1, <2>2
<1> DEFINE z == Pick(T)
<1>3. z \in T
  BY <1>2, PickIn
<1>4. SumFunctionOnSet(f, T \ {z}) <= SumFunctionOnSet(g, T \ {z})
  BY <1>1, <1>3
<1>5. /\ SumFunctionOnSet(f, T) = f[z] + SumFunctionOnSet(f, T \ {z})
      /\ SumFunctionOnSet(g, T) = g[z] + SumFunctionOnSet(g, T \ {z})
  BY <1>2, SumPick
<1>6. SumFunctionOnSet(f, T \ {z}) \in Int /\ SumFunctionOnSet(g, T \ {z}) \in Int
  <2>1. IsFiniteSet(T \ {z})
    BY <1>2, FS_Subset
  <2> QED
    BY <2>1, SumInt
<1>7. f[z] \in Int /\ g[z] \in Int /\ f[z] <= g[z]
  BY <1>3
<1>8. ~(SumFunctionOnSet(f, T) <= SumFunctionOnSet(g, T))
  OBVIOUS
<1> HIDE DEF z, Bad
<1> QED
  BY <1>4, <1>5, <1>6, <1>7, <1>8

(***************************************************************************)
(* Nothing to count.                                                       *)
(***************************************************************************)
LEMMA SumZero ==
  ASSUME NEW f, NEW S, IsFiniteSet(S), \A x \in S : f[x] = 0
  PROVE  SumFunctionOnSet(f, S) = 0
<1> DEFINE Bad == {T \in SUBSET S : SumFunctionOnSet(f, T) # 0}
<1> SUFFICES ASSUME Bad # {} PROVE FALSE
  OBVIOUS
<1>1. PICK T \in Bad : \A U \in Bad : U \subseteq T => U = T
  <2>1. Bad \subseteq SUBSET S
    OBVIOUS
  <2> HIDE DEF Bad
  <2> QED
    BY <2>1, LeastSubset
<1>2. T # {} /\ IsFiniteSet(T)
  <2>1. T # {}
    BY SumEmpty
  <2>2. IsFiniteSet(T)
    BY FS_Subset
  <2> QED
    BY <2>1, <2>2
<1>3. SumFunctionOnSet(f, T \ {Pick(T)}) = 0
  BY <1>1, <1>2, PickIn
<1> QED
  BY <1>2, <1>3, SumPick, PickIn
=============================================================================
