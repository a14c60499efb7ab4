------------------------- MODULE PresaleMathProofs -------------------------
(***************************************************************************)
(* The arithmetic that the other proofs cite: sums over finite sets, and   *)
(* what the helpers of PresaleMath return for every price, fee and amount. *)
(*                                                                         *)
(* SumFunction (of the Functions module) recurs over the subsets of the    *)
(* domain, one chosen element at a time.  Induction here is over finite    *)
(* sets and in first-order form: a property of subsets is the set of the   *)
(* subsets that have it, and a smallest subset without it exists because   *)
(* the strict subset ordering is well founded (FiniteSetTheorems,          *)
(* WellFoundedInduction).                                                  *)
(***************************************************************************)
EXTENDS PresaleMath, FiniteSetTheorems, TLAPS

---------------------------------------------------------------------------
(* Sums over finite sets *)

\* A set of sets that has the empty set and every subset of S of which it has
\* all the subsets with one element less has all the subsets of S.
LEMMA SubsetInduction ==
    ASSUME NEW S, IsFiniteSet(S), NEW Good, {} \in Good,
           \A T \in SUBSET S :
                T # {} /\ (\A x \in T : T \ {x} \in Good) => T \in Good
    PROVE  \A T \in SUBSET S : T \in Good
<1> DEFINE Bad == {T \in FiniteSubsetsOf(S) : T \notin Good}
<1>1. Bad = {}
  <2> SUFFICES ASSUME Bad # {} PROVE FALSE
    OBVIOUS
  <2>1. IsWellFoundedOn(StrictSubsetOrdering(S), FiniteSubsetsOf(S))
    BY FS_StrictSubsetOrderingWellFounded
  <2>2. Bad \subseteq FiniteSubsetsOf(S)
    OBVIOUS
  <2> HIDE DEF Bad
  <2>3. PICK T \in Bad : \A U \in Bad : <<U, T>> \notin StrictSubsetOrdering(S)
    BY <2>1, <2>2, WFMin
  <2> USE DEF Bad
  <2>4. T # {} /\ T \in SUBSET S /\ IsFiniteSet(T) /\ T \notin Good
    BY DEF FiniteSubsetsOf
  <2>5. PICK x \in T : T \ {x} \notin Good
    BY <2>4
  <2>6. IsFiniteSet(T \ {x})
    BY <2>4, FS_Subset
  <2>7. T \ {x} \in Bad
    BY <2>4, <2>5, <2>6 DEF FiniteSubsetsOf
  <2>8. <<T \ {x}, T>> \in StrictSubsetOrdering(S)
    BY <2>4, <2>5 DEF StrictSubsetOrdering
  <2> QED
    BY <2>3, <2>7, <2>8
<1> QED
  BY <1>1, FS_Subset DEF FiniteSubsetsOf

---------------------------------------------------------------------------
(* The sum over every subset *)

\* sum is the sum of f over each subset of S, whichever element is split off.
IsSum(sum, S, f) ==
    /\ sum \in [SUBSET S -> Int]
    /\ sum[{}] = 0
    /\ \A T \in SUBSET S : \A x \in T : sum[T] = f[x] + sum[T \ {x}]

\* Every integer function on a finite set has sums.
LEMMA SumExists ==
    ASSUME NEW S, IsFiniteSet(S), NEW f, \A x \in S : f[x] \in Int
    PROVE  \E sum : IsSum(sum, S, f)
<1> DEFINE Good == {T \in SUBSET S : \E sum : IsSum(sum, T, f)}
<1>1. {} \in Good
  <2> DEFINE none == [T \in SUBSET {} |-> 0]
  <2>1. IsSum(none, {}, f)
    BY DEF IsSum
  <2> HIDE DEF none
  <2> QED
    BY <2>1
<1>2. ASSUME NEW T \in SUBSET S, T # {}, \A x \in T : T \ {x} \in Good
      PROVE  T \in Good
  <2>0. PICK a \in T : TRUE
    BY <1>2
  <2> DEFINE R == T \ {a}
  <2>1. PICK sum : IsSum(sum, R, f)
    BY <1>2
  <2> DEFINE more == [U \in SUBSET T |->
                        IF a \in U THEN f[a] + sum[U \ {a}] ELSE sum[U]]
  <2>2. /\ sum \in [SUBSET R -> Int] /\ sum[{}] = 0
        /\ \A U \in SUBSET R : \A x \in U : sum[U] = f[x] + sum[U \ {x}]
    BY <2>1 DEF IsSum
  <2>3. \A U \in SUBSET T : U \ {a} \in SUBSET R /\ (a \notin U => U \in SUBSET R)
    OBVIOUS
  <2>4. f[a] \in Int
    BY <1>2
  <2>5. more \in [SUBSET T -> Int]
    BY <2>2, <2>3, <2>4
  <2>6. more[{}] = 0
    BY <2>2
  <2>7. ASSUME NEW U \in SUBSET T, NEW x \in U
        PROVE  more[U] = f[x] + more[U \ {x}]
    <3>1. f[x] \in Int /\ U \ {x} \in SUBSET T
      BY <2>7
    <3>2. CASE x = a
      BY <3>1, <3>2
    <3>3. CASE x # a /\ a \notin U
      BY <2>2, <2>3, <3>1, <3>3
    <3>4. CASE x # a /\ a \in U
      <4>1. more[U] = f[a] + sum[U \ {a}]
        BY <3>4
      <4>2. more[U \ {x}] = f[a] + sum[(U \ {x}) \ {a}]
        BY <3>1, <3>4
      <4>3. (U \ {x}) \ {a} = (U \ {a}) \ {x} /\ (U \ {a}) \ {x} \in SUBSET R
        OBVIOUS
      <4>4. sum[U \ {a}] = f[x] + sum[(U \ {a}) \ {x}]
        BY <2>2, <2>3, <3>4
      <4> DEFINE rest == sum[(U \ {a}) \ {x}]
      <4>5. rest \in Int /\ sum[(U \ {x}) \ {a}] = rest
        BY <2>2, <4>3
      <4>6. more[U] = f[a] + (f[x] + rest) /\ more[U \ {x}] = f[a] + rest
        BY <4>1, <4>2, <4>4, <4>5
      <4> HIDE DEF more, rest
      <4> QED
        BY <4>5, <4>6, <2>4, <3>1
    <3> QED
      BY <3>2, <3>3, <3>4
  <2>8. IsSum(more, T, f)
    <3> HIDE DEF more
    <3> QED
      BY <2>5, <2>6, <2>7 DEF IsSum
  <2> QED
    BY <2>8
<1>3. \A T \in SUBSET S : T \in Good
  <2> HIDE DEF Good
  <2> QED
    BY <1>1, <1>2, SubsetInduction
<1> QED
  BY <1>3

\* The recursive definition computes it.
LEMMA SumIsRecursive ==
    ASSUME NEW S, IsFiniteSet(S), NEW f, NEW sum, IsSum(sum, S, f),
           NEW T \in SUBSET S
    PROVE  SumFunctionOnSet(f, T) = sum[T]
<1> DEFINE pick(U) == CHOOSE x \in U : TRUE
           step(it) == [U \in SUBSET T |->
                          IF U = {} THEN 0 ELSE f[pick(U)] + it[U \ {pick(U)}]]
           iter == CHOOSE it : it = step(it)
           ours == [U \in SUBSET T |-> sum[U]]
<1>1. SumFunctionOnSet(f, T) = iter[T]
  BY DEF SumFunctionOnSet, FoldFunctionOnSet, MapThenFoldSet
<1>2. \A U \in SUBSET T : U # {} => pick(U) \in U
  OBVIOUS
<1>3. /\ sum \in [SUBSET S -> Int] /\ sum[{}] = 0
      /\ \A U \in SUBSET S : \A x \in U : sum[U] = f[x] + sum[U \ {x}]
  BY DEF IsSum
<1> HIDE DEF pick
<1>4. ours = step(ours)
  <2>1. ASSUME NEW U \in SUBSET T
        PROVE  sum[U] = IF U = {} THEN 0 ELSE f[pick(U)] + ours[U \ {pick(U)}]
    BY <1>2, <1>3
  <2> QED
    BY <2>1
<1>5. iter = step(iter)
  <2> HIDE DEF step, ours
  <2> QED
    BY <1>4
<1> HIDE DEF iter, ours
<1> DEFINE Good == {U \in SUBSET T : iter[U] = sum[U]}
<1>6. {} \in Good
  BY <1>3, <1>5
<1>7. ASSUME NEW U \in SUBSET T, U # {}, \A x \in U : U \ {x} \in Good
      PROVE  U \in Good
  <2>1. iter[U] = f[pick(U)] + iter[U \ {pick(U)}]
    BY <1>5, <1>7
  <2>2. iter[U \ {pick(U)}] = sum[U \ {pick(U)}]
    BY <1>2, <1>7
  <2>3. sum[U] = f[pick(U)] + sum[U \ {pick(U)}]
    BY <1>2, <1>3, <1>7
  <2> QED
    BY <2>1, <2>2, <2>3
<1>8. T \in Good
  <2> HIDE DEF Good
  <2> QED
    BY <1>6, <1>7, FS_Subset, SubsetInduction
<1> QED
  BY <1>1, <1>8

---------------------------------------------------------------------------
(* What the proofs use *)

\* The sum over a subset is that of any of its elements and the rest.
LEMMA SumSplit ==
    ASSUME NEW S, IsFiniteSet(S), NEW f, \A x \in S : f[x] \in Int
    PROVE  /\ SumFunctionOnSet(f, {}) = 0
           /\ \A T \in SUBSET S : SumFunctionOnSet(f, T) \in Int
           /\ \A T \in SUBSET S : \A x \in T :
                SumFunctionOnSet(f, T) = f[x] + SumFunctionOnSet(f, T \ {x})
<1>1. PICK sum : IsSum(sum, S, f)
  BY SumExists
<1>2. \A T \in SUBSET S : SumFunctionOnSet(f, T) = sum[T]
  BY <1>1, SumIsRecursive
<1>3. /\ sum \in [SUBSET S -> Int] /\ sum[{}] = 0
      /\ \A T \in SUBSET S : \A x \in T : sum[T] = f[x] + sum[T \ {x}]
  BY <1>1 DEF IsSum
<1>4. {} \in SUBSET S /\ \A T \in SUBSET S : \A x \in T : T \ {x} \in SUBSET S
  OBVIOUS
<1> QED
  BY <1>2, <1>3, <1>4

\* The sum of integers is an integer, of naturals a natural number.
LEMMA SumInt ==
    ASSUME NEW S, IsFiniteSet(S), NEW f \in [S -> Int]
    PROVE  SumFunction(f) \in Int /\ SumFunction(f) = SumFunctionOnSet(f, S)
<1>1. SumFunction(f) = SumFunctionOnSet(f, S)
  BY DEF SumFunction
<1>2. SumFunctionOnSet(f, S) \in Int
  BY SumSplit
<1> QED
  BY <1>1, <1>2

\* Sums are added element by element.
LEMMA SumPlus ==
    ASSUME NEW S, IsFiniteSet(S),
           NEW f \in [S -> Int], NEW g \in [S -> Int], NEW h \in [S -> Int],
           \A x \in S : h[x] = f[x] + g[x]
    PROVE  SumFunction(h) = SumFunction(f) + SumFunction(g)
<1> DEFINE F(T) == SumFunctionOnSet(f, T)
           G(T) == SumFunctionOnSet(g, T)
           H(T) == SumFunctionOnSet(h, T)
           Good == {T \in SUBSET S : H(T) = F(T) + G(T)}
<1>1. /\ F({}) = 0 /\ G({}) = 0 /\ H({}) = 0
      /\ \A T \in SUBSET S : F(T) \in Int /\ G(T) \in Int /\ H(T) \in Int
      /\ \A T \in SUBSET S : \A x \in T : /\ F(T) = f[x] + F(T \ {x})
                                         /\ G(T) = g[x] + G(T \ {x})
                                         /\ H(T) = h[x] + H(T \ {x})
  BY SumSplit
<1> HIDE DEF F, G, H
<1>2. {} \in Good
  BY <1>1
<1>3. ASSUME NEW T \in SUBSET S, T # {}, \A x \in T : T \ {x} \in Good
      PROVE  T \in Good
  <2>1. PICK x \in T : TRUE
    BY <1>3
  <2>2. T \ {x} \in SUBSET S /\ H(T \ {x}) = F(T \ {x}) + G(T \ {x})
    BY <1>3
  <2>3. /\ F(T) = f[x] + F(T \ {x}) /\ F(T \ {x}) \in Int
        /\ G(T) = g[x] + G(T \ {x}) /\ G(T \ {x}) \in Int
        /\ H(T) = h[x] + H(T \ {x})
        /\ f[x] \in Int /\ g[x] \in Int /\ h[x] = f[x] + g[x]
    BY <1>1, <2>2
  <2> QED
    BY <2>2, <2>3
<1>4. \A T \in SUBSET S : T \in Good
  <2> HIDE DEF Good
  <2> QED
    BY <1>2, <1>3, SubsetInduction
<1> QED
  BY <1>4, SumInt DEF F, G, H

\* A sum grows with its terms.
LEMMA SumMonotone ==
    ASSUME NEW S, IsFiniteSet(S), NEW f \in [S -> Int], NEW g \in [S -> Int],
           \A x \in S : f[x] <= g[x]
    PROVE  SumFunction(f) <= SumFunction(g)
<1> DEFINE F(T) == SumFunctionOnSet(f, T)
           G(T) == SumFunctionOnSet(g, T)
           Good == {T \in SUBSET S : F(T) <= G(T)}
<1>1. /\ F({}) = 0 /\ G({}) = 0
      /\ \A T \in SUBSET S : F(T) \in Int /\ G(T) \in Int
      /\ \A T \in SUBSET S : \A x \in T : /\ F(T) = f[x] + F(T \ {x})
                                         /\ G(T) = g[x] + G(T \ {x})
  BY SumSplit
<1> HIDE DEF F, G
<1>2. {} \in Good
  BY <1>1
<1>3. ASSUME NEW T \in SUBSET S, T # {}, \A x \in T : T \ {x} \in Good
      PROVE  T \in Good
  <2>1. PICK x \in T : TRUE
    BY <1>3
  <2>2. T \ {x} \in SUBSET S /\ F(T \ {x}) <= G(T \ {x})
    BY <1>3
  <2>3. /\ F(T) = f[x] + F(T \ {x}) /\ F(T \ {x}) \in Int
        /\ G(T) = g[x] + G(T \ {x}) /\ G(T \ {x}) \in Int
        /\ f[x] \in Int /\ g[x] \in Int /\ f[x] <= g[x]
    BY <1>1, <2>2
  <2> QED
    BY <2>2, <2>3
<1>4. \A T \in SUBSET S : T \in Good
  <2> HIDE DEF Good
  <2> QED
    BY <1>2, <1>3, SubsetInduction
<1> QED
  BY <1>4, SumInt DEF F, G

\* A common factor can be taken out.
LEMMA SumScaled ==
    ASSUME NEW S, IsFiniteSet(S), NEW f \in [S -> Int], NEW g \in [S -> Int],
           NEW c \in Int, \A x \in S : g[x] = c * f[x]
    PROVE  SumFunction(g) = c * SumFunction(f)
<1> DEFINE F(T) == SumFunctionOnSet(f, T)
           G(T) == SumFunctionOnSet(g, T)
           Good == {T \in SUBSET S : G(T) = c * F(T)}
<1>1. /\ F({}) = 0 /\ G({}) = 0
      /\ \A T \in SUBSET S : F(T) \in Int /\ G(T) \in Int
      /\ \A T \in SUBSET S : \A x \in T : /\ F(T) = f[x] + F(T \ {x})
                                         /\ G(T) = g[x] + G(T \ {x})
  BY SumSplit
<1> HIDE DEF F, G
<1>2. {} \in Good
  BY <1>1
<1>3. ASSUME NEW T \in SUBSET S, T # {}, \A x \in T : T \ {x} \in Good
      PROVE  T \in Good
  <2>1. PICK x \in T : TRUE
    BY <1>3
  <2>2. T \ {x} \in SUBSET S /\ G(T \ {x}) = c * F(T \ {x})
    BY <1>3
  <2>3. /\ F(T) = f[x] + F(T \ {x}) /\ F(T \ {x}) \in Int
        /\ G(T) = g[x] + G(T \ {x})
        /\ f[x] \in Int /\ g[x] = c * f[x]
    BY <1>1, <2>2
  <2>4. c * (f[x] + F(T \ {x})) = c * f[x] + c * F(T \ {x})
    BY <2>3
  <2> QED
    BY <2>2, <2>3, <2>4
<1>4. \A T \in SUBSET S : T \in Good
  <2> HIDE DEF Good
  <2> QED
    BY <1>2, <1>3, SubsetInduction
<1> QED
  BY <1>4, SumInt DEF F, G

\* The sum of equal terms.
LEMMA SumConstant ==
    ASSUME NEW S, IsFiniteSet(S), NEW f \in [S -> Int], NEW c \in Int,
           \A x \in S : f[x] = c
    PROVE  SumFunction(f) = c * Cardinality(S)
<1> DEFINE F(T) == SumFunctionOnSet(f, T)
           Good == {T \in SUBSET S : F(T) = c * Cardinality(T)}
<1>1. /\ F({}) = 0
      /\ \A T \in SUBSET S : \A x \in T : F(T) = f[x] + F(T \ {x})
  BY SumSplit
<1>0. \A T \in SUBSET S : F(T) \in Int
  BY SumSplit
<1> HIDE DEF F
<1>2. {} \in Good
  BY <1>1, FS_EmptySet
<1>3. ASSUME NEW T \in SUBSET S, T # {}, \A x \in T : T \ {x} \in Good
      PROVE  T \in Good
  <2>1. PICK x \in T : TRUE
    BY <1>3
  <2>2. T \ {x} \in SUBSET S /\ F(T \ {x}) = c * Cardinality(T \ {x})
    BY <1>3
  <2>3. F(T) = f[x] + F(T \ {x}) /\ f[x] = c
    BY <1>1, <2>2
  <2>4. IsFiniteSet(T)
    BY FS_Subset
  <2>5. /\ Cardinality(T \ {x}) = Cardinality(T) - 1
        /\ Cardinality(T) \in Nat
    BY <2>4, FS_RemoveElement, FS_CardinalityType
  <2> DEFINE n == Cardinality(T)
  <2>6. F(T) = c + c * (n - 1) /\ n \in Nat
    BY <2>2, <2>3, <2>5
  <2> HIDE DEF n
  <2>7. F(T) = c * n
    BY <2>6
  <2> QED
    BY <2>7 DEF n
<1>4. \A T \in SUBSET S : T \in Good
  <2> HIDE DEF Good
  <2> QED
    BY <1>2, <1>3, SubsetInduction
<1> QED
  BY <1>4, SumInt DEF F

\* Terms that are zero do not count.
LEMMA SumSupport ==
    ASSUME NEW S, IsFiniteSet(S), NEW R \in SUBSET S,
           NEW f \in [R -> Int], NEW g \in [S -> Int],
           \A x \in S : g[x] = IF x \in R THEN f[x] ELSE 0
    PROVE  SumFunction(g) = SumFunction(f)
<1> DEFINE F(T) == SumFunctionOnSet(f, T)
           G(T) == SumFunctionOnSet(g, T)
           Good == {T \in SUBSET S : G(T) = F(T \cap R)}
<1>0. IsFiniteSet(R)
  BY FS_Subset
<1>1. /\ F({}) = 0 /\ G({}) = 0
      /\ \A T \in SUBSET R : F(T) \in Int
      /\ \A T \in SUBSET S : G(T) \in Int
      /\ \A T \in SUBSET R : \A x \in T : F(T) = f[x] + F(T \ {x})
      /\ \A T \in SUBSET S : \A x \in T : G(T) = g[x] + G(T \ {x})
  BY <1>0, SumSplit
<1> HIDE DEF F, G
<1>2. {} \in Good
  <2>1. {} \cap R = {}
    OBVIOUS
  <2> QED
    BY <1>1, <2>1
<1>3. ASSUME NEW T \in SUBSET S, T # {}, \A x \in T : T \ {x} \in Good
      PROVE  T \in Good
  <2>1. PICK x \in T : TRUE
    BY <1>3
  <2>2. T \ {x} \in SUBSET S /\ G(T \ {x}) = F((T \ {x}) \cap R)
    BY <1>3
  <2>3. G(T) = g[x] + G(T \ {x}) /\ G(T \ {x}) \in Int
    BY <1>1, <2>2
  <2>4. CASE x \in R
    <3>1. (T \ {x}) \cap R = (T \cap R) \ {x} /\ x \in T \cap R
      BY <2>4
    <3>2. F(T \cap R) = f[x] + F((T \cap R) \ {x})
      BY <1>1, <3>1
    <3>3. F((T \ {x}) \cap R) = F((T \cap R) \ {x})
      BY <3>1
    <3> QED
      BY <2>2, <2>3, <2>4, <3>2, <3>3
  <2>5. CASE x \notin R
    <3>1. (T \ {x}) \cap R = T \cap R
      BY <2>5
    <3>2. F((T \ {x}) \cap R) = F(T \cap R)
      BY <3>1
    <3> QED
      BY <2>2, <2>3, <2>5, <3>2
  <2> QED
    BY <2>4, <2>5
<1>4. \A T \in SUBSET S : T \in Good
  <2> HIDE DEF Good
  <2> QED
    BY <1>2, <1>3, SubsetInduction
<1>5. S \cap R = R
  OBVIOUS
<1>6. G(S) = F(R)
  BY <1>4, <1>5
<1> QED
  BY <1>0, <1>6, SumInt DEF F, G

\* A sum with one term other than zero.
LEMMA SumOne ==
    ASSUME NEW S, IsFiniteSet(S), NEW f \in [S -> Int], NEW a \in S,
           \A x \in S : x # a => f[x] = 0
    PROVE  SumFunction(f) = f[a]
<1> DEFINE one == [x \in {a} |-> f[a]]
<1>1. /\ {a} \in SUBSET S /\ one \in [{a} -> Int] /\ f[a] \in Int
      /\ \A x \in S : f[x] = IF x \in {a} THEN one[x] ELSE 0
      /\ \A x \in {a} : one[x] = f[a]
  OBVIOUS
<1> HIDE DEF one
<1>2. SumFunction(f) = SumFunction(one)
  BY <1>1, SumSupport
<1>3. IsFiniteSet({a}) /\ Cardinality({a}) = 1
  BY FS_Singleton
<1>4. SumFunction(one) = f[a] * Cardinality({a})
  BY <1>1, <1>3, SumConstant
<1> QED
  BY <1>1, <1>2, <1>3, <1>4

\* A sum changes by as much as one of its terms.
LEMMA SumChange ==
    ASSUME NEW S, IsFiniteSet(S), NEW f \in [S -> Int], NEW g \in [S -> Int],
           NEW a \in S, \A x \in S : x # a => g[x] = f[x]
    PROVE  SumFunction(g) = SumFunction(f) + (g[a] - f[a])
<1> DEFINE d == [x \in S |-> IF x = a THEN g[a] - f[a] ELSE 0]
<1>1. /\ d \in [S -> Int] /\ d[a] = g[a] - f[a]
      /\ \A x \in S : x # a => d[x] = 0
      /\ \A x \in S : g[x] = f[x] + d[x]
  OBVIOUS
<1> HIDE DEF d
<1>2. SumFunction(d) = g[a] - f[a]
  BY <1>1, SumOne
<1>3. SumFunction(g) = SumFunction(f) + SumFunction(d)
  <2>1. \A x \in S : g[x] = f[x] + d[x]
    BY <1>1
  <2>2. d \in [S -> Int]
    BY <1>1
  <2> QED
    BY <2>1, <2>2, SumPlus
<1> QED
  BY <1>2, <1>3

\* Terms that are all zero, or all natural numbers, and what each of them is to
\* the sum.
LEMMA SumZero ==
    ASSUME NEW S, IsFiniteSet(S), NEW f \in [S -> Int], \A x \in S : f[x] = 0
    PROVE  SumFunction(f) = 0
<1>1. SumFunction(f) = 0 * Cardinality(S)
  BY SumConstant
<1>2. Cardinality(S) \in Nat
  BY FS_CardinalityType
<1> QED
  BY <1>1, <1>2

LEMMA SumPart ==
    ASSUME NEW S, IsFiniteSet(S), NEW f \in [S -> Nat]
    PROVE  /\ SumFunction(f) \in Nat
           /\ \A a \in S : f[a] <= SumFunction(f)
<1> DEFINE none == [x \in S |-> 0]
<1>1. f \in [S -> Int] /\ none \in [S -> Int]
  OBVIOUS
<1>2. SumFunction(none) = 0 /\ SumFunction(none) <= SumFunction(f)
  BY <1>1, SumZero, SumMonotone
<1>3. SumFunction(f) \in Int
  BY <1>1, SumInt
<1>4. ASSUME NEW a \in S PROVE f[a] <= SumFunction(f)
  <2> DEFINE one == [x \in S |-> IF x = a THEN f[a] ELSE 0]
  <2>1. /\ one \in [S -> Int] /\ one[a] = f[a]
        /\ \A x \in S : x # a => one[x] = 0
        /\ \A x \in S : one[x] <= f[x]
    OBVIOUS
  <2> HIDE DEF one
  <2>2. SumFunction(one) = f[a]
    BY <2>1, SumOne
  <2>3. SumFunction(one) <= SumFunction(f)
    BY <1>1, <2>1, SumMonotone
  <2> QED
    BY <2>2, <2>3
<1> QED
  BY <1>2, <1>3, <1>4

\* A sum over pairs is the sum of the sums of its columns.
LEMMA SumByColumn ==
    ASSUME NEW A, IsFiniteSet(A), NEW B, IsFiniteSet(B),
           NEW f \in [A \X B -> Int],
           NEW column \in [B -> Int],
           \A b \in B : column[b] = SumFunction([a \in A |-> f[<<a, b>>]])
    PROVE  SumFunction(f) = SumFunction(column)
<1> DEFINE F(P) == SumFunctionOnSet(f, P)
           C(T) == SumFunctionOnSet(column, T)
           of(b) == [a \in A |-> f[<<a, b>>]]
           Good == {T \in SUBSET B : F(A \X T) = C(T)}
<1>1. IsFiniteSet(A \X B)
  BY FS_Product
<1>2. /\ F({}) = 0 /\ C({}) = 0
      /\ \A P \in SUBSET (A \X B) : F(P) \in Int
      /\ \A T \in SUBSET B : C(T) \in Int
      /\ \A P \in SUBSET (A \X B) : \A k \in P : F(P) = f[k] + F(P \ {k})
      /\ \A T \in SUBSET B : \A b \in T : C(T) = column[b] + C(T \ {b})
  BY <1>1, SumSplit
<1> HIDE DEF F, C
<1>3. {} \in Good
  <2>1. A \X {} = {}
    OBVIOUS
  <2> QED
    BY <1>2, <2>1
<1>4. ASSUME NEW T \in SUBSET B, NEW b \in T
      PROVE  F(A \X T) = F(A \X (T \ {b})) + column[b]
  <2> DEFINE R(U) == SumFunctionOnSet(of(b), U)
             P(U) == (A \X (T \ {b})) \cup (U \X {b})
             Fine == {U \in SUBSET A : F(P(U)) = F(A \X (T \ {b})) + R(U)}
  <2>1. /\ R({}) = 0
        /\ \A U \in SUBSET A : R(U) \in Int
        /\ \A U \in SUBSET A : \A a \in U : R(U) = of(b)[a] + R(U \ {a})
    <3>1. \A a \in A : of(b)[a] \in Int
      OBVIOUS
    <3> HIDE DEF of
    <3> QED
      BY <3>1, SumSplit
  <2>2. of(b) \in [A -> Int] /\ \A a \in A : of(b)[a] = f[<<a, b>>]
    OBVIOUS
  <2> HIDE DEF R, of
  <2>3. {} \in Fine
    <3>1. P({}) = A \X (T \ {b}) /\ A \X (T \ {b}) \in SUBSET (A \X B)
      OBVIOUS
    <3>2. F(P({})) = F(A \X (T \ {b})) /\ F(A \X (T \ {b})) \in Int
      BY <3>1, <1>2
    <3> QED
      BY <2>1, <3>2
  <2>4. ASSUME NEW U \in SUBSET A, U # {}, \A a \in U : U \ {a} \in Fine
        PROVE  U \in Fine
    <3>1. PICK a \in U : TRUE
      BY <2>4
    <3>2. /\ P(U) \in SUBSET (A \X B) /\ <<a, b>> \in P(U)
          /\ P(U) \ {<<a, b>>} = P(U \ {a})
          /\ P(U \ {a}) \in SUBSET (A \X B)
          /\ A \X (T \ {b}) \in SUBSET (A \X B)
      OBVIOUS
    <3>3. F(P(U)) = f[<<a, b>>] + F(P(U) \ {<<a, b>>})
      BY <1>2, <3>2
    <3>4. F(P(U) \ {<<a, b>>}) = F(P(U \ {a}))
      BY <3>2
    <3>5. F(P(U \ {a})) = F(A \X (T \ {b})) + R(U \ {a})
      BY <2>4
    <3>6. /\ R(U) = f[<<a, b>>] + R(U \ {a})
          /\ R(U \ {a}) \in Int /\ f[<<a, b>>] \in Int
          /\ F(A \X (T \ {b})) \in Int
      BY <1>2, <2>1, <2>2, <3>2
    <3> HIDE DEF P
    <3> QED
      BY <3>3, <3>4, <3>5, <3>6
  <2>5. \A U \in SUBSET A : U \in Fine
    <3> HIDE DEF Fine
    <3> QED
      BY <2>3, <2>4, SubsetInduction
  <2>6. P(A) = A \X T
    OBVIOUS
  <2>7. F(A \X T) = F(A \X (T \ {b})) + R(A)
    BY <2>5, <2>6
  <2>8. R(A) = column[b]
    <3>1. SumFunction(of(b)) = R(A)
      BY <2>2, SumInt DEF R
    <3>2. column[b] = SumFunction(of(b))
      BY DEF of
    <3> QED
      BY <3>1, <3>2
  <2> QED
    BY <2>7, <2>8
<1>5. ASSUME NEW T \in SUBSET B, T # {}, \A b \in T : T \ {b} \in Good
      PROVE  T \in Good
  <2>1. PICK b \in T : TRUE
    BY <1>5
  <2>2. F(A \X (T \ {b})) = C(T \ {b}) /\ C(T \ {b}) \in Int
    BY <1>2, <1>5
  <2>3. F(A \X T) = F(A \X (T \ {b})) + column[b]
    BY <1>4
  <2>4. C(T) = column[b] + C(T \ {b}) /\ column[b] \in Int
    BY <1>2
  <2> QED
    BY <2>2, <2>3, <2>4
<1>6. \A T \in SUBSET B : T \in Good
  <2> HIDE DEF Good
  <2> QED
    BY <1>3, <1>5, SubsetInduction
<1>7. F(A \X B) = C(B)
  BY <1>6
<1> QED
  BY <1>1, <1>7, SumInt DEF F, C

---------------------------------------------------------------------------
(* Integer division *)

\* Products of naturals keep an order.
LEMMA ProductMonotone ==
    ASSUME NEW a \in Nat, NEW b \in Nat, NEW k \in Nat, a <= b
    PROVE  a * k <= b * k
BY SMT

\* A common positive factor cancels.
LEMMA ProductCancels ==
    ASSUME NEW a \in Nat, NEW b \in Nat, NEW k \in Nat \ {0}, a * k <= b * k
    PROVE  a <= b
<1>1. ASSUME b + 1 <= a PROVE FALSE
  <2>1. (b + 1) * k <= a * k
    BY <1>1, ProductMonotone
  <2> QED
    BY <2>1
<1> QED
  BY <1>1

\* The quotient is the floor of the exact one.
LEMMA FloorProperty ==
    ASSUME NEW x \in Nat, NEW y \in Nat \ {0}
    PROVE  /\ x \div y \in Nat
           /\ (x \div y) * y <= x
           /\ x < (x \div y) * y + y
BY SMT

\* It is at least every number whose multiple fits.
LEMMA FloorIsGreatest ==
    ASSUME NEW x \in Nat, NEW y \in Nat \ {0}, NEW k \in Nat, k * y <= x
    PROVE  k <= x \div y
<1> DEFINE d == x \div y
<1>1. d \in Nat /\ x < d * y + y
  BY FloorProperty
<1> HIDE DEF d
<1>2. ASSUME d + 1 <= k PROVE FALSE
  <2>1. (d + 1) * y <= k * y
    BY <1>1, <1>2, ProductMonotone
  <2> QED
    BY <2>1, <1>1
<1> QED
  BY <1>1, <1>2 DEF d

\* It is below every number whose multiple does not fit.
LEMMA FloorIsBelow ==
    ASSUME NEW x \in Nat, NEW y \in Nat \ {0}, NEW k \in Nat, x < k * y
    PROVE  x \div y < k
<1> DEFINE d == x \div y
<1>1. d \in Nat /\ d * y <= x
  BY FloorProperty
<1> HIDE DEF d
<1>2. ASSUME k <= d PROVE FALSE
  <2>1. k * y <= d * y
    BY <1>1, <1>2, ProductMonotone
  <2> QED
    BY <2>1, <1>1
<1> QED
  BY <1>1, <1>2 DEF d

\* A greater dividend has no smaller quotient.
LEMMA FloorMonotone ==
    ASSUME NEW x \in Nat, NEW z \in Nat, NEW y \in Nat \ {0}, x <= z
    PROVE  x \div y <= z \div y
<1>1. x \div y \in Nat /\ (x \div y) * y <= z
  <2> DEFINE d == x \div y
  <2>1. d \in Nat /\ d * y <= x
    BY FloorProperty
  <2> HIDE DEF d
  <2>2. d * y <= z
    BY <2>1
  <2> QED
    BY <2>1, <2>2 DEF d
<1> QED
  BY <1>1, FloorIsGreatest

\* Two amounts divided apart give no more than divided together.
LEMMA FloorOfSum ==
    ASSUME NEW x \in Nat, NEW z \in Nat, NEW y \in Nat \ {0}
    PROVE  x \div y + z \div y <= (x + z) \div y
<1> DEFINE a == x \div y
           b == z \div y
<1>1. a \in Nat /\ a * y <= x /\ b \in Nat /\ b * y <= z
  BY FloorProperty
<1> HIDE DEF a, b
<1>2. a + b \in Nat /\ (a + b) * y <= x + z
  BY <1>1
<1>3. a + b <= (x + z) \div y
  BY <1>2, FloorIsGreatest
<1> QED
  BY <1>3 DEF a, b

\* Divided together, two amounts give at most one more than divided apart.
LEMMA FloorOfSumAtMost ==
    ASSUME NEW x \in Nat, NEW z \in Nat, NEW y \in Nat \ {0}
    PROVE  (x + z) \div y <= x \div y + z \div y + 1
<1> DEFINE a == x \div y
           b == z \div y
<1>1. a \in Nat /\ x < a * y + y /\ b \in Nat /\ z < b * y + y
  BY FloorProperty
<1> HIDE DEF a, b
<1>2. x + z \in Nat /\ a + b + 2 \in Nat /\ x + z < (a + b + 2) * y
  BY <1>1
<1>3. (x + z) \div y \in Nat /\ (x + z) \div y < a + b + 2
  BY <1>2, FloorProperty, FloorIsBelow
<1> QED
  BY <1>1, <1>3 DEF a, b

\* CeilDiv is the ceiling of the exact quotient.
LEMMA CeilProperty ==
    ASSUME NEW x \in Nat, NEW y \in Nat \ {0}
    PROVE  /\ CeilDiv(x, y) \in Nat
           /\ x <= CeilDiv(x, y) * y
           /\ CeilDiv(x, y) * y < x + y
<1> DEFINE c == CeilDiv(x, y)
<1>1. x + y - 1 \in Nat
  OBVIOUS
<1>2. c \in Nat /\ c * y <= x + y - 1 /\ x + y - 1 < c * y + y
  BY <1>1, FloorProperty DEF CeilDiv
<1> HIDE DEF c
<1>3. c \in Nat /\ x <= c * y /\ c * y < x + y
  BY <1>2
<1> QED
  BY <1>3 DEF c

\* It is at most every number whose multiple suffices.
LEMMA CeilIsLeast ==
    ASSUME NEW x \in Nat, NEW y \in Nat \ {0}, NEW k \in Nat, x <= k * y
    PROVE  CeilDiv(x, y) <= k
<1>1. x + y - 1 \in Nat /\ x + y - 1 < (k + 1) * y
  OBVIOUS
<1>2. (x + y - 1) \div y < k + 1
  BY <1>1, FloorIsBelow
<1>3. (x + y - 1) \div y \in Nat
  BY <1>1, FloorProperty
<1> QED
  BY <1>2, <1>3 DEF CeilDiv

\* No smaller number suffices.
LEMMA BelowCeil ==
    ASSUME NEW x \in Nat, NEW y \in Nat \ {0}, NEW k \in Nat, k < CeilDiv(x, y)
    PROVE  k * y < x
BY CeilIsLeast, CeilProperty

---------------------------------------------------------------------------
(* Buying and paying at a q-price *)

\* The scale of the q-prices is a positive natural.
LEMMA ScalePositive == Scale \in Nat \ {0}
BY ScaleAssumption

\* BaseBought is the greatest number of base lamports whose price is paid.
LEMMA BaseBoughtProperty ==
    ASSUME NEW x \in Nat, NEW q \in Nat \ {0}
    PROVE  /\ BaseBought(x, q) \in Nat
           /\ BaseBought(x, q) * q <= x * Scale
           /\ x * Scale < BaseBought(x, q) * q + q
<1>1. x * Scale \in Nat
  BY ScalePositive
<1> QED
  BY <1>1, FloorProperty DEF BaseBought

\* More quote buys no less base.
LEMMA BaseBoughtMonotone ==
    ASSUME NEW x \in Nat, NEW z \in Nat, NEW q \in Nat \ {0}, x <= z
    PROVE  BaseBought(x, q) <= BaseBought(z, q)
<1>1. x * Scale \in Nat /\ z * Scale \in Nat /\ x * Scale <= z * Scale
  BY ScalePositive, ProductMonotone
<1> QED
  BY <1>1, FloorMonotone DEF BaseBought

\* QuoteCost is the price rounded up to a whole lamport.
LEMMA QuoteCostProperty ==
    ASSUME NEW b \in Nat, NEW q \in Nat \ {0}
    PROVE  /\ QuoteCost(b, q) \in Nat
           /\ b * q <= QuoteCost(b, q) * Scale
           /\ QuoteCost(b, q) * Scale < b * q + Scale
<1>1. b * q \in Nat
  OBVIOUS
<1> QED
  BY <1>1, ScalePositive, CeilProperty DEF QuoteCost

\* What b base lamports cost buys at least b of them.
LEMMA QuoteCostBuys ==
    ASSUME NEW b \in Nat, NEW q \in Nat \ {0}
    PROVE  b <= BaseBought(QuoteCost(b, q), q)
<1> DEFINE c == QuoteCost(b, q)
<1>1. c \in Nat /\ b * q <= c * Scale
  BY QuoteCostProperty
<1> HIDE DEF c
<1>2. c * Scale \in Nat
  BY <1>1, ScalePositive
<1>3. b <= BaseBought(c, q)
  BY <1>1, <1>2, FloorIsGreatest DEF BaseBought
<1> QED
  BY <1>3 DEF c

\* Anything less buys fewer.
LEMMA LessThanCostBuysFewer ==
    ASSUME NEW b \in Nat, NEW q \in Nat \ {0}, NEW x \in Nat,
           x < QuoteCost(b, q)
    PROVE  BaseBought(x, q) < b
<1>1. b * q \in Nat /\ x * Scale \in Nat
  BY ScalePositive
<1>2. x * Scale < b * q
  BY <1>1, ScalePositive, BelowCeil DEF QuoteCost
<1> QED
  BY <1>1, <1>2, FloorIsBelow DEF BaseBought

\* An amount that is no more than what it takes costs no more than it.
LEMMA CostAtMost ==
    ASSUME NEW b \in Nat, NEW q \in Nat \ {0}, NEW x \in Nat,
           b * q <= x * Scale
    PROVE  QuoteCost(b, q) <= x
<1>1. b * q \in Nat
  OBVIOUS
<1> QED
  BY <1>1, ScalePositive, CeilIsLeast DEF QuoteCost

\* The tokens bought with an amount cost no more than the amount.
LEMMA WithoutSurplusAtMost ==
    ASSUME NEW x \in Nat, NEW q \in Nat \ {0}
    PROVE  /\ CalculateQuoteTokenWithoutSurplus(x, q) \in Nat
           /\ CalculateQuoteTokenWithoutSurplus(x, q) <= x
<1> DEFINE b == BaseBought(x, q)
<1>1. b \in Nat /\ b * q <= x * Scale
  BY BaseBoughtProperty
<1> HIDE DEF b
<1>2. QuoteCost(b, q) \in Nat /\ QuoteCost(b, q) <= x
  BY <1>1, QuoteCostProperty, CostAtMost
<1> QED
  BY <1>2 DEF b, CalculateQuoteTokenWithoutSurplus

\* Nothing costs nothing.
LEMMA QuoteCostZero ==
    ASSUME NEW q \in Nat \ {0}
    PROVE  QuoteCost(0, q) = 0
<1>1. QuoteCost(0, q) <= 0
  BY CostAtMost, ScalePositive
<1> QED
  BY <1>1, QuoteCostProperty

---------------------------------------------------------------------------
(* Shares and fees *)

\* A share of a natural is no more than it, rounded either way.
LEMMA ShareAtMost ==
    ASSUME NEW whole \in Nat, NEW part \in Nat, NEW of \in Nat \ {0}, part <= of
    PROVE  /\ (whole * part) \div of \in 0..whole
           /\ CeilDiv(whole * part, of) \in 0..whole
<1>1. whole * part \in Nat /\ whole * of \in Nat
  OBVIOUS
<1>2. part * whole <= of * whole
  BY ProductMonotone
<1>3. whole * part <= whole * of /\ whole * part < (whole + 1) * of
  BY <1>1, <1>2
<1>4. (whole * part) \div of \in Nat /\ (whole * part) \div of < whole + 1
  BY <1>1, <1>3, FloorProperty, FloorIsBelow
<1>5. CeilDiv(whole * part, of) \in Nat /\ CeilDiv(whole * part, of) <= whole
  BY <1>1, <1>3, CeilProperty, CeilIsLeast
<1> QED
  BY <1>4, <1>5

\* The fee-included amount is no less than the amount.
LEMMA FeeIncludedAtLeast ==
    ASSUME NEW amount \in Nat, NEW feeBps \in 0..(BpsBase - 1)
    PROVE  /\ CalculateDepositFeeIncludedAmount(amount, feeBps, "Up") \in Nat
           /\ CalculateDepositFeeIncludedAmount(amount, feeBps, "Up") >= amount
<1> DEFINE net == BpsBase - feeBps
           gross == CeilDiv(amount * BpsBase, net)
<1>1. /\ net \in Nat \ {0} /\ net <= BpsBase /\ BpsBase \in Nat
      /\ amount * BpsBase \in Nat
  BY BpsAssumption
<1> HIDE DEF net
<1>2. gross \in Nat /\ amount * BpsBase <= gross * net
  BY <1>1, CeilProperty
<1>3. net * amount <= BpsBase * amount
  BY <1>1, ProductMonotone
<1> HIDE DEF gross
<1>4. amount * net <= gross * net
  BY <1>1, <1>2, <1>3
<1>5. amount <= gross
  BY <1>1, <1>2, <1>4, ProductCancels
<1>6. CASE feeBps = 0
  BY <1>6 DEF CalculateDepositFeeIncludedAmount
<1>7. CASE feeBps # 0
  <2>1. CalculateDepositFeeIncludedAmount(amount, feeBps, "Up") = gross
    BY <1>7 DEF CalculateDepositFeeIncludedAmount, gross, net
  <2> QED
    BY <2>1, <1>2, <1>5
<1> QED
  BY <1>6, <1>7

\* More to deposit is more to send.
LEMMA FeeIncludedMonotone ==
    ASSUME NEW a \in Nat, NEW b \in Nat, a <= b,
           NEW feeBps \in 0..(BpsBase - 1)
    PROVE  CalculateDepositFeeIncludedAmount(a, feeBps, "Up")
                <= CalculateDepositFeeIncludedAmount(b, feeBps, "Up")
<1> DEFINE net == BpsBase - feeBps
<1>1. net \in Nat \ {0} /\ BpsBase \in Nat
  BY BpsAssumption
<1> HIDE DEF net
<1>2. /\ a * BpsBase \in Nat /\ b * BpsBase \in Nat
      /\ a * BpsBase <= b * BpsBase
  BY <1>1, ProductMonotone
<1>3. CeilDiv(b * BpsBase, net) \in Nat
      /\ b * BpsBase <= CeilDiv(b * BpsBase, net) * net
  BY <1>1, <1>2, CeilProperty
<1>4. a * BpsBase <= CeilDiv(b * BpsBase, net) * net
  BY <1>1, <1>2, <1>3
<1>5. CeilDiv(a * BpsBase, net) <= CeilDiv(b * BpsBase, net)
  BY <1>1, <1>2, <1>3, <1>4, CeilIsLeast
<1> QED
  BY <1>5 DEF CalculateDepositFeeIncludedAmount, net
=============================================================================
