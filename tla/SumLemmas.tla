----------------------------- MODULE SumLemmas -----------------------------
(***************************************************************************)
(* Facts about SumFunctionOnSet of the community module Functions, the sum *)
(* of the values of a function over a finite set.  It is defined by        *)
(* recursion over the subsets of the set, so the facts rest on induction,  *)
(* which is stated here for sets: a set of naturals, or of subsets, that   *)
(* is closed under a step contains everything.                             *)
(***************************************************************************)
EXTENDS Integers, Functions, FiniteSets, FiniteSetTheorems,
        WellFoundedInduction, TLAPS

(* Induction over the naturals: a set that contains 0 and the successor of *)
(* each of its elements contains every natural.                            *)
LEMMA NatSetInduction ==
  ASSUME NEW I, 0 \in I, \A n \in Nat : n \in I => n + 1 \in I
  PROVE  Nat \subseteq I
<1> DEFINE Missing == Nat \ I
<1> SUFFICES ASSUME Missing # {} PROVE FALSE
  OBVIOUS
<1>1. PICK m \in Missing : \A y \in Missing : ~ (<<y, m>> \in OpToRel(<, Nat))
  <2>1. Missing \subseteq Nat
    OBVIOUS
  <2> HIDE DEF Missing
  <2> QED
    BY <2>1, WFMin, NatLessThanWellFounded
<1>2. \A y \in Missing : ~ (y < m)
  BY <1>1 DEF OpToRel
<1>3. m # 0 /\ m - 1 \in Nat
  OBVIOUS
<1>4. m - 1 \in I
  BY <1>2, <1>3
<1>5. m \in I
  BY <1>3, <1>4
<1> QED
  BY <1>5

(* Induction over the subsets of a finite set: a set of subsets is all of  *)
(* them if it contains every subset whose proper subsets it contains.      *)
LEMMA SubsetInduction ==
  ASSUME NEW S, IsFiniteSet(S), NEW X,
         \A T \in SUBSET S :
           (\A U \in SUBSET T : U # T => U \in X) => T \in X
  PROVE  SUBSET S \subseteq X
<1> DEFINE I == {n \in Nat : \A T \in SUBSET S : Cardinality(T) <= n => T \in X}
<1>1. ASSUME NEW T \in SUBSET S
      PROVE  IsFiniteSet(T) /\ Cardinality(T) \in Nat
  BY FS_Subset, FS_CardinalityType
<1>2. ASSUME NEW T \in SUBSET S, NEW U \in SUBSET T, U # T
      PROVE  Cardinality(U) < Cardinality(T)
  <2>1. Cardinality(U) <= Cardinality(T) /\ Cardinality(U) # Cardinality(T)
    BY <1>1, <1>2, FS_Subset
  <2>2. Cardinality(U) \in Nat /\ Cardinality(T) \in Nat
    BY <1>1
  <2> QED
    BY <2>1, <2>2
<1>3. 0 \in I
  <2> SUFFICES ASSUME NEW T \in SUBSET S, Cardinality(T) <= 0 PROVE T \in X
    OBVIOUS
  <2>1. Cardinality(T) = 0
    BY <1>1
  <2>2. T = {}
    BY <1>1, <2>1, FS_EmptySet
  <2>3. \A U \in SUBSET T : U # T => U \in X
    BY <2>2
  <2> HIDE DEF I
  <2> QED
    BY <2>3
<1>4. ASSUME NEW n \in Nat, n \in I PROVE n + 1 \in I
  <2> SUFFICES ASSUME NEW T \in SUBSET S, Cardinality(T) <= n + 1 PROVE T \in X
    OBVIOUS
  <2>1. ASSUME NEW U \in SUBSET T, U # T PROVE U \in X
    <3>1. Cardinality(U) < Cardinality(T) /\ U \in SUBSET S
      BY <1>2, <2>1
    <3>2. Cardinality(U) <= n
      BY <1>1, <3>1
    <3> QED
      BY <1>4, <3>1, <3>2
  <2> HIDE DEF I
  <2>2. \A U \in SUBSET T : U # T => U \in X
    BY <2>1
  <2> QED
    BY <2>2
<1> HIDE DEF I
<1>5. Nat \subseteq I
  BY <1>3, <1>4, NatSetInduction
<1> USE DEF I
<1> SUFFICES ASSUME NEW T \in SUBSET S PROVE T \in X
  OBVIOUS
<1>6. Cardinality(T) \in I
  BY <1>1, <1>5
<1> QED
  BY <1>1, <1>6

----------------------------------------------------------------------------
(* The recursion: g gives every subset of its domain the value of one      *)
(* chosen element plus the sum of the rest.                                *)
PartialSum(fun, g, T) ==
  IF T = {} THEN 0
            ELSE LET x == CHOOSE y \in T : TRUE IN fun[x] + g[T \ {x}]

IsPartialSums(fun, S, g) ==
  /\ g \in [SUBSET S -> Int]
  /\ g = [T \in SUBSET S |-> PartialSum(fun, g, T)]

(* A function that satisfies the recursion exists.                         *)
LEMMA PartialSumsExist ==
  ASSUME NEW S, IsFiniteSet(S), NEW fun, \A x \in S : fun[x] \in Int
  PROVE  \E g : IsPartialSums(fun, S, g)
<1> DEFINE Upto(n) == {T \in SUBSET S : Cardinality(T) <= n}
           Good(n, g) == /\ g \in [Upto(n) -> Int]
                         /\ \A T \in Upto(n) : g[T] = PartialSum(fun, g, T)
           I == {n \in Nat : \E g : Good(n, g)}
<1>1. ASSUME NEW T \in SUBSET S
      PROVE  IsFiniteSet(T) /\ Cardinality(T) \in Nat
  BY FS_Subset, FS_CardinalityType
<1>2. ASSUME NEW T \in SUBSET S, NEW x \in T
      PROVE  Cardinality(T \ {x}) = Cardinality(T) - 1
  BY <1>1, FS_RemoveElement
<1>3. 0 \in I
  <2> DEFINE z == [T \in Upto(0) |-> 0]
  <2>1. \A T \in Upto(0) : T = {}
    <3> SUFFICES ASSUME NEW T \in SUBSET S, Cardinality(T) <= 0 PROVE T = {}
      OBVIOUS
    <3>1. Cardinality(T) = 0
      BY <1>1
    <3> QED
      BY <1>1, <3>1, FS_EmptySet
  <2>2. Good(0, z)
    BY <2>1 DEF PartialSum
  <2> QED
    BY <2>2
<1>4. ASSUME NEW n \in Nat, n \in I PROVE n + 1 \in I
  <2>1. PICK g : Good(n, g)
    BY <1>4
  <2> DEFINE h == [T \in Upto(n + 1) |-> PartialSum(fun, g, T)]
  <2>2. ASSUME NEW T \in Upto(n + 1), T # {}
        PROVE  LET x == CHOOSE y \in T : TRUE
               IN  x \in T /\ x \in S /\ T \ {x} \in Upto(n)
    <3> DEFINE x == CHOOSE y \in T : TRUE
    <3>1. x \in T /\ x \in S
      BY <2>2
    <3> HIDE DEF x
    <3>2. Cardinality(T \ {x}) = Cardinality(T) - 1 /\ Cardinality(T) \in Nat
      BY <1>1, <1>2, <3>1
    <3>3. T \ {x} \in Upto(n)
      BY <3>2
    <3> QED
      BY <3>1, <3>3 DEF x
  <2>3. h \in [Upto(n + 1) -> Int]
    BY <2>1, <2>2 DEF PartialSum
  <2>4. \A T \in Upto(n) : T \in Upto(n + 1) /\ h[T] = g[T]
    BY <1>1, <2>1
  <2>5. ASSUME NEW T \in Upto(n + 1) PROVE h[T] = PartialSum(fun, h, T)
    <3>1. CASE T = {}
      BY <3>1 DEF PartialSum
    <3>2. CASE T # {}
      <4> DEFINE x == CHOOSE y \in T : TRUE
      <4>1. x \in T /\ T \ {x} \in Upto(n)
        BY <2>2, <3>2
      <4>2. h[T \ {x}] = g[T \ {x}]
        BY <2>4, <4>1
      <4>3. h[T] = fun[x] + g[T \ {x}]
        BY <3>2 DEF PartialSum
      <4> QED
        BY <3>2, <4>2, <4>3 DEF PartialSum
    <3> QED
      BY <3>1, <3>2
  <2>6. Good(n + 1, h)
    BY <2>3, <2>5
  <2> HIDE DEF h, Good
  <2>7. \E f : Good(n + 1, f)
    BY <2>6
  <2> QED
    BY <2>7
<1> HIDE DEF I
<1>5. Nat \subseteq I
  BY <1>3, <1>4, NatSetInduction
<1>6. Cardinality(S) \in I
  BY <1>1, <1>5
<1>7. PICK g : Good(Cardinality(S), g)
  BY <1>6 DEF I
<1>8. Upto(Cardinality(S)) = SUBSET S
  BY FS_Subset
<1>9. IsPartialSums(fun, S, g)
  <2>1. g \in [SUBSET S -> Int] /\ \A T \in SUBSET S : g[T] = PartialSum(fun, g, T)
    BY <1>7, <1>8
  <2> HIDE DEF Good, Upto
  <2> QED
    BY <2>1 DEF IsPartialSums
<1> QED
  BY <1>9

(* SumFunctionOnSet is the value of such a function.                       *)
LEMMA SumIsPartialSum ==
  ASSUME NEW S, IsFiniteSet(S), NEW fun, \A x \in S : fun[x] \in Int
  PROVE  \E g : IsPartialSums(fun, S, g) /\ SumFunctionOnSet(fun, S) = g[S]
<1> DEFINE g == CHOOSE h : h = [T \in SUBSET S |-> PartialSum(fun, h, T)]
<1>1. SumFunctionOnSet(fun, S) = g[S]
  BY DEF SumFunctionOnSet, FoldFunctionOnSet, MapThenFoldSet, PartialSum
<1>2. PICK p : IsPartialSums(fun, S, p)
  BY PartialSumsExist
<1>3. g = [T \in SUBSET S |-> PartialSum(fun, g, T)]
  BY <1>2 DEF IsPartialSums
<1> HIDE DEF g
<1>4. \A T \in SUBSET S : g[T] = PartialSum(fun, g, T) /\ p[T] = PartialSum(fun, p, T)
  BY <1>2, <1>3 DEF IsPartialSums
<1> DEFINE X == {T \in SUBSET S : g[T] = p[T]}
<1>5. ASSUME NEW T \in SUBSET S, \A U \in SUBSET T : U # T => U \in X
      PROVE  T \in X
  <2>1. CASE T = {}
    BY <1>4, <2>1 DEF PartialSum
  <2>2. CASE T # {}
    <3> DEFINE x == CHOOSE y \in T : TRUE
    <3>1. x \in T
      BY <2>2
    <3>2. g[T] = fun[x] + g[T \ {x}] /\ p[T] = fun[x] + p[T \ {x}]
      BY <1>4, <2>2 DEF PartialSum
    <3> HIDE DEF x
    <3>3. T \ {x} \in X
      BY <1>5, <3>1
    <3> QED
      BY <3>2, <3>3
  <2> QED
    BY <2>1, <2>2
<1> HIDE DEF X
<1>6. SUBSET S \subseteq X
  BY <1>5, SubsetInduction
<1>7. \A T \in SUBSET S : g[T] = p[T]
  BY <1>6 DEF X
<1>8. g[S] = p[S]
  BY <1>7
<1> QED
  BY <1>1, <1>2, <1>8

----------------------------------------------------------------------------
(* What the users of the sum need.                                         *)

(* The sum does not depend on the order: any element can be taken out.     *)
LEMMA PartialSumRemove ==
  ASSUME NEW S, IsFiniteSet(S), NEW fun, \A x \in S : fun[x] \in Int, NEW g,
         IsPartialSums(fun, S, g)
  PROVE  \A T \in SUBSET S : \A x \in T : g[T] = fun[x] + g[T \ {x}]
<1> DEFINE X == {T \in SUBSET S : \A x \in T : g[T] = fun[x] + g[T \ {x}]}
<1>1. \A T \in SUBSET S : g[T] = PartialSum(fun, g, T) /\ g[T] \in Int
  BY DEF IsPartialSums
<1>2. ASSUME NEW T \in SUBSET S, \A U \in SUBSET T : U # T => U \in X
      PROVE  T \in X
  <2> SUFFICES ASSUME NEW x \in T PROVE g[T] = fun[x] + g[T \ {x}]
    OBVIOUS
  <2> DEFINE c == CHOOSE y \in T : TRUE
  <2>1. g[T] = fun[c] + g[T \ {c}] /\ c \in T
    BY <1>1 DEF PartialSum
  <2> HIDE DEF c
  <2>2. CASE x = c
    BY <2>1, <2>2
  <2>3. CASE x # c
    <3>1. T \ {c} \in X /\ T \ {x} \in X
      BY <1>2, <2>1
    <3>2. x \in T \ {c} /\ c \in T \ {x}
      BY <2>1, <2>3
    <3>3. g[T \ {c}] = fun[x] + g[(T \ {c}) \ {x}]
      BY <3>1, <3>2
    <3>4. g[T \ {x}] = fun[c] + g[(T \ {x}) \ {c}]
      BY <3>1, <3>2
    <3>5. (T \ {c}) \ {x} = (T \ {x}) \ {c}
      OBVIOUS
    <3> DEFINE r == g[(T \ {x}) \ {c}]
    <3>6. fun[x] \in Int /\ fun[c] \in Int /\ r \in Int
      BY <1>1, <2>1
    <3>7. g[T] = fun[c] + (fun[x] + r)
      BY <2>1, <3>3, <3>5
    <3>8. g[T \ {x}] = fun[c] + r
      BY <3>4
    <3> HIDE DEF r, X
    <3> QED
      BY <3>6, <3>7, <3>8
  <2> QED
    BY <2>2, <2>3
<1> HIDE DEF X
<1>3. SUBSET S \subseteq X
  BY <1>2, SubsetInduction
<1> QED
  BY <1>3 DEF X

LEMMA SumType ==
  ASSUME NEW S, IsFiniteSet(S), NEW fun, \A x \in S : fun[x] \in Int
  PROVE  SumFunctionOnSet(fun, S) \in Int
<1>1. PICK g : IsPartialSums(fun, S, g) /\ SumFunctionOnSet(fun, S) = g[S]
  BY SumIsPartialSum
<1> QED
  BY <1>1 DEF IsPartialSums

(* A function that is zero everywhere sums to zero.                        *)
LEMMA SumZero ==
  ASSUME NEW S, IsFiniteSet(S), NEW fun, \A x \in S : fun[x] \in Int, \A x \in S : fun[x] = 0
  PROVE  SumFunctionOnSet(fun, S) = 0
<1>1. PICK g : IsPartialSums(fun, S, g) /\ SumFunctionOnSet(fun, S) = g[S]
  BY SumIsPartialSum
<1> DEFINE X == {T \in SUBSET S : g[T] = 0}
<1>2. ASSUME NEW T \in SUBSET S, \A U \in SUBSET T : U # T => U \in X
      PROVE  T \in X
  <2>1. CASE T = {}
    BY <1>1, <2>1 DEF IsPartialSums, PartialSum
  <2>2. CASE T # {}
    <3>1. PICK x \in T : TRUE
      BY <2>2
    <3>2. T \ {x} \in X
      BY <1>2, <3>1
    <3>3. g[T] = fun[x] + g[T \ {x}]
      BY <1>1, <3>1, PartialSumRemove
    <3> QED
      BY <3>2, <3>3
  <2> QED
    BY <2>1, <2>2
<1> HIDE DEF X
<1>3. SUBSET S \subseteq X
  BY <1>2, SubsetInduction
<1> QED
  BY <1>1, <1>3 DEF X

(* A sum of naturals is at least each of its terms, and at least any two   *)
(* of them together.                                                       *)
LEMMA SumBound ==
  ASSUME NEW S, IsFiniteSet(S), NEW fun, \A x \in S : fun[x] \in Int, \A x \in S : fun[x] >= 0
  PROVE  /\ SumFunctionOnSet(fun, S) >= 0
         /\ \A x \in S : fun[x] <= SumFunctionOnSet(fun, S)
         /\ \A x, y \in S : x # y => fun[x] + fun[y] <= SumFunctionOnSet(fun, S)
<1>1. PICK g : IsPartialSums(fun, S, g) /\ SumFunctionOnSet(fun, S) = g[S]
  BY SumIsPartialSum
<1>2. \A T \in SUBSET S : g[T] \in Int
  BY <1>1 DEF IsPartialSums
<1>3. ASSUME NEW T \in SUBSET S, NEW x \in T PROVE g[T] = fun[x] + g[T \ {x}]
  BY <1>1, PartialSumRemove
<1> DEFINE X == {T \in SUBSET S : g[T] >= 0}
<1>4. ASSUME NEW T \in SUBSET S, \A U \in SUBSET T : U # T => U \in X
      PROVE  T \in X
  <2>1. CASE T = {}
    BY <1>1, <2>1 DEF IsPartialSums, PartialSum
  <2>2. CASE T # {}
    <3>1. PICK x \in T : TRUE
      BY <2>2
    <3>2. T \ {x} \in X
      BY <1>4, <3>1
    <3>3. g[T] = fun[x] + g[T \ {x}] /\ fun[x] \in Int /\ fun[x] >= 0
      BY <1>3, <3>1
    <3> QED
      BY <1>2, <3>2, <3>3
  <2> QED
    BY <2>1, <2>2
<1> HIDE DEF X
<1>5. SUBSET S \subseteq X
  BY <1>4, SubsetInduction
<1>6. \A T \in SUBSET S : g[T] >= 0
  BY <1>5 DEF X
<1>7. ASSUME NEW x \in S PROVE fun[x] <= g[S]
  <2>1. g[S] = fun[x] + g[S \ {x}] /\ g[S \ {x}] \in Int /\ g[S \ {x}] >= 0
    BY <1>2, <1>3, <1>6
  <2> QED
    BY <2>1
<1>8. ASSUME NEW x \in S, NEW y \in S, x # y PROVE fun[x] + fun[y] <= g[S]
  <2>1. g[S] = fun[x] + g[S \ {x}]
    BY <1>3
  <2>2. g[S \ {x}] = fun[y] + g[(S \ {x}) \ {y}]
    BY <1>3, <1>8
  <2>3. g[(S \ {x}) \ {y}] \in Int /\ g[(S \ {x}) \ {y}] >= 0
    BY <1>2, <1>6
  <2> QED
    BY <2>1, <2>2, <2>3
<1> QED
  BY <1>1, <1>6, <1>7, <1>8

(* Changing a function at one point changes its sum by the difference.     *)
LEMMA SumExcept ==
  ASSUME NEW S, IsFiniteSet(S), NEW fun, \A x \in S : fun[x] \in Int, NEW fun2, \A x \in S : fun2[x] \in Int,
         NEW a \in S, \A x \in S : x # a => fun2[x] = fun[x]
  PROVE  SumFunctionOnSet(fun2, S) = SumFunctionOnSet(fun, S) + fun2[a] - fun[a]
<1>1. PICK g : IsPartialSums(fun, S, g) /\ SumFunctionOnSet(fun, S) = g[S]
  BY SumIsPartialSum
<1>2. PICK h : IsPartialSums(fun2, S, h) /\ SumFunctionOnSet(fun2, S) = h[S]
  BY SumIsPartialSum
<1>3. \A T \in SUBSET S : g[T] \in Int /\ h[T] \in Int
  BY <1>1, <1>2 DEF IsPartialSums
<1>4. ASSUME NEW T \in SUBSET S, NEW x \in T
      PROVE  g[T] = fun[x] + g[T \ {x}] /\ h[T] = fun2[x] + h[T \ {x}]
  <2>1. g[T] = fun[x] + g[T \ {x}]
    BY <1>1, PartialSumRemove
  <2>2. h[T] = fun2[x] + h[T \ {x}]
    BY <1>2, PartialSumRemove
  <2> QED
    BY <2>1, <2>2
<1> DEFINE X == {T \in SUBSET S : a \notin T => h[T] = g[T]}
<1>5. ASSUME NEW T \in SUBSET S, \A U \in SUBSET T : U # T => U \in X
      PROVE  T \in X
  <2> SUFFICES ASSUME a \notin T PROVE h[T] = g[T]
    OBVIOUS
  <2>1. CASE T = {}
    BY <1>1, <1>2, <2>1 DEF IsPartialSums, PartialSum
  <2>2. CASE T # {}
    <3>1. PICK x \in T : TRUE
      BY <2>2
    <3>2. T \ {x} \in X
      BY <1>5, <3>1
    <3>3. h[T \ {x}] = g[T \ {x}] /\ fun2[x] = fun[x]
      BY <3>1, <3>2
    <3> QED
      BY <1>4, <3>1, <3>3
  <2> QED
    BY <2>1, <2>2
<1> HIDE DEF X
<1>6. SUBSET S \subseteq X
  BY <1>5, SubsetInduction
<1>7. h[S \ {a}] = g[S \ {a}]
  BY <1>6 DEF X
<1>8. g[S] = fun[a] + g[S \ {a}] /\ h[S] = fun2[a] + h[S \ {a}]
  BY <1>4
<1>9. /\ g[S] \in Int /\ h[S] \in Int /\ g[S \ {a}] \in Int
      /\ fun[a] \in Int /\ fun2[a] \in Int
  BY <1>3
<1> QED
  BY <1>1, <1>2, <1>7, <1>8, <1>9
----------------------------------------------------------------------------
(* Functions that agree on the set have the same sum.                      *)
LEMMA SumSame ==
  ASSUME NEW S, IsFiniteSet(S), NEW fun, \A x \in S : fun[x] \in Int,
         NEW fun2, \A x \in S : fun2[x] \in Int /\ fun2[x] - fun[x] = 0
  PROVE  SumFunctionOnSet(fun2, S) = SumFunctionOnSet(fun, S)
<1>1. CASE S = {}
  <2>1. SumFunctionOnSet(fun2, S) = 0 /\ SumFunctionOnSet(fun, S) = 0
    BY <1>1, SumZero
  <2> QED
    BY <2>1
<1>2. CASE S # {}
  <2>1. PICK a \in S : TRUE
    BY <1>2
  <2>2. fun2[a] \in Int /\ fun[a] \in Int /\ fun2[a] - fun[a] = 0
    BY <2>1
  <2>3. \A x \in S : x # a => fun2[x] = fun[x]
    OBVIOUS
  <2>4. SumFunctionOnSet(fun2, S) = SumFunctionOnSet(fun, S) + fun2[a] - fun[a]
    BY <2>1, <2>3, SumExcept
  <2>5. SumFunctionOnSet(fun, S) \in Int
    BY SumType
  <2> QED
    BY <2>2, <2>4, <2>5
<1> QED
  BY <1>1, <1>2

(* The sum over a subset is among the partial sums.                        *)
LEMMA SumOfSubset ==
  ASSUME NEW S, IsFiniteSet(S), NEW fun, \A x \in S : fun[x] \in Int, NEW g,
         IsPartialSums(fun, S, g) /\ SumFunctionOnSet(fun, S) = g[S],
         NEW R \in SUBSET S
  PROVE  SumFunctionOnSet(fun, R) = g[R]
<1>1. IsFiniteSet(R) /\ \A x \in R : fun[x] \in Int
  BY FS_Subset
<1>2. PICK h : IsPartialSums(fun, R, h) /\ SumFunctionOnSet(fun, R) = h[R]
  BY <1>1, SumIsPartialSum
<1>3. ASSUME NEW T \in SUBSET S, NEW x \in T PROVE g[T] = fun[x] + g[T \ {x}]
  BY PartialSumRemove
<1>4. ASSUME NEW T \in SUBSET R, NEW x \in T PROVE h[T] = fun[x] + h[T \ {x}]
  BY <1>1, <1>2, PartialSumRemove
<1> DEFINE X == {T \in SUBSET R : h[T] = g[T]}
<1>5. ASSUME NEW T \in SUBSET R, \A U \in SUBSET T : U # T => U \in X
      PROVE  T \in X
  <2>1. CASE T = {}
    BY <1>2, <2>1 DEF IsPartialSums, PartialSum
  <2>2. CASE T # {}
    <3>1. PICK x \in T : TRUE
      BY <2>2
    <3>2. T \ {x} \in X
      BY <1>5, <3>1
    <3>3. h[T \ {x}] = g[T \ {x}]
      BY <3>2
    <3>4. g[T] = fun[x] + g[T \ {x}] /\ h[T] = fun[x] + h[T \ {x}]
      BY <1>3, <1>4, <3>1
    <3> QED
      BY <3>3, <3>4
  <2> QED
    BY <2>1, <2>2
<1> HIDE DEF X
<1>6. SUBSET R \subseteq X
  BY <1>1, <1>5, SubsetInduction
<1> QED
  BY <1>2, <1>6 DEF X

(* A sum over a set without one of its elements.                           *)
LEMMA SumWithout ==
  ASSUME NEW S, IsFiniteSet(S), NEW fun, \A x \in S : fun[x] \in Int, NEW a \in S
  PROVE  SumFunctionOnSet(fun, S) = fun[a] + SumFunctionOnSet(fun, S \ {a})
<1>1. PICK g : IsPartialSums(fun, S, g) /\ SumFunctionOnSet(fun, S) = g[S]
  BY SumIsPartialSum
<1>2. g[S] = fun[a] + g[S \ {a}]
  BY <1>1, PartialSumRemove
<1>3. SumFunctionOnSet(fun, S \ {a}) = g[S \ {a}]
  BY <1>1, SumOfSubset
<1> QED
  BY <1>1, <1>2, <1>3

(* Elements that count zero may be left out.                               *)
LEMMA SumZeroOutside ==
  ASSUME NEW S, IsFiniteSet(S), NEW fun, \A x \in S : fun[x] \in Int,
         NEW R \in SUBSET S, \A x \in S \ R : fun[x] = 0
  PROVE  SumFunctionOnSet(fun, S) = SumFunctionOnSet(fun, R)
<1>1. PICK g : IsPartialSums(fun, S, g) /\ SumFunctionOnSet(fun, S) = g[S]
  BY SumIsPartialSum
<1>2. ASSUME NEW T \in SUBSET S, NEW x \in T
      PROVE  g[T] = fun[x] + g[T \ {x}] /\ g[T] \in Int
  <2>1. g[T] = fun[x] + g[T \ {x}]
    BY <1>1, PartialSumRemove
  <2> QED
    BY <1>1, <2>1 DEF IsPartialSums
<1> DEFINE X == {T \in SUBSET S : g[T] = g[T \cap R]}
<1>3. ASSUME NEW T \in SUBSET S, \A U \in SUBSET T : U # T => U \in X
      PROVE  T \in X
  <2>1. CASE T \subseteq R
    <3>1. T \cap R = T
      BY <2>1
    <3> QED
      BY <3>1
  <2>2. CASE ~ (T \subseteq R)
    <3>1. PICK x \in T : x \notin R
      BY <2>2
    <3>2. T \ {x} \in X
      BY <1>3, <3>1
    <3>3. (T \ {x}) \cap R = T \cap R
      BY <3>1
    <3>4. g[T \ {x}] = g[T \cap R]
      BY <3>2, <3>3
    <3>5. g[T] = fun[x] + g[T \ {x}] /\ fun[x] = 0
      BY <1>2, <3>1
    <3>6. g[T \ {x}] \in Int
      BY <1>1 DEF IsPartialSums
    <3>7. g[T] = g[T \ {x}]
      BY <3>5, <3>6
    <3> QED
      BY <3>4, <3>7
  <2> QED
    BY <2>1, <2>2
<1> HIDE DEF X
<1>4. SUBSET S \subseteq X
  BY <1>3, SubsetInduction
<1>5. S \cap R = R
  OBVIOUS
<1>6. g[S] = g[R]
  BY <1>4, <1>5 DEF X
<1>7. SumFunctionOnSet(fun, R) = g[R]
  BY <1>1, SumOfSubset
<1> QED
  BY <1>1, <1>6, <1>7
=============================================================================
