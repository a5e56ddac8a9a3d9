--------------------------- MODULE FormulaProofs ---------------------------
(***************************************************************************)
(* What each pricing formula of BancorFormula promises, as an inequality   *)
(* between the powers of a balance and of the supply before and after, for *)
(* all balances, supplies, weights and fees; and the facts about powers    *)
(* and products it takes.  Both are defined by recursion: first that the   *)
(* recursions have a solution, then what the users need.                   *)
(***************************************************************************)
EXTENDS BancorFormula, SumLemmas

----------------------------------------------------------------------------
(* Powers.                                                                 *)

(* Power(x, .) satisfies its recursion.                                    *)
LEMMA PowerRecursion ==
  ASSUME NEW x \in Int
  PROVE  /\ Power(x, 0) = 1
         /\ \A n \in Nat : Power(x, n) \in Int /\ Power(x, n + 1) = x * Power(x, n)
<1> DEFINE Value(g, i) == IF i = 0 THEN 1 ELSE x * g[i - 1]
           Good(n, g) == /\ g \in [0..n -> Int]
                         /\ \A i \in 0..n : g[i] = Value(g, i)
           I == {n \in Nat : \E g : Good(n, g)}
<1>1. 0 \in I
  <2>1. Good(0, [i \in 0..0 |-> 1])
    OBVIOUS
  <2> QED
    BY <2>1
<1>2. ASSUME NEW n \in Nat, n \in I PROVE n + 1 \in I
  <2>1. PICK g : Good(n, g)
    BY <1>2
  <2> DEFINE h == [i \in 0..(n + 1) |-> Value(g, i)]
  <2>2. \A i \in 0..(n + 1) : i = 0 \/ (i - 1 \in 0..n /\ g[i - 1] \in Int)
    BY <2>1
  <2>3. \A i \in 0..(n + 1) : Value(g, i) \in Int
    BY <2>2
  <2>4. \A i \in 0..n : i \in 0..(n + 1) /\ h[i] = g[i]
    BY <2>1
  <2>5. \A i \in 0..(n + 1) : h[i] = Value(h, i)
    BY <2>2, <2>4
  <2>6. Good(n + 1, h)
    BY <2>3, <2>5
  <2> HIDE DEF h, Good
  <2> QED
    BY <2>6
<1> HIDE DEF I
<1>3. Nat \subseteq I
  BY <1>1, <1>2, NatSetInduction
<1>4. \A n \in Nat : \E g : Good(n, g)
  BY <1>3 DEF I
<1>5. ASSUME NEW n \in Nat, NEW m \in Nat, NEW g, NEW h, Good(n, g), Good(m, h)
      PROVE  \A i \in Nat : i <= n /\ i <= m => g[i] = h[i]
  <2> DEFINE J == {i \in Nat : i <= n /\ i <= m => g[i] = h[i]}
  <2>1. 0 \in J
    BY <1>5
  <2>2. ASSUME NEW i \in Nat, i \in J PROVE i + 1 \in J
    <3> SUFFICES ASSUME i + 1 <= n, i + 1 <= m PROVE g[i + 1] = h[i + 1]
      OBVIOUS
    <3>1. g[i] = h[i]
      BY <2>2
    <3>2. g[i + 1] = x * g[i] /\ h[i + 1] = x * h[i]
      BY <1>5
    <3> QED
      BY <3>1, <3>2
  <2> HIDE DEF J
  <2>3. Nat \subseteq J
    BY <2>1, <2>2, NatSetInduction
  <2> QED
    BY <2>3 DEF J
<1> DEFINE G(n) == CHOOSE g : Good(n, g)
           f == [n \in Nat |-> G(n)[n]]
<1>6. \A n \in Nat : Good(n, G(n))
  BY <1>4
<1>7. ASSUME NEW n \in Nat PROVE f[n] = Value(f, n) /\ f[n] \in Int
  <2>1. Good(n, G(n))
    BY <1>6
  <2>2. CASE n = 0
    BY <2>1, <2>2
  <2>3. CASE n # 0
    <3>1. n - 1 \in Nat /\ n - 1 <= n /\ Good(n - 1, G(n - 1))
      <4> HIDE DEF G, Good
      <4> QED
        BY <1>6, <2>3
    <3> HIDE DEF G
    <3>2. G(n)[n - 1] = G(n - 1)[n - 1]
      <4> HIDE DEF Good
      <4> QED
        BY <1>5, <2>1, <3>1
    <3>3. n \in 0..n /\ G(n)[n] = Value(G(n), n) /\ G(n)[n] \in Int
      BY <2>1
    <3> QED
      BY <2>3, <3>1, <3>2, <3>3
  <2> QED
    BY <2>2, <2>3
<1>8. f = [n \in Nat |-> Value(f, n)]
  <2>1. f = [n \in Nat |-> f[n]]
    <3> HIDE DEF G
    <3> QED
      OBVIOUS
  <2> HIDE DEF f
  <2> QED
    BY <1>7, <2>1
<1> DEFINE p == CHOOSE q : q = [n \in Nat |-> Value(q, n)]
<1>9. p = [n \in Nat |-> Value(p, n)]
  <2> HIDE DEF f, Value
  <2> QED
    BY <1>8, Zenon
<1>10. \A n \in Nat : Power(x, n) = p[n]
  BY DEF Power
<1> HIDE DEF p
<1>11. \A n \in Nat : p[n] = Value(p, n)
  BY <1>9
<1>12. p[0] = 1 /\ \A n \in Nat : p[n + 1] = x * p[n]
  <2>1. \A n \in Nat : n + 1 \in Nat /\ n + 1 # 0 /\ (n + 1) - 1 = n
    OBVIOUS
  <2> QED
    BY <1>11, <2>1
<1> DEFINE K == {n \in Nat : p[n] \in Int}
<1>13. 0 \in K
  BY <1>12
<1>14. ASSUME NEW n \in Nat, n \in K PROVE n + 1 \in K
  BY <1>12, <1>14
<1> HIDE DEF K
<1>15. Nat \subseteq K
  BY <1>13, <1>14, NatSetInduction
<1> QED
  BY <1>10, <1>12, <1>15 DEF K

(* Products of integers, in the form in which they are used below.         *)
LEMMA TimesMono ==
  ASSUME NEW a \in Int, NEW b \in Int, NEW c \in Int, NEW d \in Int,
         0 <= a, a <= b, 0 <= c, c <= d
  PROVE  a * c <= b * d
<1>1. a * c <= b * c
  BY Z3
<1>2. b * c <= b * d
  BY Z3
<1>3. a * c \in Int /\ b * c \in Int /\ b * d \in Int
  OBVIOUS
<1> QED
  BY <1>1, <1>2, <1>3

LEMMA TimesStrict ==
  ASSUME NEW a \in Int, NEW b \in Int, NEW c \in Int, NEW d \in Int,
         0 <= a, a < b, 0 <= c, c < d
  PROVE  a * c < b * d
<1>1. a * c <= a * d
  BY Z3
<1>2. a * d < b * d
  BY Z3
<1>3. a * c \in Int /\ a * d \in Int /\ b * d \in Int
  OBVIOUS
<1> QED
  BY <1>1, <1>2, <1>3

LEMMA TimesSign ==
  ASSUME NEW a \in Int, NEW b \in Int
  PROVE  /\ a * b \in Int
         /\ a >= 0 /\ b >= 0 => a * b >= 0
         /\ a > 0 /\ b > 0 => a * b > 0
         /\ a * b = b * a
         /\ a = 0 \/ b = 0 => a * b = 0
BY Z3

LEMMA TimesSwap ==
  ASSUME NEW a \in Int, NEW b \in Int, NEW c \in Int, NEW d \in Int
  PROVE  /\ (a * b) * (c * d) = (a * c) * (b * d)
         /\ a * (b * c) = b * (a * c)
         /\ a * (b * c) = (a * b) * c
BY Z3

(* A positive factor can be divided by.                                    *)
LEMMA TimesCancel ==
  ASSUME NEW a \in Int, NEW b \in Int, NEW c \in Int, c > 0, c * a <= c * b
  PROVE  a <= b
BY Z3

LEMMA PowerType ==
  ASSUME NEW x \in Int, NEW n \in Nat
  PROVE  Power(x, n) \in Int
BY PowerRecursion

LEMMA PowerNext ==
  ASSUME NEW x \in Int, NEW n \in Nat
  PROVE  /\ Power(x, 0) = 1
         /\ Power(x, 1) = x
         /\ Power(x, n + 1) = x * Power(x, n)
<1>1. /\ Power(x, 0) = 1 /\ Power(x, 0 + 1) = x * Power(x, 0)
      /\ Power(x, n + 1) = x * Power(x, n)
  BY PowerRecursion
<1>2. Power(x, 1) = x * 1
  BY <1>1
<1> QED
  BY <1>1, <1>2

LEMMA PowerSign ==
  ASSUME NEW x \in Int, NEW n \in Nat
  PROVE  /\ x >= 0 => Power(x, n) >= 0
         /\ x > 0 => Power(x, n) > 0
         /\ n > 0 => Power(0, n) = 0
<1> DEFINE I == {i \in Nat : /\ x >= 0 => Power(x, i) >= 0
                             /\ x > 0 => Power(x, i) > 0}
<1>1. 0 \in I
  BY PowerNext
<1>2. ASSUME NEW i \in Nat, i \in I PROVE i + 1 \in I
  <2>1. Power(x, i) \in Int /\ Power(x, i + 1) = x * Power(x, i)
    BY PowerNext, PowerType
  <2> QED
    BY <1>2, <2>1, TimesSign
<1> HIDE DEF I
<1>3. Nat \subseteq I
  BY <1>1, <1>2, NatSetInduction
<1>4. ASSUME n > 0 PROVE Power(0, n) = 0
  <2>1. n - 1 \in Nat /\ (n - 1) + 1 = n
    BY <1>4
  <2>2. Power(0, (n - 1) + 1) = 0 * Power(0, n - 1) /\ Power(0, n - 1) \in Int
    BY <2>1, PowerNext, PowerType
  <2>3. 0 * Power(0, n - 1) = 0
    BY <2>2, TimesSign
  <2> QED
    BY <2>1, <2>2, <2>3
<1> QED
  BY <1>3, <1>4 DEF I

LEMMA PowerMono ==
  ASSUME NEW x \in Int, NEW y \in Int, 0 <= x, x <= y, NEW n \in Nat
  PROVE  Power(x, n) <= Power(y, n)
<1> DEFINE I == {i \in Nat : Power(x, i) <= Power(y, i)}
<1>1. 0 \in I
  BY PowerNext
<1>2. ASSUME NEW i \in Nat, i \in I PROVE i + 1 \in I
  <2>1. /\ Power(x, i) \in Int /\ Power(x, i + 1) = x * Power(x, i)
        /\ Power(y, i) \in Int /\ Power(y, i + 1) = y * Power(y, i)
    BY PowerNext, PowerType
  <2>2. Power(x, i) >= 0
    BY PowerSign
  <2>3. x * Power(x, i) <= y * Power(y, i)
    BY <1>2, <2>1, <2>2, TimesMono
  <2> QED
    BY <2>1, <2>3
<1> HIDE DEF I
<1>3. Nat \subseteq I
  BY <1>1, <1>2, NatSetInduction
<1> QED
  BY <1>3 DEF I

LEMMA PowerStrict ==
  ASSUME NEW x \in Int, NEW y \in Int, 0 <= x, x < y, NEW n \in Nat \ {0}
  PROVE  Power(x, n) < Power(y, n)
<1> DEFINE I == {i \in Nat : Power(x, i + 1) < Power(y, i + 1)}
<1>1. 0 \in I
  BY PowerNext
<1>2. ASSUME NEW i \in Nat, i \in I PROVE i + 1 \in I
  <2> DEFINE j == i + 1
  <2>1. j \in Nat
    OBVIOUS
  <2> HIDE DEF j
  <2>2. /\ Power(x, j) \in Int /\ Power(x, j + 1) = x * Power(x, j)
        /\ Power(y, j) \in Int /\ Power(y, j + 1) = y * Power(y, j)
    BY <2>1, PowerNext, PowerType
  <2>3. Power(x, j) >= 0
    BY <2>1, PowerSign
  <2>4. Power(x, j) < Power(y, j)
    BY <1>2 DEF j
  <2>5. x * Power(x, j) < y * Power(y, j)
    BY <2>2, <2>3, <2>4, TimesStrict
  <2>6. Power(x, j + 1) < Power(y, j + 1)
    BY <2>2, <2>5
  <2> QED
    BY <2>6 DEF j
<1> HIDE DEF I
<1>3. Nat \subseteq I
  BY <1>1, <1>2, NatSetInduction
<1>4. n - 1 \in I /\ (n - 1) + 1 = n
  BY <1>3
<1> QED
  BY <1>4 DEF I

(* Roots keep the order.                                                   *)
LEMMA PowerCancel ==
  ASSUME NEW x \in Int, NEW y \in Int, 0 <= x, 0 <= y, NEW n \in Nat \ {0},
         Power(x, n) <= Power(y, n)
  PROVE  x <= y
<1> SUFFICES ASSUME y < x PROVE FALSE
  OBVIOUS
<1>1. Power(y, n) < Power(x, n)
  BY PowerStrict
<1>2. Power(x, n) \in Int /\ Power(y, n) \in Int
  BY PowerType
<1> QED
  BY <1>1, <1>2

LEMMA PowerOfProduct ==
  ASSUME NEW x \in Int, NEW y \in Int, NEW n \in Nat
  PROVE  Power(x * y, n) = Power(x, n) * Power(y, n)
<1> DEFINE I == {i \in Nat : Power(x * y, i) = Power(x, i) * Power(y, i)}
<1>0. x * y \in Int
  BY TimesSign
<1>1. 0 \in I
  BY <1>0, PowerNext
<1>2. ASSUME NEW i \in Nat, i \in I PROVE i + 1 \in I
  <2>1. /\ Power(x, i) \in Int /\ Power(x, i + 1) = x * Power(x, i)
        /\ Power(y, i) \in Int /\ Power(y, i + 1) = y * Power(y, i)
        /\ Power(x * y, i + 1) = (x * y) * Power(x * y, i)
    BY <1>0, PowerNext, PowerType
  <2>2. (x * y) * (Power(x, i) * Power(y, i))
          = (x * Power(x, i)) * (y * Power(y, i))
    BY <2>1, TimesSwap
  <2>3. Power(x * y, i) = Power(x, i) * Power(y, i)
    BY <1>2
  <2> QED
    BY <2>1, <2>2, <2>3
<1> HIDE DEF I
<1>3. Nat \subseteq I
  BY <1>1, <1>2, NatSetInduction
<1> QED
  BY <1>3 DEF I

LEMMA PowerOfSum ==
  ASSUME NEW x \in Int, NEW m \in Nat, NEW n \in Nat
  PROVE  Power(x, m + n) = Power(x, m) * Power(x, n)
<1> DEFINE I == {i \in Nat : Power(x, m + i) = Power(x, m) * Power(x, i)}
<1>0. Power(x, m) \in Int
  BY PowerType
<1>1. 0 \in I
  BY <1>0, PowerNext
<1>2. ASSUME NEW i \in Nat, i \in I PROVE i + 1 \in I
  <2> DEFINE j == m + i
  <2>1. j \in Nat /\ m + (i + 1) = j + 1
    OBVIOUS
  <2>2. Power(x, j) = Power(x, m) * Power(x, i)
    BY <1>2
  <2> HIDE DEF j
  <2>3. /\ Power(x, i) \in Int /\ Power(x, i + 1) = x * Power(x, i)
        /\ Power(x, j + 1) = x * Power(x, j)
    BY <2>1, PowerNext, PowerType
  <2>4. x * (Power(x, m) * Power(x, i)) = Power(x, m) * (x * Power(x, i))
    BY <1>0, <2>3, TimesSwap
  <2>5. Power(x, j + 1) = Power(x, m) * Power(x, i + 1)
    BY <2>2, <2>3, <2>4
  <2> QED
    BY <2>1, <2>5
<1> HIDE DEF I
<1>3. Nat \subseteq I
  BY <1>1, <1>2, NatSetInduction
<1> QED
  BY <1>3 DEF I

(* The order of two powers does not matter.                                *)
LEMMA PowerCommutes ==
  ASSUME NEW x \in Int, NEW m \in Nat, NEW n \in Nat
  PROVE  Power(Power(x, m), n) = Power(Power(x, n), m)
<1> DEFINE I == {i \in Nat : Power(Power(x, m), i) = Power(Power(x, i), m)}
<1>0. Power(x, m) \in Int
  BY PowerType
<1> DEFINE One == {i \in Nat : Power(1, i) = 1}
<1>1. 0 \in One
  BY PowerNext
<1>2. ASSUME NEW i \in Nat, i \in One PROVE i + 1 \in One
  BY <1>2, PowerNext
<1> HIDE DEF One
<1>3. Nat \subseteq One
  BY <1>1, <1>2, NatSetInduction
<1>4. Power(1, m) = 1
  BY <1>3 DEF One
<1>5. 0 \in I
  BY <1>0, <1>4, PowerNext
<1>6. ASSUME NEW i \in Nat, i \in I PROVE i + 1 \in I
  <2>1. /\ Power(x, i) \in Int
        /\ Power(x, i + 1) = x * Power(x, i)
        /\ Power(Power(x, m), i + 1) = Power(x, m) * Power(Power(x, m), i)
    BY <1>0, PowerNext, PowerType
  <2>2. Power(x * Power(x, i), m) = Power(x, m) * Power(Power(x, i), m)
    BY <2>1, PowerOfProduct
  <2>3. Power(Power(x, m), i) = Power(Power(x, i), m)
    BY <1>6
  <2> QED
    BY <2>1, <2>2, <2>3
<1> HIDE DEF I
<1>7. Nat \subseteq I
  BY <1>5, <1>6, NatSetInduction
<1> QED
  BY <1>7 DEF I

----------------------------------------------------------------------------
(* Products.                                                               *)

(* The recursion: g gives every subset of its domain the value of one      *)
(* chosen element times the product of the rest.                                *)
PartialProduct(fun, g, T) ==
  IF T = {} THEN 1
            ELSE LET x == CHOOSE y \in T : TRUE IN fun[x] * g[T \ {x}]

IsPartialProducts(fun, S, g) ==
  /\ g \in [SUBSET S -> Int]
  /\ g = [T \in SUBSET S |-> PartialProduct(fun, g, T)]

(* A function that satisfies the recursion exists.                         *)
LEMMA PartialProductsExist ==
  ASSUME NEW S, IsFiniteSet(S), NEW fun, \A x \in S : fun[x] \in Int
  PROVE  \E g : IsPartialProducts(fun, S, g)
<1> DEFINE Upto(n) == {T \in SUBSET S : Cardinality(T) <= n}
           Good(n, g) == /\ g \in [Upto(n) -> Int]
                         /\ \A T \in Upto(n) : g[T] = PartialProduct(fun, g, T)
           I == {n \in Nat : \E g : Good(n, g)}
<1>1. ASSUME NEW T \in SUBSET S
      PROVE  IsFiniteSet(T) /\ Cardinality(T) \in Nat
  BY FS_Subset, FS_CardinalityType
<1>2. ASSUME NEW T \in SUBSET S, NEW x \in T
      PROVE  Cardinality(T \ {x}) = Cardinality(T) - 1
  BY <1>1, FS_RemoveElement
<1>3. 0 \in I
  <2> DEFINE z == [T \in Upto(0) |-> 1]
  <2>1. \A T \in Upto(0) : T = {}
    <3> SUFFICES ASSUME NEW T \in SUBSET S, Cardinality(T) <= 0 PROVE T = {}
      OBVIOUS
    <3>1. Cardinality(T) = 0
      BY <1>1
    <3> QED
      BY <1>1, <3>1, FS_EmptySet
  <2>2. Good(0, z)
    BY <2>1 DEF PartialProduct
  <2> QED
    BY <2>2
<1>4. ASSUME NEW n \in Nat, n \in I PROVE n + 1 \in I
  <2>1. PICK g : Good(n, g)
    BY <1>4
  <2> DEFINE h == [T \in Upto(n + 1) |-> PartialProduct(fun, g, T)]
  <2>2. ASSUME NEW T \in Upto(n + 1), T # {}
        PROVE  LET x == CHOOSE y \in T : TRUE
               IN  x \in T /\ x \in S /\ T \ {x} \in Upto(n)
    <3> DEFINE x == CHOOSE y \in T : TRUE
    <3>1. x \in T /\ x \in S
      BY <2>2
    <3> HIDE DEF x
    <3>2. Cardinality(T \ {x}) = Cardinality(T) - 1 /\ Cardinality(T) \in Nat
      BY <1>1, <1>2, <3>1
    <3>3. T \ {x} \in Upto(n)
      BY <3>2
    <3> QED
      BY <3>1, <3>3 DEF x
  <2>3. h \in [Upto(n + 1) -> Int]
    BY <2>1, <2>2 DEF PartialProduct
  <2>4. \A T \in Upto(n) : T \in Upto(n + 1) /\ h[T] = g[T]
    BY <1>1, <2>1
  <2>5. ASSUME NEW T \in Upto(n + 1) PROVE h[T] = PartialProduct(fun, h, T)
    <3>1. CASE T = {}
      BY <3>1 DEF PartialProduct
    <3>2. CASE T # {}
      <4> DEFINE x == CHOOSE y \in T : TRUE
      <4>1. x \in T /\ T \ {x} \in Upto(n)
        BY <2>2, <3>2
      <4>2. h[T \ {x}] = g[T \ {x}]
        BY <2>4, <4>1
      <4>3. h[T] = fun[x] * g[T \ {x}]
        BY <3>2 DEF PartialProduct
      <4> QED
        BY <3>2, <4>2, <4>3 DEF PartialProduct
    <3> QED
      BY <3>1, <3>2
  <2>6. Good(n + 1, h)
    BY <2>3, <2>5
  <2> HIDE DEF h, Good
  <2>7. \E f : Good(n + 1, f)
    BY <2>6
  <2> QED
    BY <2>7
<1> HIDE DEF I
<1>5. Nat \subseteq I
  BY <1>3, <1>4, NatSetInduction
<1>6. Cardinality(S) \in I
  BY <1>1, <1>5
<1>7. PICK g : Good(Cardinality(S), g)
  BY <1>6 DEF I
<1>8. Upto(Cardinality(S)) = SUBSET S
  BY FS_Subset
<1>9. IsPartialProducts(fun, S, g)
  <2>1. g \in [SUBSET S -> Int] /\ \A T \in SUBSET S : g[T] = PartialProduct(fun, g, T)
    BY <1>7, <1>8
  <2> HIDE DEF Good, Upto
  <2> QED
    BY <2>1 DEF IsPartialProducts
<1> QED
  BY <1>9

(* ProductOnSet is the value of such a function.                           *)
LEMMA ProductIsPartialProduct ==
  ASSUME NEW S, IsFiniteSet(S), NEW fun, \A x \in S : fun[x] \in Int
  PROVE  \E g : IsPartialProducts(fun, S, g) /\ ProductOnSet(fun, S) = g[S]
<1> DEFINE g == CHOOSE h : h = [T \in SUBSET S |-> PartialProduct(fun, h, T)]
<1>1. ProductOnSet(fun, S) = g[S]
  BY DEF ProductOnSet, FoldFunctionOnSet, MapThenFoldSet, PartialProduct
<1>2. PICK p : IsPartialProducts(fun, S, p)
  BY PartialProductsExist
<1>3. g = [T \in SUBSET S |-> PartialProduct(fun, g, T)]
  BY <1>2 DEF IsPartialProducts
<1> HIDE DEF g
<1>4. \A T \in SUBSET S : g[T] = PartialProduct(fun, g, T) /\ p[T] = PartialProduct(fun, p, T)
  BY <1>2, <1>3 DEF IsPartialProducts
<1> DEFINE X == {T \in SUBSET S : g[T] = p[T]}
<1>5. ASSUME NEW T \in SUBSET S, \A U \in SUBSET T : U # T => U \in X
      PROVE  T \in X
  <2>1. CASE T = {}
    BY <1>4, <2>1 DEF PartialProduct
  <2>2. CASE T # {}
    <3> DEFINE x == CHOOSE y \in T : TRUE
    <3>1. x \in T
      BY <2>2
    <3>2. g[T] = fun[x] * g[T \ {x}] /\ p[T] = fun[x] * p[T \ {x}]
      BY <1>4, <2>2 DEF PartialProduct
    <3> HIDE DEF x
    <3>3. T \ {x} \in X
      BY <1>5, <3>1
    <3> QED
      BY <3>2, <3>3
  <2> QED
    BY <2>1, <2>2
<1> HIDE DEF X
<1>6. SUBSET S \subseteq X
  BY <1>5, SubsetInduction
<1>7. \A T \in SUBSET S : g[T] = p[T]
  BY <1>6 DEF X
<1>8. g[S] = p[S]
  BY <1>7
<1> QED
  BY <1>1, <1>2, <1>8

----------------------------------------------------------------------------

(* The product does not depend on the order: any element can be taken out. *)
LEMMA PartialProductRemove ==
  ASSUME NEW S, IsFiniteSet(S), NEW fun, \A x \in S : fun[x] \in Int, NEW g,
         IsPartialProducts(fun, S, g)
  PROVE  \A T \in SUBSET S : \A x \in T : g[T] = fun[x] * g[T \ {x}]
<1> DEFINE X == {T \in SUBSET S : \A x \in T : g[T] = fun[x] * g[T \ {x}]}
<1>1. \A T \in SUBSET S : g[T] = PartialProduct(fun, g, T) /\ g[T] \in Int
  BY DEF IsPartialProducts
<1>2. ASSUME NEW T \in SUBSET S, \A U \in SUBSET T : U # T => U \in X
      PROVE  T \in X
  <2> SUFFICES ASSUME NEW x \in T PROVE g[T] = fun[x] * g[T \ {x}]
    OBVIOUS
  <2> DEFINE c == CHOOSE y \in T : TRUE
  <2>1. g[T] = fun[c] * g[T \ {c}] /\ c \in T
    BY <1>1 DEF PartialProduct
  <2> HIDE DEF c
  <2>2. CASE x = c
    BY <2>1, <2>2
  <2>3. CASE x # c
    <3>1. T \ {c} \in X /\ T \ {x} \in X
      BY <1>2, <2>1
    <3>2. x \in T \ {c} /\ c \in T \ {x}
      BY <2>1, <2>3
    <3>3. g[T \ {c}] = fun[x] * g[(T \ {c}) \ {x}]
      BY <3>1, <3>2
    <3>4. g[T \ {x}] = fun[c] * g[(T \ {x}) \ {c}]
      BY <3>1, <3>2
    <3>5. (T \ {c}) \ {x} = (T \ {x}) \ {c}
      OBVIOUS
    <3> DEFINE r == g[(T \ {x}) \ {c}]
    <3>6. fun[x] \in Int /\ fun[c] \in Int /\ r \in Int
      BY <1>1, <2>1
    <3>7. g[T] = fun[c] * (fun[x] * r)
      BY <2>1, <3>3, <3>5
    <3>8. g[T \ {x}] = fun[c] * r
      BY <3>4
    <3> HIDE DEF r, X
    <3> QED
      BY <3>6, <3>7, <3>8
  <2> QED
    BY <2>2, <2>3
<1> HIDE DEF X
<1>3. SUBSET S \subseteq X
  BY <1>2, SubsetInduction
<1> QED
  BY <1>3 DEF X

LEMMA ProductType ==
  ASSUME NEW S, IsFiniteSet(S), NEW fun, \A x \in S : fun[x] \in Int
  PROVE  ProductOnSet(fun, S) \in Int
<1>1. PICK g : IsPartialProducts(fun, S, g) /\ ProductOnSet(fun, S) = g[S]
  BY ProductIsPartialProduct
<1> QED
  BY <1>1 DEF IsPartialProducts

LEMMA ProductOfSubset ==
  ASSUME NEW S, IsFiniteSet(S), NEW fun, \A x \in S : fun[x] \in Int, NEW g,
         IsPartialProducts(fun, S, g) /\ ProductOnSet(fun, S) = g[S],
         NEW R \in SUBSET S
  PROVE  ProductOnSet(fun, R) = g[R]
<1>1. IsFiniteSet(R) /\ \A x \in R : fun[x] \in Int
  BY FS_Subset
<1>2. PICK h : IsPartialProducts(fun, R, h) /\ ProductOnSet(fun, R) = h[R]
  BY <1>1, ProductIsPartialProduct
<1>3. ASSUME NEW T \in SUBSET S, NEW x \in T PROVE g[T] = fun[x] * g[T \ {x}]
  BY PartialProductRemove
<1>4. ASSUME NEW T \in SUBSET R, NEW x \in T PROVE h[T] = fun[x] * h[T \ {x}]
  BY <1>1, <1>2, PartialProductRemove
<1> DEFINE X == {T \in SUBSET R : h[T] = g[T]}
<1>5. ASSUME NEW T \in SUBSET R, \A U \in SUBSET T : U # T => U \in X
      PROVE  T \in X
  <2>1. CASE T = {}
    BY <1>2, <2>1 DEF IsPartialProducts, PartialProduct
  <2>2. CASE T # {}
    <3>1. PICK x \in T : TRUE
      BY <2>2
    <3>2. T \ {x} \in X
      BY <1>5, <3>1
    <3>3. h[T \ {x}] = g[T \ {x}]
      BY <3>2
    <3>4. g[T] = fun[x] * g[T \ {x}] /\ h[T] = fun[x] * h[T \ {x}]
      BY <1>3, <1>4, <3>1
    <3> QED
      BY <3>3, <3>4
  <2> QED
    BY <2>1, <2>2
<1> HIDE DEF X
<1>6. SUBSET R \subseteq X
  BY <1>1, <1>5, SubsetInduction
<1> QED
  BY <1>2, <1>6 DEF X

(* A product over a set without one of its elements.                       *)
LEMMA ProductWithout ==
  ASSUME NEW S, IsFiniteSet(S), NEW fun, \A x \in S : fun[x] \in Int, NEW a \in S
  PROVE  ProductOnSet(fun, S) = fun[a] * ProductOnSet(fun, S \ {a})
<1>1. PICK g : IsPartialProducts(fun, S, g) /\ ProductOnSet(fun, S) = g[S]
  BY ProductIsPartialProduct
<1>2. g[S] = fun[a] * g[S \ {a}]
  <2>1. ASSUME NEW T \in SUBSET S, NEW x \in T PROVE g[T] = fun[x] * g[T \ {x}]
    BY <1>1, PartialProductRemove
  <2> QED
    BY <2>1
<1>3. ProductOnSet(fun, S \ {a}) = g[S \ {a}]
  BY <1>1, ProductOfSubset
<1> QED
  BY <1>1, <1>2, <1>3

LEMMA ProductOfNone ==
  ASSUME NEW fun
  PROVE  ProductOnSet(fun, {}) = 1
<1>1. PICK g : IsPartialProducts(fun, {}, g) /\ ProductOnSet(fun, {}) = g[{}]
  BY ProductIsPartialProduct, FS_EmptySet
<1> QED
  BY <1>1 DEF IsPartialProducts, PartialProduct

LEMMA ProductSame ==
  ASSUME NEW S, IsFiniteSet(S), NEW fun, \A x \in S : fun[x] \in Int,
         NEW fun2, \A x \in S : fun2[x] = fun[x]
  PROVE  ProductOnSet(fun2, S) = ProductOnSet(fun, S)
<1> DEFINE X == {T \in SUBSET S : ProductOnSet(fun2, T) = ProductOnSet(fun, T)}
<1>1. ASSUME NEW T \in SUBSET S, \A U \in SUBSET T : U # T => U \in X
      PROVE  T \in X
  <2>1. CASE T = {}
    BY <2>1, ProductOfNone
  <2>2. CASE T # {}
    <3>1. PICK x \in T : TRUE
      BY <2>2
    <3>2. T \ {x} \in X
      BY <1>1, <3>1
    <3>3. IsFiniteSet(T)
      BY FS_Subset
    <3>4. /\ \A y \in T : fun[y] \in Int
          /\ \A y \in T : fun2[y] \in Int
      OBVIOUS
    <3>5. ProductOnSet(fun, T) = fun[x] * ProductOnSet(fun, T \ {x})
      BY <3>1, <3>3, <3>4, ProductWithout
    <3>6. ProductOnSet(fun2, T) = fun2[x] * ProductOnSet(fun2, T \ {x})
      BY <3>1, <3>3, <3>4, ProductWithout
    <3>7. fun2[x] = fun[x]
      BY <3>1
    <3>8. ProductOnSet(fun2, T \ {x}) = ProductOnSet(fun, T \ {x})
      BY <3>2
    <3> QED
      BY <3>5, <3>6, <3>7, <3>8, Zenon
  <2> QED
    BY <2>1, <2>2
<1> HIDE DEF X
<1>2. SUBSET S \subseteq X
  BY <1>1, SubsetInduction
<1> QED
  BY <1>2 DEF X

LEMMA ProductSign ==
  ASSUME NEW S, IsFiniteSet(S), NEW fun,
         \A x \in S : fun[x] \in Int /\ fun[x] >= 0
  PROVE  /\ ProductOnSet(fun, S) \in Int /\ ProductOnSet(fun, S) >= 0
         /\ \A x \in S : fun[x] = 0 => ProductOnSet(fun, S) = 0
<1> DEFINE X == {T \in SUBSET S : ProductOnSet(fun, T) >= 0}
<1>1. ASSUME NEW T \in SUBSET S
      PROVE  /\ IsFiniteSet(T) /\ ProductOnSet(fun, T) \in Int
             /\ \A x \in T : ProductOnSet(fun, T) = fun[x] * ProductOnSet(fun, T \ {x})
  <2>1. IsFiniteSet(T) /\ \A x \in T : fun[x] \in Int
    BY FS_Subset
  <2>2. ProductOnSet(fun, T) \in Int
    BY <2>1, ProductType
  <2>3. ASSUME NEW x \in T
        PROVE  ProductOnSet(fun, T) = fun[x] * ProductOnSet(fun, T \ {x})
    BY <2>1, ProductWithout
  <2> QED
    BY <2>1, <2>2, <2>3
<1>2. ASSUME NEW T \in SUBSET S, \A U \in SUBSET T : U # T => U \in X
      PROVE  T \in X
  <2>1. CASE T = {}
    BY <2>1, ProductOfNone
  <2>2. CASE T # {}
    <3>1. PICK x \in T : TRUE
      BY <2>2
    <3>2. T \ {x} \in X
      BY <1>2, <3>1
    <3>3. /\ ProductOnSet(fun, T) = fun[x] * ProductOnSet(fun, T \ {x})
          /\ ProductOnSet(fun, T \ {x}) \in Int
      BY <1>1, <3>1
    <3>4. fun[x] \in Int /\ fun[x] >= 0 /\ ProductOnSet(fun, T \ {x}) >= 0
      BY <3>1, <3>2
    <3>5. fun[x] * ProductOnSet(fun, T \ {x}) >= 0
      BY <3>3, <3>4, TimesSign
    <3> QED
      BY <3>3, <3>5
  <2> QED
    BY <2>1, <2>2
<1> HIDE DEF X
<1>3. SUBSET S \subseteq X
  BY <1>2, SubsetInduction
<1>4. ASSUME NEW x \in S, fun[x] = 0 PROVE ProductOnSet(fun, S) = 0
  <2>1. /\ ProductOnSet(fun, S) = fun[x] * ProductOnSet(fun, S \ {x})
        /\ ProductOnSet(fun, S \ {x}) \in Int
    BY <1>1
  <2>2. fun[x] * ProductOnSet(fun, S \ {x}) = 0
    BY <1>4, <2>1, TimesSign
  <2> QED
    BY <2>1, <2>2
<1> QED
  BY <1>1, <1>3, <1>4 DEF X

(* If no a[x] falls short of b[x] by more than the W-th root of q/p, then  *)
(* the weighted product of the a[x] falls short of that of the b[x] by no  *)
(* more than q/p to the sum of the weights over W.                         *)
LEMMA WeightedProduct ==
  ASSUME NEW S, IsFiniteSet(S),
         NEW wt, \A x \in S : wt[x] \in Nat,
         NEW a, \A x \in S : a[x] \in Nat,
         NEW b, \A x \in S : b[x] \in Nat,
         NEW W \in Nat, NEW p \in Nat, NEW q \in Nat,
         \A x \in S : Power(b[x], W) * q <= Power(a[x], W) * p
  PROVE  LET A == ProductOnSet([x \in S |-> Power(a[x], wt[x])], S)
             B == ProductOnSet([x \in S |-> Power(b[x], wt[x])], S)
             n == SumFunctionOnSet(wt, S)
         IN  Power(B, W) * Power(q, n) <= Power(A, W) * Power(p, n)
<1> DEFINE f == [x \in S |-> Power(a[x], wt[x])]
           g == [x \in S |-> Power(b[x], wt[x])]
           Ok(T) == Power(ProductOnSet(g, T), W) * Power(q, SumFunctionOnSet(wt, T))
                      <= Power(ProductOnSet(f, T), W)
                           * Power(p, SumFunctionOnSet(wt, T))
           X == {T \in SUBSET S : Ok(T)}
<1>0. \A x \in S : /\ wt[x] \in Int /\ wt[x] >= 0 /\ a[x] \in Int /\ a[x] >= 0
                   /\ b[x] \in Int /\ b[x] >= 0
  OBVIOUS
<1>1. ASSUME NEW x \in S
      PROVE  /\ f[x] = Power(a[x], wt[x]) /\ f[x] \in Int /\ f[x] >= 0
             /\ g[x] = Power(b[x], wt[x]) /\ g[x] \in Int /\ g[x] >= 0
  <2>1. f[x] = Power(a[x], wt[x]) /\ g[x] = Power(b[x], wt[x])
    OBVIOUS
  <2> HIDE DEF f, g
  <2>2. /\ Power(a[x], wt[x]) \in Int /\ Power(a[x], wt[x]) >= 0
        /\ Power(b[x], wt[x]) \in Int /\ Power(b[x], wt[x]) >= 0
    BY <1>0, PowerType, PowerSign
  <2> QED
    BY <2>1, <2>2
<1> HIDE DEF f, g
<1>2. ASSUME NEW T \in SUBSET S, NEW x \in T
      PROVE  /\ ProductOnSet(f, T) = f[x] * ProductOnSet(f, T \ {x})
             /\ ProductOnSet(g, T) = g[x] * ProductOnSet(g, T \ {x})
             /\ SumFunctionOnSet(wt, T) = wt[x] + SumFunctionOnSet(wt, T \ {x})
  <2>1. IsFiniteSet(T)
    BY FS_Subset
  <2>2. \A y \in T : f[y] \in Int
    BY <1>1
  <2>3. \A y \in T : g[y] \in Int
    BY <1>1
  <2>4. \A y \in T : wt[y] \in Int
    OBVIOUS
  <2>5. ProductOnSet(f, T) = f[x] * ProductOnSet(f, T \ {x})
    BY <2>1, <2>2, ProductWithout
  <2>6. ProductOnSet(g, T) = g[x] * ProductOnSet(g, T \ {x})
    BY <2>1, <2>3, ProductWithout
  <2>7. SumFunctionOnSet(wt, T) = wt[x] + SumFunctionOnSet(wt, T \ {x})
    BY <2>1, <2>4, SumWithout
  <2> QED
    BY <2>5, <2>6, <2>7
<1>3. ASSUME NEW T \in SUBSET S
      PROVE  /\ ProductOnSet(f, T) \in Int /\ ProductOnSet(f, T) >= 0
             /\ ProductOnSet(g, T) \in Int /\ ProductOnSet(g, T) >= 0
             /\ SumFunctionOnSet(wt, T) \in Nat
  <2>1. IsFiniteSet(T)
    BY FS_Subset
  <2>2. \A y \in T : f[y] \in Int /\ f[y] >= 0
    BY <1>1
  <2>3. \A y \in T : g[y] \in Int /\ g[y] >= 0
    BY <1>1
  <2>4. (\A y \in T : wt[y] \in Int) /\ \A y \in T : wt[y] >= 0
    BY <1>0
  <2>5. ProductOnSet(f, T) \in Int /\ ProductOnSet(f, T) >= 0
    BY <2>1, <2>2, ProductSign
  <2>6. ProductOnSet(g, T) \in Int /\ ProductOnSet(g, T) >= 0
    BY <2>1, <2>3, ProductSign
  <2>7. SumFunctionOnSet(wt, T) \in Int /\ SumFunctionOnSet(wt, T) >= 0
    BY <2>1, <2>4, SumType, SumBound
  <2> QED
    BY <2>5, <2>6, <2>7
<1>4. ASSUME NEW T \in SUBSET S, \A U \in SUBSET T : U # T => U \in X
      PROVE  T \in X
  <2>1. CASE T = {}
    <3>1. /\ ProductOnSet(f, T) = 1 /\ ProductOnSet(g, T) = 1
          /\ SumFunctionOnSet(wt, T) = 0
      BY <2>1, ProductOfNone, SumZero, FS_EmptySet
    <3>2. \A y \in Int : Power(y, 0) = 1 /\ Power(y, W) \in Int
      BY PowerNext, PowerType
    <3>3. p \in Int /\ q \in Int /\ 1 \in Int
      OBVIOUS
    <3> QED
      BY <3>1, <3>2, <3>3
  <2>2. CASE T # {}
    <3>1. PICK x \in T : TRUE
      BY <2>2
    <3> DEFINE U  == T \ {x}
               fU == ProductOnSet(f, U)
               gU == ProductOnSet(g, U)
               m  == SumFunctionOnSet(wt, U)
    <3>2. U \in SUBSET S /\ U \in X
      BY <1>4, <3>1
    <3>3. Power(gU, W) * Power(q, m) <= Power(fU, W) * Power(p, m)
      BY <3>2
    <3>4. /\ ProductOnSet(f, T) = f[x] * fU /\ ProductOnSet(g, T) = g[x] * gU
          /\ SumFunctionOnSet(wt, T) = wt[x] + m
      BY <1>2, <3>1
    <3>5. /\ fU \in Int /\ fU >= 0 /\ gU \in Int /\ gU >= 0 /\ m \in Nat
      BY <1>3, <3>2
    <3> HIDE DEF fU, gU, m, U, X
    <3> DEFINE k == wt[x]
               c == a[x]
               d == b[x]
    <3>6. /\ k \in Nat /\ c \in Int /\ c >= 0 /\ d \in Int /\ d >= 0 /\ c \in Nat /\ d \in Nat
          /\ f[x] = Power(c, k) /\ g[x] = Power(d, k)
          /\ Power(d, W) * q <= Power(c, W) * p
      BY <1>0, <1>1, <3>1
    <3> HIDE DEF k, c, d
    <3>7. /\ Power(c, W) \in Int /\ Power(c, W) >= 0 /\ Power(d, W) \in Int
          /\ Power(d, W) >= 0 /\ p \in Int /\ p >= 0 /\ q \in Int /\ q >= 0
      BY <3>6, PowerType, PowerSign
    <3>8. Power(Power(d, W) * q, k) <= Power(Power(c, W) * p, k)
      <4>1. /\ Power(d, W) * q \in Int /\ Power(d, W) * q >= 0
            /\ Power(c, W) * p \in Int
        BY <3>7, TimesSign
      <4> QED
        BY <3>6, <4>1, PowerMono
    <3>9. ASSUME NEW z \in Int, NEW y \in Int, NEW u \in Int, z >= 0, y >= 0, u >= 0
          PROVE  /\ Power(Power(z, k) * y, W) * Power(u, k + m)
                      = Power(Power(z, W) * u, k) * (Power(y, W) * Power(u, m))
                 /\ Power(y, W) * Power(u, m) \in Int
                 /\ Power(y, W) * Power(u, m) >= 0
                 /\ Power(Power(z, W) * u, k) \in Int
                 /\ Power(Power(z, W) * u, k) >= 0
      <4>1. /\ Power(z, k) \in Int /\ Power(z, W) \in Int /\ Power(y, W) \in Int
            /\ Power(u, k) \in Int /\ Power(u, m) \in Int
            /\ Power(z, W) >= 0 /\ Power(y, W) >= 0 /\ Power(u, m) >= 0
        BY <3>5, <3>6, <3>9, PowerType, PowerSign
      <4>2. Power(Power(z, k) * y, W) = Power(Power(z, k), W) * Power(y, W)
        <5>1. \A e \in Int : Power(e * y, W) = Power(e, W) * Power(y, W)
          BY <3>9, PowerOfProduct
        <5> QED
          BY <4>1, <5>1
      <4>3. Power(u, k + m) = Power(u, k) * Power(u, m)
        BY <3>5, <3>6, <3>9, PowerOfSum
      <4>4. Power(Power(z, k), W) = Power(Power(z, W), k)
        BY <3>6, <3>9, PowerCommutes
      <4>5. Power(Power(z, W) * u, k) = Power(Power(z, W), k) * Power(u, k)
        BY <3>6, <3>9, <4>1, PowerOfProduct
      <4>6. Power(Power(z, W), k) \in Int
        BY <3>6, <4>1, PowerType
      <4>7. (Power(Power(z, W), k) * Power(y, W)) * (Power(u, k) * Power(u, m))
              = (Power(Power(z, W), k) * Power(u, k)) * (Power(y, W) * Power(u, m))
        BY <4>1, <4>6, TimesSwap
      <4>8. Power(y, W) * Power(u, m) \in Int /\ Power(y, W) * Power(u, m) >= 0
        BY <4>1, TimesSign
      <4>9. Power(z, W) * u \in Int /\ Power(z, W) * u >= 0
        BY <3>9, <4>1, TimesSign
      <4>10. Power(Power(z, W) * u, k) \in Int /\ Power(Power(z, W) * u, k) >= 0
        BY <3>6, <4>9, PowerType, PowerSign
      <4> QED
        BY <4>2, <4>3, <4>4, <4>5, <4>7, <4>8, <4>10, Zenon
    <3>10. Power(Power(d, W) * q, k) * (Power(gU, W) * Power(q, m))
             <= Power(Power(c, W) * p, k) * (Power(fU, W) * Power(p, m))
      <4>1. /\ Power(Power(d, W) * q, k) \in Int /\ Power(Power(d, W) * q, k) >= 0
            /\ Power(gU, W) * Power(q, m) \in Int /\ Power(gU, W) * Power(q, m) >= 0
        BY <3>5, <3>6, <3>7, <3>9
      <4>2. /\ Power(Power(c, W) * p, k) \in Int
            /\ Power(fU, W) * Power(p, m) \in Int
        BY <3>5, <3>6, <3>7, <3>9
      <4> QED
        BY <3>3, <3>8, <4>1, <4>2, TimesMono
    <3>11. Power(g[x] * gU, W) * Power(q, k + m)
             = Power(Power(d, W) * q, k) * (Power(gU, W) * Power(q, m))
      <4>1. Power(Power(d, k) * gU, W) * Power(q, k + m)
              = Power(Power(d, W) * q, k) * (Power(gU, W) * Power(q, m))
        BY <3>5, <3>6, <3>7, <3>9
      <4> QED
        BY <3>6, <4>1, Zenon
    <3>12. Power(f[x] * fU, W) * Power(p, k + m)
             = Power(Power(c, W) * p, k) * (Power(fU, W) * Power(p, m))
      BY <3>5, <3>6, <3>7, <3>9
    <3>13. Ok(T)
      BY <3>4, <3>10, <3>11, <3>12 DEF k
    <3> QED
      BY <3>13 DEF X
  <2> QED
    BY <2>1, <2>2
<1> HIDE DEF X
<1>5. SUBSET S \subseteq X
  BY <1>4, SubsetInduction
<1> QED
  BY <1>5 DEF X, f, g

----------------------------------------------------------------------------
(* What the formulas promise.                                              *)

(* A set of naturals that is not empty has a least element.                *)
LEMMA MinFacts ==
  ASSUME NEW S \in SUBSET Nat, S # {}
  PROVE  Min(S) \in S /\ \A n \in S : Min(S) <= n
<1> DEFINE I == {n \in Nat : \A k \in 0..n : k \notin S}
<1>1. SUFFICES ASSUME \A m \in S : \E k \in S : ~ (m <= k) PROVE FALSE
  BY DEF Min
<1>2. 0 \in I
  BY <1>1
<1>3. ASSUME NEW n \in Nat, n \in I PROVE n + 1 \in I
  <2>1. \A k \in 0..(n + 1) : k \in 0..n \/ k = n + 1
    OBVIOUS
  <2>2. \A k \in 0..n : k \notin S
    BY <1>3
  <2>3. n + 1 \notin S
    <3> SUFFICES ASSUME n + 1 \in S PROVE FALSE
      OBVIOUS
    <3>1. PICK k \in S : ~ (n + 1 <= k)
      BY <1>1
    <3>2. k \in 0..n
      BY <3>1
    <3> QED
      BY <2>2, <3>2
  <2> QED
    BY <2>1, <2>2, <2>3
<1> HIDE DEF I
<1>4. Nat \subseteq I
  BY <1>2, <1>3, NatSetInduction
<1>5. PICK n \in S : TRUE
  OBVIOUS
<1>6. n \in I /\ n \in 0..n
  BY <1>4
<1> QED
  BY <1>5, <1>6 DEF I

(* A set of naturals that is bounded and not empty has a greatest element. *)
LEMMA MaxFacts ==
  ASSUME NEW N \in Nat, NEW S \in SUBSET (0..N), S # {}
  PROVE  Max(S) \in S /\ \A n \in S : Max(S) >= n
<1> DEFINE I == {n \in Nat : \A k \in S : k <= N - n}
<1>1. SUFFICES ASSUME \A m \in S : \E k \in S : ~ (m >= k) PROVE FALSE
  BY DEF Max
<1>2. 0 \in I
  OBVIOUS
<1>3. ASSUME NEW n \in Nat, n \in I PROVE n + 1 \in I
  <2>1. \A k \in S : k \in Int /\ k <= N - n
    BY <1>3
  <2>2. N - n \notin S
    <3> SUFFICES ASSUME N - n \in S PROVE FALSE
      OBVIOUS
    <3>1. PICK k \in S : ~ (N - n >= k)
      BY <1>1
    <3> QED
      BY <2>1, <3>1
  <2>3. \A k \in S : k <= N - (n + 1)
    BY <2>1, <2>2
  <2> QED
    BY <2>3
<1> HIDE DEF I
<1>4. Nat \subseteq I
  BY <1>2, <1>3, NatSetInduction
<1>5. PICK s \in S : TRUE
  OBVIOUS
<1>6. N + 1 \in I
  BY <1>4
<1> QED
  BY <1>5, <1>6 DEF I

(* The powers of balances and supplies.                                    *)
LEMMA NaturalPower ==
  \A e, m \in Nat : /\ Power(e, m) \in Nat
                    /\ e > 0 => Power(e, m) > 0
                    /\ m > 0 => Power(0, m) = 0
BY PowerType, PowerSign

LEMMA SupplyPower == \A n \in Nat : Power(n, PPM_RESOLUTION) \in Nat
BY FormulaAssumption, NaturalPower

(* The fraction that a fee leaves.                                         *)
LEMMA FractionFacts ==
  ASSUME NEW fee \in 0..MAX_FEE
  PROVE  /\ Kept(fee, 1) = MAX_FEE - fee /\ Whole(1) = MAX_FEE
         /\ \A m \in Nat : /\ Kept(fee, m) \in Nat
                           /\ Whole(m) \in Nat \ {0}
                           /\ Kept(fee, m) <= Whole(m)
<1>1. /\ MAX_FEE \in Int /\ MAX_FEE > 0 /\ MAX_FEE - fee \in Int
      /\ 0 <= MAX_FEE - fee /\ MAX_FEE - fee <= MAX_FEE /\ 0 \in Nat
  BY FormulaAssumption
<1>2. Kept(fee, 1) = MAX_FEE - fee /\ Whole(1) = MAX_FEE
  BY <1>1, PowerNext DEF Kept, Whole
<1>3. ASSUME NEW m \in Nat
      PROVE  Kept(fee, m) \in Nat /\ Whole(m) \in Nat \ {0} /\ Kept(fee, m) <= Whole(m)
  <2> DEFINE k == MAX_FEE - fee
  <2>1. k \in Int /\ 0 <= k /\ k <= MAX_FEE
    BY <1>1
  <2>2. Kept(fee, m) = Power(k, m) /\ Whole(m) = Power(MAX_FEE, m)
    BY DEF Kept, Whole
  <2> HIDE DEF k
  <2>3. /\ Power(k, m) \in Int /\ Power(MAX_FEE, m) \in Int
        /\ Power(k, m) >= 0 /\ Power(MAX_FEE, m) > 0
        /\ Power(k, m) <= Power(MAX_FEE, m)
    BY <1>1, <2>1, PowerType, PowerSign, PowerMono
  <2> QED
    BY <2>2, <2>3
<1> QED
  BY <1>2, <1>3

(* A fee only makes a purchase dearer: the fraction of both sides goes.    *)
LEMMA DearerPurchase ==
  ASSUME NEW k \in Nat, NEW u \in Nat \ {0}, k <= u, NEW R \in Nat,
         NEW n \in Nat \ {0}, NEW P \in Nat \ {0}, NEW x \in Nat, NEW y \in Nat,
         Power(k*R + u*n, P) * x <= Power(k*R, P) * y
  PROVE  Power(R + n, P) * x <= Power(R, P) * y
<1> DEFINE a == k * R
           m == u * n
<1>1. a \in Int /\ m \in Int /\ a >= 0 /\ m > 0
  BY TimesSign
<1>2. k * (R + n) <= a + m /\ k * (R + n) \in Int /\ 0 <= k * (R + n)
  <2>1. k * n <= u * n /\ k * n \in Int /\ k * n >= 0
    BY TimesMono, TimesSign
  <2>2. k * (R + n) = k * R + k * n
    BY Z3
  <2> QED
    BY <1>1, <2>1, <2>2
<1>3. Power(a + m, P) * x <= Power(a, P) * y
  OBVIOUS
<1>4. Power(a, P) = Power(k, P) * Power(R, P)
  BY PowerOfProduct
<1> HIDE DEF a, m
<1>5. /\ Power(R, P) \in Int /\ Power(R + n, P) \in Int /\ Power(k, P) \in Int
      /\ Power(a + m, P) \in Int /\ Power(a, P) \in Int
      /\ Power(R, P) >= 0 /\ Power(R + n, P) >= 0 /\ Power(k, P) >= 0
  <2>1. \A e \in Int : Power(e, P) \in Int /\ (e >= 0 => Power(e, P) >= 0)
    BY PowerType, PowerSign
  <2> QED
    BY <1>1, <2>1
<1>6. CASE k = 0
  <2>1. Power(a, P) = 0
    BY <1>4, <1>5, <1>6, PowerSign, TimesSign
  <2>2. Power(a + m, P) * x <= 0
    BY <1>3, <2>1
  <2>3. Power(a + m, P) > 0
    BY <1>1, PowerSign
  <2>4. x = 0
    BY <1>5, <2>2, <2>3, TimesSign
  <2> QED
    BY <1>5, <2>4, TimesSign
<1>7. CASE k > 0
  <2>1. Power(k * (R + n), P) <= Power(a + m, P)
    BY <1>1, <1>2, PowerMono
  <2>2. Power(k * (R + n), P) = Power(k, P) * Power(R + n, P)
    BY PowerOfProduct
  <2>3. /\ Power(k, P) * Power(R + n, P) <= Power(a + m, P)
        /\ 0 <= Power(k, P) * Power(R + n, P)
        /\ Power(k, P) * Power(R + n, P) \in Int
    BY <1>5, <2>1, <2>2, TimesSign
  <2>4. (Power(k, P) * Power(R + n, P)) * x <= Power(a + m, P) * x
    BY <1>5, <2>3, TimesMono
  <2>5. (Power(k, P) * Power(R + n, P)) * x <= (Power(k, P) * Power(R, P)) * y
    <3> DEFINE lhs == (Power(k, P) * Power(R + n, P)) * x
               mid == Power(a + m, P) * x
               rhs == Power(a, P) * y
    <3>1. lhs \in Int /\ mid \in Int /\ rhs \in Int /\ lhs <= mid /\ mid <= rhs
      BY <1>3, <1>5, <2>3, <2>4, TimesSign
    <3>2. lhs <= rhs
      <4> HIDE DEF lhs, mid, rhs
      <4> QED
        BY <3>1
    <3> QED
      BY <1>4, <3>2
  <2>6. /\ (Power(k, P) * Power(R + n, P)) * x = Power(k, P) * (Power(R + n, P) * x)
        /\ (Power(k, P) * Power(R, P)) * y = Power(k, P) * (Power(R, P) * y)
    BY <1>5, TimesSwap
  <2>7. Power(k, P) > 0
    BY <1>7, PowerSign
  <2>8. Power(R + n, P) * x \in Int /\ Power(R, P) * y \in Int
    BY <1>5, TimesSign
  <2> QED
    BY <1>5, <2>5, <2>6, <2>7, <2>8, TimesCancel
<1> QED
  BY <1>6, <1>7

(* The same for what leaves a reserve.                                     *)
LEMMA CheaperSale ==
  ASSUME NEW k \in Nat, NEW u \in Nat \ {0}, k <= u, NEW C \in Nat,
         NEW n \in Nat \ {0}, NEW w \in Nat, NEW x \in Nat, NEW y \in Nat,
         u*n <= k*C,
         Power(k*C - u*n, w) * x >= Power(k*C, w) * y
  PROVE  /\ n <= C
         /\ Power(C, w) * y <= Power(C - n, w) * x
<1> DEFINE a == k * C
           m == u * n
<1>1. a \in Int /\ m \in Int /\ a >= 0 /\ m > 0 /\ m <= a
  BY TimesSign
<1>2. k > 0
  <2> SUFFICES ASSUME k = 0 PROVE FALSE
    OBVIOUS
  <2>1. a = 0
    BY TimesSign
  <2> QED
    BY <1>1, <2>1
<1>3. k * n <= m /\ k * n \in Int
  BY TimesMono, TimesSign
<1>4. n <= C
  <2>1. k * n <= k * C /\ k * C \in Int
    BY <1>1, <1>3
  <2> QED
    BY <1>2, <2>1, TimesCancel
<1>5. C - n \in Nat
  BY <1>4
<1>6. k * (C - n) = a - k * n
  BY Z3
<1>7. a - m <= k * (C - n) /\ k * (C - n) \in Int /\ 0 <= a - m /\ a - m \in Int
  BY <1>1, <1>3, <1>6
<1>8. Power(a - m, w) * x >= Power(a, w) * y
  OBVIOUS
<1>9. Power(a, w) = Power(k, w) * Power(C, w)
  BY PowerOfProduct
<1>10. Power(k * (C - n), w) = Power(k, w) * Power(C - n, w)
  BY <1>5, PowerOfProduct
<1> HIDE DEF a, m
<1>11. /\ Power(C, w) \in Int /\ Power(C - n, w) \in Int /\ Power(k, w) \in Int
       /\ Power(a - m, w) \in Int /\ Power(a, w) \in Int
       /\ Power(k, w) > 0 /\ Power(a - m, w) >= 0
  <2>1. \A e \in Int : /\ Power(e, w) \in Int
                       /\ e >= 0 => Power(e, w) >= 0
                       /\ e > 0 => Power(e, w) > 0
    BY PowerType, PowerSign
  <2> QED
    BY <1>1, <1>2, <1>5, <1>7, <2>1
<1>12. Power(a - m, w) <= Power(k, w) * Power(C - n, w)
  BY <1>7, <1>10, PowerMono
<1>13. Power(k, w) * Power(C - n, w) \in Int
  BY <1>11, TimesSign
<1>14. Power(a - m, w) * x <= (Power(k, w) * Power(C - n, w)) * x
  BY <1>11, <1>12, <1>13, TimesMono
<1>15. (Power(k, w) * Power(C, w)) * y <= (Power(k, w) * Power(C - n, w)) * x
  <2> DEFINE lhs == Power(a, w) * y
             mid == Power(a - m, w) * x
             rhs == (Power(k, w) * Power(C - n, w)) * x
  <2>1. lhs \in Int /\ mid \in Int /\ rhs \in Int /\ lhs <= mid /\ mid <= rhs
    BY <1>8, <1>11, <1>13, <1>14, TimesSign
  <2>2. lhs <= rhs
    <3> HIDE DEF lhs, mid, rhs
    <3> QED
      BY <2>1
  <2> QED
    BY <1>9, <2>2
<1>16. /\ (Power(k, w) * Power(C, w)) * y = Power(k, w) * (Power(C, w) * y)
       /\ (Power(k, w) * Power(C - n, w)) * x = Power(k, w) * (Power(C - n, w) * x)
  BY <1>11, TimesSwap
<1>17. Power(C, w) * y \in Int /\ Power(C - n, w) * x \in Int
  BY <1>11, TimesSign
<1>18. Power(C, w) * y <= Power(C - n, w) * x
  BY <1>11, <1>15, <1>16, <1>17, TimesCancel
<1> QED
  BY <1>4, <1>18

(* A purchase: the smart tokens issued are paid for.                       *)
LEMMA PurchaseValue ==
  ASSUME NEW C \in Nat, NEW T \in Nat, NEW R \in Nat, NEW w \in Nat,
         NEW fee \in 0..MAX_FEE, PurchaseReturn(C, T, R, w, fee) \in Nat \ {0}
  PROVE  Power(C, w) * Power(R + PurchaseReturn(C, T, R, w, fee), PPM_RESOLUTION)
           <= Power(C + T, w) * Power(R, PPM_RESOLUTION)
<1> DEFINE k == Kept(fee, 1)
           u == Whole(1)
           P == PPM_RESOLUTION
           S == {n \in 0..MaxReturn : n = 0 \/
                   Power(k*R + u*n, P) * Power(C, w) <= Power(k*R, P) * Power(C + T, w)}
           n == PurchaseReturn(C, T, R, w, fee)
<1>1. n = Max(S)
  BY DEF PurchaseReturn, Largest
<1>2. MaxReturn \in Nat /\ P \in Nat \ {0}
  BY FormulaAssumption
<1>3. S \in SUBSET (0..MaxReturn) /\ S # {}
  <2>1. 0 \in S
    BY <1>2
  <2> QED
    BY <2>1
<1>4. n \in S
  <2> HIDE DEF S, n
  <2> QED
    BY <1>1, <1>2, <1>3, MaxFacts
<1>5. k \in Nat /\ u \in Nat \ {0} /\ k <= u
  BY FractionFacts
<1>6. n \in Nat \ {0}
  OBVIOUS
<1>7. Power(k*R + u*n, P) * Power(C, w) <= Power(k*R, P) * Power(C + T, w)
  BY <1>4, <1>6
<1> HIDE DEF k, u, S, n, P
<1>8. /\ Power(C, w) \in Nat /\ Power(C + T, w) \in Nat
      /\ Power(R + n, P) \in Int /\ Power(R, P) \in Int
  <2>1. \A e \in Int : Power(e, w) \in Int /\ (e >= 0 => Power(e, w) >= 0)
    BY PowerType, PowerSign
  <2>2. \A e \in Int : Power(e, P) \in Int
    BY <1>2, PowerType
  <2> QED
    BY <1>6, <2>1, <2>2
<1>9. Power(R + n, P) * Power(C, w) <= Power(R, P) * Power(C + T, w)
  BY <1>2, <1>5, <1>6, <1>7, <1>8, DearerPurchase
<1>10. Power(C, w) * Power(R + n, P) <= Power(C + T, w) * Power(R, P)
  BY <1>8, <1>9, TimesSign
<1> QED
  BY <1>10 DEF n, P

(* A sale: the tokens paid out are worth no more than those retired.       *)
LEMMA SaleValue ==
  ASSUME NEW C \in Nat, NEW E \in Nat, NEW R \in Nat, E <= R, NEW w \in Nat,
         NEW fee \in 0..MAX_FEE, SaleReturn(C, E, R, w, fee) \in Nat \ {0}
  PROVE  LET n == SaleReturn(C, E, R, w, fee)
         IN  /\ n <= C
             /\ Power(C, w) * Power(R - E, PPM_RESOLUTION)
                  <= Power(C - n, w) * Power(R, PPM_RESOLUTION)
<1> DEFINE k == Kept(fee, 1)
           u == Whole(1)
           P == PPM_RESOLUTION
           S == {n \in 0..MaxReturn : n = 0 \/
                   /\ u*n <= k*C
                   /\ Power(k*C - u*n, w) * Power(R, P) >= Power(k*C, w) * Power(R - E, P)}
           n == SaleReturn(C, E, R, w, fee)
<1>1. n = Max(S)
  BY DEF SaleReturn, Largest
<1>2. MaxReturn \in Nat /\ P \in Nat
  BY FormulaAssumption
<1>3. S \in SUBSET (0..MaxReturn) /\ S # {}
  <2>1. 0 \in S
    BY <1>2
  <2> QED
    BY <2>1
<1>4. n \in S
  <2> HIDE DEF S, n
  <2> QED
    BY <1>1, <1>2, <1>3, MaxFacts
<1>5. k \in Nat /\ u \in Nat \ {0} /\ k <= u
  BY FractionFacts
<1>6. n \in Nat \ {0}
  OBVIOUS
<1>7. /\ u*n <= k*C
      /\ Power(k*C - u*n, w) * Power(R, P) >= Power(k*C, w) * Power(R - E, P)
  BY <1>4, <1>6
<1> HIDE DEF k, u, S, n, P
<1>8. Power(R, P) \in Nat /\ Power(R - E, P) \in Nat
  <2>1. \A e \in Int : Power(e, P) \in Int /\ (e >= 0 => Power(e, P) >= 0)
    BY <1>2, PowerType, PowerSign
  <2> QED
    BY <2>1
<1>9. n <= C /\ Power(C, w) * Power(R - E, P) <= Power(C - n, w) * Power(R, P)
  <2>1. \A x, y \in Nat : Power(k*C - u*n, w) * x >= Power(k*C, w) * y =>
          n <= C /\ Power(C, w) * y <= Power(C - n, w) * x
    BY <1>5, <1>6, <1>7, CheaperSale
  <2> QED
    BY <1>7, <1>8, <2>1
<1> QED
  BY <1>9 DEF n, P

(* An exchange of one reserve for another.                                 *)
LEMMA CrossValue ==
  ASSUME NEW C \in Nat, NEW v \in Nat, NEW T \in Nat, NEW B \in Nat, NEW w \in Nat,
         NEW fee \in 0..MAX_FEE, CrossReturn(C, v, T, B, w, fee) \in Nat \ {0}
  PROVE  LET n == CrossReturn(C, v, T, B, w, fee)
         IN  /\ n <= B
             /\ Power(B, w) * Power(C, v) <= Power(B - n, w) * Power(C + T, v)
<1> DEFINE k == Kept(fee, 2)
           u == Whole(2)
           S == {n \in 0..MaxReturn : n = 0 \/
                   /\ u*n <= k*B
                   /\ Power(k*B - u*n, w) * Power(C + T, v) >= Power(k*B, w) * Power(C, v)}
           n == CrossReturn(C, v, T, B, w, fee)
<1>1. n = Max(S)
  BY DEF CrossReturn, Largest
<1>2. MaxReturn \in Nat
  BY FormulaAssumption
<1>3. S \in SUBSET (0..MaxReturn) /\ S # {}
  <2>1. 0 \in S
    BY <1>2
  <2> QED
    BY <2>1
<1>4. n \in S
  <2> HIDE DEF S, n
  <2> QED
    BY <1>1, <1>2, <1>3, MaxFacts
<1>5. k \in Nat /\ u \in Nat \ {0} /\ k <= u
  BY FractionFacts
<1>6. n \in Nat \ {0}
  OBVIOUS
<1>7. /\ u*n <= k*B
      /\ Power(k*B - u*n, w) * Power(C + T, v) >= Power(k*B, w) * Power(C, v)
  BY <1>4, <1>6
<1> HIDE DEF k, u, S, n
<1>8. Power(C + T, v) \in Nat /\ Power(C, v) \in Nat
  <2>1. \A e \in Int : Power(e, v) \in Int /\ (e >= 0 => Power(e, v) >= 0)
    BY PowerType, PowerSign
  <2> QED
    BY <2>1
<1>9. n <= B /\ Power(B, w) * Power(C, v) <= Power(B - n, w) * Power(C + T, v)
  BY <1>5, <1>6, <1>7, <1>8, CheaperSale
<1> QED
  BY <1>9 DEF n

(* The cost of funding is a number of units.                               *)
LEMMA FundCostType ==
  ASSUME NEW b, NEW f, NEW s, NEW total
  PROVE  FundCost(b, f, s, total) \in 0..MaxReturn
<1> DEFINE S == {n \in 0..MaxReturn : n = MaxReturn \/
                   Power(b + n, total) * Power(s, PPM_RESOLUTION)
                     >= Power(b, total) * Power(s + f, PPM_RESOLUTION)}
<1>1. FundCost(b, f, s, total) = Min(S)
  BY DEF FundCost, Smallest
<1>2. MaxReturn \in Nat
  BY FormulaAssumption
<1>3. S \in SUBSET Nat /\ MaxReturn \in S /\ S \subseteq 0..MaxReturn
  BY <1>2
<1> HIDE DEF S
<1>4. Min(S) \in S
  BY <1>3, MinFacts
<1> QED
  BY <1>1, <1>3, <1>4

(* Funding: the cost buys the share of the reserve that it should.         *)
LEMMA FundValue ==
  ASSUME NEW b \in Nat, NEW f \in Nat, NEW s \in Nat, NEW total \in Nat,
         FundCost(b, f, s, total) # MaxReturn
  PROVE  LET n == FundCost(b, f, s, total)
         IN  Power(b, total) * Power(s + f, PPM_RESOLUTION)
               <= Power(b + n, total) * Power(s, PPM_RESOLUTION)
<1> DEFINE S == {n \in 0..MaxReturn : n = MaxReturn \/
                   Power(b + n, total) * Power(s, PPM_RESOLUTION)
                     >= Power(b, total) * Power(s + f, PPM_RESOLUTION)}
           n == FundCost(b, f, s, total)
<1>1. n = Min(S)
  BY DEF FundCost, Smallest
<1>2. MaxReturn \in Nat /\ PPM_RESOLUTION \in Nat
  BY FormulaAssumption
<1>3. S \in SUBSET Nat /\ S # {} /\ S \subseteq 0..MaxReturn
  <2>1. MaxReturn \in S
    BY <1>2
  <2> QED
    BY <2>1
<1>4. n \in S
  <2> HIDE DEF S, n
  <2> QED
    BY <1>1, <1>3, MinFacts
<1>5. Power(b + n, total) * Power(s, PPM_RESOLUTION)
        >= Power(b, total) * Power(s + f, PPM_RESOLUTION)
  BY <1>4
<1>6. n \in Nat
  BY <1>3, <1>4
<1>7. /\ Power(b + n, total) * Power(s, PPM_RESOLUTION) \in Int
      /\ Power(b, total) * Power(s + f, PPM_RESOLUTION) \in Int
  <2> HIDE DEF n
  <2>1. /\ \A x \in Int : Power(x, total) \in Int
        /\ \A x \in Int : Power(x, PPM_RESOLUTION) \in Int
    BY <1>2, PowerType
  <2>2. b + n \in Int /\ s + f \in Int /\ b \in Int /\ s \in Int
    BY <1>6
  <2>3. /\ Power(b + n, total) \in Int /\ Power(s, PPM_RESOLUTION) \in Int
        /\ Power(b, total) \in Int /\ Power(s + f, PPM_RESOLUTION) \in Int
    BY <2>1, <2>2
  <2> QED
    BY <2>3, TimesSign
<1> HIDE DEF n, S
<1>8. Power(b, total) * Power(s + f, PPM_RESOLUTION)
        <= Power(b + n, total) * Power(s, PPM_RESOLUTION)
  BY <1>5, <1>7
<1> QED
  BY <1>8 DEF n

(* Liquidation: the share paid out is not larger than the one retired.     *)
LEMMA LiquidateValue ==
  ASSUME NEW b \in Nat, NEW s \in Nat, NEW l \in Nat, l <= s, NEW total \in Nat
  PROVE  LET n == LiquidateReturn(b, l, s, total)
         IN  /\ n \in 0..b
             /\ Power(b, total) * Power(s - l, PPM_RESOLUTION)
                  <= Power(b - n, total) * Power(s, PPM_RESOLUTION)
<1> DEFINE P == PPM_RESOLUTION
           S == {n \in 0..MaxReturn : n = 0 \/
                   /\ n <= b
                   /\ Power(b - n, total) * Power(s, P)
                        >= Power(b, total) * Power(s - l, P)}
           n == LiquidateReturn(b, l, s, total)
<1>1. n = Max(S)
  BY DEF LiquidateReturn, Largest
<1>2. MaxReturn \in Nat /\ P \in Nat
  BY FormulaAssumption
<1>3. S \in SUBSET (0..MaxReturn) /\ S # {}
  <2>1. 0 \in S
    BY <1>2
  <2> QED
    BY <2>1
<1>4. n \in S
  <2> HIDE DEF S, n
  <2> QED
    BY <1>1, <1>2, <1>3, MaxFacts
<1>5. n \in Nat /\ (n = 0 \/ (n <= b /\ Power(b - n, total) * Power(s, P)
                                        >= Power(b, total) * Power(s - l, P)))
  BY <1>4
<1> HIDE DEF S, n, P
<1>6. n \in 0..b /\ b - n \in Nat /\ s - l \in Nat
  BY <1>5
<1>7. /\ Power(b, total) \in Int /\ Power(b, total) >= 0
      /\ Power(b - n, total) \in Int
      /\ Power(s, P) \in Int
      /\ Power(s - l, P) \in Int /\ Power(s - l, P) >= 0
  <2>1. \A x \in Nat : Power(x, total) \in Int /\ Power(x, total) >= 0
    BY PowerType, PowerSign
  <2>2. \A x \in Nat : Power(x, P) \in Int /\ Power(x, P) >= 0
    BY <1>2, PowerType, PowerSign
  <2> QED
    BY <1>6, <2>1, <2>2
<1>8. Power(b, total) * Power(s - l, P) <= Power(b - n, total) * Power(s, P)
  <2>1. CASE n = 0
    <3>1. Power(s - l, P) <= Power(s, P)
      <4>1. \A x \in Nat : x <= s => Power(x, P) <= Power(s, P)
        BY <1>2, PowerMono
      <4> QED
        BY <1>6, <4>1
    <3>2. Power(b, total) * Power(s - l, P) <= Power(b, total) * Power(s, P)
      BY <1>6, <1>7, <3>1, TimesMono
    <3>3. b - n = b
      BY <2>1
    <3> QED
      BY <3>2, <3>3
  <2>2. CASE n # 0
    <3>1. Power(b - n, total) * Power(s, P) >= Power(b, total) * Power(s - l, P)
      BY <1>5, <2>2
    <3>2. /\ Power(b - n, total) * Power(s, P) \in Int
          /\ Power(b, total) * Power(s - l, P) \in Int
      BY <1>7, TimesSign
    <3> QED
      BY <3>1, <3>2
  <2> QED
    BY <2>1, <2>2
<1> QED
  BY <1>6, <1>8 DEF n, P
=============================================================================
