------------------------- MODULE FormulaCheckProofs -------------------------
(***************************************************************************)
(* What FormulaCheck finds for small inputs, proved for every resolution   *)
(* of the weights, every fee and every bound.                              *)
(***************************************************************************)
EXTENDS FormulaCheck, FormulaProofs

----------------------------------------------------------------------------
(* Greatest and least elements, quotients and powers.                      *)

(* The greatest and the least element of a set, given the element.         *)
LEMMA MaxIs ==
  ASSUME NEW N \in Nat, NEW S \in SUBSET (0..N), NEW q \in S,
         \A n \in S : n <= q
  PROVE  Max(S) = q
<1>0. S # {}
  OBVIOUS
<1>1. Max(S) \in S /\ Max(S) >= q
  BY <1>0, MaxFacts, Zenon
<1>2. Max(S) <= q
  BY <1>1
<1>3. Max(S) \in Int /\ q \in Int
  <2>1. \A n \in S : n \in Int
    OBVIOUS
  <2> QED
    BY <1>1, <2>1
<1> QED
  BY <1>1, <1>2, <1>3

LEMMA MinIs ==
  ASSUME NEW S \in SUBSET Nat, NEW q \in S, \A n \in S : n >= q
  PROVE  Min(S) = q
<1>0. S # {}
  OBVIOUS
<1>1. Min(S) \in S /\ Min(S) <= q
  BY <1>0, MinFacts, Zenon
<1>2. Min(S) >= q
  BY <1>1
<1>3. Min(S) \in Int /\ q \in Int
  <2>1. \A n \in S : n \in Int
    OBVIOUS
  <2> QED
    BY <1>1, <2>1
<1> QED
  BY <1>1, <1>2, <1>3

LEMMA MaxAbove ==
  ASSUME NEW N \in Nat, NEW S \in SUBSET (0..N), NEW n \in S
  PROVE  n <= Max(S)
BY MaxFacts

(* The quotient is the largest number of times the divisor fits.           *)
LEMMA QuotientFits ==
  ASSUME NEW a \in Nat, NEW b \in Nat \ {0}
  PROVE  /\ a \div b \in Nat
         /\ (a \div b) * b <= a
         /\ a < (a \div b) * b + b
BY Z3

LEMMA QuotientIsLargest ==
  ASSUME NEW a \in Nat, NEW b \in Nat \ {0}, NEW n \in Nat
  PROVE  n * b <= a <=> n <= a \div b
<1> DEFINE q == a \div b
<1>1. q \in Nat /\ q * b <= a /\ a < q * b + b
  BY QuotientFits
<1> HIDE DEF q
<1>2. ASSUME n <= q PROVE n * b <= a
  <2>1. n * b <= q * b /\ n * b \in Int /\ q * b \in Int
    BY <1>1, <1>2, TimesMono, TimesSign
  <2> QED
    BY <1>1, <2>1
<1>3. ASSUME n > q PROVE n * b > a
  <2>1. (q + 1) * b <= n * b /\ n * b \in Int /\ (q + 1) * b \in Int
    BY <1>1, <1>3, TimesMono, TimesSign
  <2>2. (q + 1) * b = q * b + b /\ q * b \in Int
    BY <1>1, Z3
  <2> QED
    BY <1>1, <2>1, <2>2
<1>4. n * b \in Int
  BY TimesSign
<1> QED
  BY <1>1, <1>2, <1>3, <1>4 DEF q

(* Rounded up, it is the smallest number that reaches it.                  *)
LEMMA RoundedUpIsSmallest ==
  ASSUME NEW a \in Nat, NEW b \in Nat \ {0}, NEW n \in Nat
  PROVE  n * b >= a <=> n >= (a + b - 1) \div b
<1> DEFINE q == (a + b - 1) \div b
<1>1. a + b - 1 \in Nat
  OBVIOUS
<1>2. \A m \in Nat : m * b <= a + b - 1 <=> m <= q
  BY <1>1, QuotientIsLargest
<1>3. q \in Nat
  BY <1>1, QuotientFits
<1> HIDE DEF q
<1>4. n * b \in Nat
  BY TimesSign
<1>5. CASE n = 0
  <2>1. n * b = 0
    BY <1>5, TimesSign
  <2>2. 1 * b = b
    OBVIOUS
  <2>3. b <= a + b - 1 <=> 1 <= q
    BY <1>2, <2>2
  <2> QED
    BY <1>3, <1>5, <2>1, <2>3
<1>6. CASE n > 0
  <2>1. (n + 1) * b = n * b + b
    BY Z3
  <2>2. n * b + b <= a + b - 1 <=> n + 1 <= q
    BY <1>2, <2>1
  <2> QED
    BY <1>3, <1>4, <2>2
<1> QED
  BY <1>5, <1>6 DEF q

(* The same power on both sides can be taken off.                          *)
LEMMA PowersCompare ==
  ASSUME NEW a \in Nat, NEW b \in Nat, NEW c \in Nat, NEW d \in Nat,
         NEW n \in Nat \ {0}
  PROVE  Power(a, n) * Power(b, n) <= Power(c, n) * Power(d, n)
           <=> a * b <= c * d
<1>1. a * b \in Nat /\ c * d \in Nat
  BY TimesSign
<1>2. /\ Power(a * b, n) = Power(a, n) * Power(b, n)
      /\ Power(c * d, n) = Power(c, n) * Power(d, n)
  BY PowerOfProduct
<1> DEFINE x == a * b
           y == c * d
<1>3. Power(x, n) <= Power(y, n) <=> x <= y
  <2>1. x \in Int /\ y \in Int /\ 0 <= x /\ 0 <= y
    BY <1>1
  <2> HIDE DEF x, y
  <2> QED
    BY <2>1, PowerMono, PowerCancel
<1> QED
  BY <1>2, <1>3

LEMMA SamePowerCancel ==
  ASSUME NEW a \in Nat, NEW b \in Nat, NEW n \in Nat \ {0},
         NEW y \in Nat \ {0}, NEW m \in Nat,
         Power(a, n) * Power(y, m) <= Power(b, n) * Power(y, m)
  PROVE  a <= b
<1>1. /\ Power(a, n) \in Int /\ Power(b, n) \in Int
      /\ Power(y, m) \in Int /\ Power(y, m) > 0
  BY PowerType, PowerSign
<1>2. Power(y, m) * Power(a, n) <= Power(y, m) * Power(b, n)
  BY <1>1, TimesSign
<1>3. Power(a, n) <= Power(b, n)
  BY <1>1, <1>2, TimesCancel
<1> QED
  BY <1>3, PowerCancel

----------------------------------------------------------------------------
(* What fits, and that each formula picks the largest (or smallest) of it. *)

PurchaseFits(b, e, s, x, f, n) ==
  Power(Kept(f, 1)*s + Whole(1)*n, PPM_RESOLUTION) * Power(b, x)
    <= Power(Kept(f, 1)*s, PPM_RESOLUTION) * Power(b + e, x)

SaleFits(b, e, s, x, f, n) ==
  /\ Whole(1)*n <= Kept(f, 1)*b
  /\ Power(Kept(f, 1)*b - Whole(1)*n, x) * Power(s, PPM_RESOLUTION)
       >= Power(Kept(f, 1)*b, x) * Power(s - e, PPM_RESOLUTION)

CrossFits(b, x, e, c, y, f, n) ==
  /\ Whole(2)*n <= Kept(f, 2)*c
  /\ Power(Kept(f, 2)*c - Whole(2)*n, y) * Power(b + e, x)
       >= Power(Kept(f, 2)*c, y) * Power(b, x)

FundFits(b, e, s, t, n) ==
  Power(b + n, t) * Power(s, PPM_RESOLUTION)
    >= Power(b, t) * Power(s + e, PPM_RESOLUTION)

LiquidateFits(b, e, s, t, n) ==
  /\ n <= b
  /\ Power(b - n, t) * Power(s, PPM_RESOLUTION)
       >= Power(b, t) * Power(s - e, PPM_RESOLUTION)

LEMMA PurchaseIsLargest ==
  ASSUME NEW b, NEW e, NEW s, NEW x, NEW f
  PROVE  LET r == PurchaseReturn(b, e, s, x, f)
         IN  /\ r \in 0..MaxReturn
             /\ r = 0 \/ PurchaseFits(b, e, s, x, f, r)
             /\ \A n \in 0..MaxReturn : PurchaseFits(b, e, s, x, f, n) => n <= r
<1> DEFINE S == {n \in 0..MaxReturn : n = 0 \/ PurchaseFits(b, e, s, x, f, n)}
           r == PurchaseReturn(b, e, s, x, f)
<1>1. r = Max(S)
  BY DEF PurchaseReturn, Largest, PurchaseFits
<1>2. MaxReturn \in Nat
  BY FormulaAssumption
<1>3. S \in SUBSET (0..MaxReturn) /\ 0 \in S
  BY <1>2
<1>4. r \in S /\ \A n \in S : n <= r
  <2> HIDE DEF S, r
  <2>1. Max(S) \in S
    BY <1>2, <1>3, MaxFacts
  <2>2. \A n \in S : n <= Max(S)
    BY <1>2, <1>3, MaxAbove
  <2> QED
    BY <1>1, <2>1, <2>2
<1> QED
  BY <1>4

LEMMA SaleIsLargest ==
  ASSUME NEW b, NEW e, NEW s, NEW x, NEW f
  PROVE  LET r == SaleReturn(b, e, s, x, f)
         IN  /\ r \in 0..MaxReturn
             /\ r = 0 \/ SaleFits(b, e, s, x, f, r)
             /\ \A n \in 0..MaxReturn : SaleFits(b, e, s, x, f, n) => n <= r
<1> DEFINE S == {n \in 0..MaxReturn : n = 0 \/ SaleFits(b, e, s, x, f, n)}
           r == SaleReturn(b, e, s, x, f)
<1>1. r = Max(S)
  BY DEF SaleReturn, Largest, SaleFits
<1>2. MaxReturn \in Nat
  BY FormulaAssumption
<1>3. S \in SUBSET (0..MaxReturn) /\ 0 \in S
  BY <1>2
<1>4. r \in S /\ \A n \in S : n <= r
  <2> HIDE DEF S, r
  <2>1. Max(S) \in S
    BY <1>2, <1>3, MaxFacts
  <2>2. \A n \in S : n <= Max(S)
    BY <1>2, <1>3, MaxAbove
  <2> QED
    BY <1>1, <2>1, <2>2
<1> QED
  BY <1>4

LEMMA CrossIsLargest ==
  ASSUME NEW b, NEW x, NEW e, NEW c, NEW y, NEW f
  PROVE  LET r == CrossReturn(b, x, e, c, y, f)
         IN  /\ r \in 0..MaxReturn
             /\ r = 0 \/ CrossFits(b, x, e, c, y, f, r)
             /\ \A n \in 0..MaxReturn : CrossFits(b, x, e, c, y, f, n) => n <= r
<1> DEFINE S == {n \in 0..MaxReturn : n = 0 \/ CrossFits(b, x, e, c, y, f, n)}
           r == CrossReturn(b, x, e, c, y, f)
<1>1. r = Max(S)
  BY DEF CrossReturn, Largest, CrossFits
<1>2. MaxReturn \in Nat
  BY FormulaAssumption
<1>3. S \in SUBSET (0..MaxReturn) /\ 0 \in S
  BY <1>2
<1>4. r \in S /\ \A n \in S : n <= r
  <2> HIDE DEF S, r
  <2>1. Max(S) \in S
    BY <1>2, <1>3, MaxFacts
  <2>2. \A n \in S : n <= Max(S)
    BY <1>2, <1>3, MaxAbove
  <2> QED
    BY <1>1, <2>1, <2>2
<1> QED
  BY <1>4

LEMMA LiquidateIsLargest ==
  ASSUME NEW b, NEW e, NEW s, NEW t
  PROVE  LET r == LiquidateReturn(b, e, s, t)
         IN  /\ r \in 0..MaxReturn
             /\ r = 0 \/ LiquidateFits(b, e, s, t, r)
             /\ \A n \in 0..MaxReturn : LiquidateFits(b, e, s, t, n) => n <= r
<1> DEFINE S == {n \in 0..MaxReturn : n = 0 \/ LiquidateFits(b, e, s, t, n)}
           r == LiquidateReturn(b, e, s, t)
<1>1. r = Max(S)
  BY DEF LiquidateReturn, Largest, LiquidateFits
<1>2. MaxReturn \in Nat
  BY FormulaAssumption
<1>3. S \in SUBSET (0..MaxReturn) /\ 0 \in S
  BY <1>2
<1>4. r \in S /\ \A n \in S : n <= r
  <2> HIDE DEF S, r
  <2>1. Max(S) \in S
    BY <1>2, <1>3, MaxFacts
  <2>2. \A n \in S : n <= Max(S)
    BY <1>2, <1>3, MaxAbove
  <2> QED
    BY <1>1, <2>1, <2>2
<1> QED
  BY <1>4

LEMMA FundIsSmallest ==
  ASSUME NEW b, NEW e, NEW s, NEW t
  PROVE  LET r == FundCost(b, e, s, t)
         IN  /\ r \in 0..MaxReturn
             /\ r = MaxReturn \/ FundFits(b, e, s, t, r)
             /\ \A n \in 0..MaxReturn : FundFits(b, e, s, t, n) => r <= n
<1> DEFINE S == {n \in 0..MaxReturn : n = MaxReturn \/ FundFits(b, e, s, t, n)}
           r == FundCost(b, e, s, t)
<1>1. r = Min(S)
  BY DEF FundCost, Smallest, FundFits
<1>2. S \in SUBSET Nat /\ MaxReturn \in S
  BY FormulaAssumption
<1>3. r \in S /\ \A n \in S : r <= n
  <2> HIDE DEF S, r
  <2>1. S # {}
    BY <1>2
  <2>2. Min(S) \in S /\ \A n \in S : Min(S) <= n
    BY <1>2, <2>1, MinFacts, Zenon
  <2> QED
    BY <1>1, <2>2
<1> QED
  BY <1>3

----------------------------------------------------------------------------
(* Going round.                                                            *)

(* What a purchase issues, sold at once, returns at most what was paid.    *)
LEMMA PurchaseAndSale ==
  ASSUME NEW b \in Nat \ {0}, NEW e \in Nat, NEW s \in Nat \ {0},
         NEW x \in Nat \ {0}, NEW f \in 0..MAX_FEE
  PROVE  LET n == PurchaseReturn(b, e, s, x, f)
         IN  SaleReturn(b + e, n, s + n, x, f) <= e
<1> DEFINE n == PurchaseReturn(b, e, s, x, f)
           m == SaleReturn(b + e, n, s + n, x, f)
           P == PPM_RESOLUTION
<1>1. n \in Nat /\ m \in Nat /\ P \in Nat
  BY PurchaseIsLargest, SaleIsLargest, FormulaAssumption
<1>2. Power(b, x) * Power(s + n, P) <= Power(b + e, x) * Power(s, P)
  <2>1. CASE n = 0
    <3>1. /\ Power(b, x) \in Nat /\ Power(b + e, x) \in Nat
          /\ Power(s, P) \in Nat
          /\ Power(b, x) <= Power(b + e, x)
      <4>1. \A a, k \in Nat : Power(a, k) \in Nat
        BY NaturalPower
      <4>2. \A a \in Nat : b <= a => Power(b, x) <= Power(a, x)
        BY PowerMono
      <4>3. b + e \in Nat /\ b <= b + e
        OBVIOUS
      <4> HIDE DEF P, n, m
      <4> QED
        BY <1>1, <4>1, <4>2, <4>3
    <3>2. s + n = s
      BY <2>1
    <3> HIDE DEF n
    <3> QED
      BY <3>1, <3>2, TimesMono
  <2>2. CASE n # 0
    <3>1. n \in Nat \ {0}
      BY <1>1, <2>2
    <3> QED
      BY <3>1, PurchaseValue
  <2> QED
    BY <2>1, <2>2
<1>3. CASE m = 0
  BY <1>3
<1>4. CASE m # 0
  <2>1. /\ m <= b + e
        /\ Power(b + e, x) * Power((s + n) - n, P)
             <= Power((b + e) - m, x) * Power(s + n, P)
    <3>1. \A a, r \in Nat : n <= r /\ SaleReturn(a, n, r, x, f) \in Nat \ {0} =>
            LET k == SaleReturn(a, n, r, x, f)
            IN  /\ k <= a
                /\ Power(a, x) * Power(r - n, P) <= Power(a - k, x) * Power(r, P)
      <4> HIDE DEF n, m
      <4> QED
        BY <1>1, SaleValue
    <3>2. b + e \in Nat /\ s + n \in Nat /\ n <= s + n /\ m \in Nat \ {0}
      <4> HIDE DEF n, m
      <4> QED
        BY <1>1, <1>4
    <3> QED
      BY <3>1, <3>2
  <2> HIDE DEF n, m, P
  <2>2. /\ (s + n) - n = s /\ (b + e) - m \in Nat /\ s + n \in Nat \ {0}
    BY <1>1, <2>1
  <2>3. Power(b, x) * Power(s + n, P) <= Power((b + e) - m, x) * Power(s + n, P)
    <3>1. /\ Power(b, x) * Power(s + n, P) \in Nat
          /\ Power(b + e, x) * Power(s, P) \in Nat
          /\ Power((b + e) - m, x) * Power(s + n, P) \in Nat
      <4>1. /\ Power(b, x) \in Nat /\ Power(s + n, P) \in Nat
            /\ Power(b + e, x) \in Nat /\ Power(s, P) \in Nat
            /\ Power((b + e) - m, x) \in Nat
        <5>1. \A a, k \in Nat : Power(a, k) \in Nat
          BY NaturalPower
        <5>2. b + e \in Nat
          OBVIOUS
        <5> QED
          BY <1>1, <2>2, <5>1, <5>2
      <4> QED
        BY <4>1, TimesSign
    <3>2. Power(b + e, x) * Power(s, P) <= Power((b + e) - m, x) * Power(s + n, P)
      BY <2>1, <2>2
    <3> QED
      BY <1>2, <3>1, <3>2
  <2>4. b <= (b + e) - m
    BY <1>1, <2>2, <2>3, SamePowerCancel
  <2>5. m <= e
    BY <1>1, <2>4
  <2> QED
    BY <2>5 DEF m, n
<1> QED
  BY <1>3, <1>4

(* From one reserve to another and back: at most what was paid.            *)
LEMMA ThereAndBack ==
  ASSUME NEW b \in Nat \ {0}, NEW e \in Nat, NEW c \in Nat \ {0},
         NEW x \in Nat \ {0}, NEW y \in Nat \ {0}, NEW f \in 0..MAX_FEE
  PROVE  LET n == CrossReturn(b, x, e, c, y, f)
         IN  /\ n < c
             /\ CrossReturn(c - n, y, n, b + e, x, f) <= e
<1> DEFINE n == CrossReturn(b, x, e, c, y, f)
           m == CrossReturn(c - n, y, n, b + e, x, f)
<1>1. n \in Nat /\ m \in Nat
  BY CrossIsLargest
<1>2. /\ Power(b, x) \in Nat /\ Power(b, x) > 0
      /\ Power(c, y) \in Nat /\ Power(c, y) > 0
      /\ Power(b + e, x) \in Nat /\ Power(b, x) <= Power(b + e, x)
      /\ Power(0, y) = 0
  <2>1. /\ b \in Nat /\ c \in Nat /\ b + e \in Nat /\ x \in Nat /\ y \in Nat
        /\ b > 0 /\ c > 0 /\ y > 0 /\ b <= b + e
    OBVIOUS
  <2>2. \A a, k \in Nat : /\ Power(a, k) \in Nat
                          /\ a > 0 => Power(a, k) > 0
                          /\ k > 0 => Power(0, k) = 0
    BY NaturalPower
  <2>3. \A a \in Nat : b <= a => Power(b, x) <= Power(a, x)
    BY PowerMono
  <2> QED
    BY <2>1, <2>2, <2>3
<1>3. n <= c /\ Power(c, y) * Power(b, x) <= Power(c - n, y) * Power(b + e, x)
  <2>1. CASE n = 0
    <3>1. c - n = c /\ n <= c
      BY <2>1
    <3> HIDE DEF n
    <3> QED
      BY <1>2, <3>1, TimesMono
  <2>2. CASE n # 0
    <3>1. n \in Nat \ {0}
      BY <1>1, <2>2
    <3> QED
      BY <3>1, CrossValue
  <2> QED
    BY <2>1, <2>2
<1>4. n < c
  <2> SUFFICES ASSUME n = c PROVE FALSE
    <3> HIDE DEF n
    <3> QED
      BY <1>1, <1>3
  <2> HIDE DEF n
  <2>1. c - n = 0
    OBVIOUS
  <2>2. Power(c - n, y) * Power(b + e, x) = 0
    BY <1>2, <2>1, TimesSign
  <2>3. Power(c, y) * Power(b, x) > 0 /\ Power(c, y) * Power(b, x) \in Int
    BY <1>2, TimesSign
  <2> QED
    BY <1>3, <2>2, <2>3
<1>5. m <= e
  <2>1. CASE m = 0
    BY <2>1
  <2>2. CASE m # 0
    <3>1. /\ m <= b + e
          /\ Power(b + e, x) * Power(c - n, y)
               <= Power((b + e) - m, x) * Power((c - n) + n, y)
      <4>1. \A a, d \in Nat : CrossReturn(d, y, n, a, x, f) \in Nat \ {0} =>
              LET k == CrossReturn(d, y, n, a, x, f)
              IN  /\ k <= a
                  /\ Power(a, x) * Power(d, y) <= Power(a - k, x) * Power(d + n, y)
        <5> HIDE DEF n, m
        <5> QED
          BY <1>1, CrossValue
      <4>2. b + e \in Nat /\ c - n \in Nat /\ m \in Nat \ {0}
        <5> HIDE DEF n, m
        <5> QED
          BY <1>1, <1>3, <2>2
      <4> QED
        BY <4>1, <4>2
    <3> HIDE DEF n, m
    <3>2. (c - n) + n = c /\ c - n \in Nat /\ (b + e) - m \in Nat
      BY <1>1, <1>3, <3>1
    <3>3. Power(c - n, y) \in Nat /\ Power((b + e) - m, x) \in Nat
      BY <3>2, NaturalPower
    <3>4. Power(b, x) * Power(c, y) <= Power((b + e) - m, x) * Power(c, y)
      <4>1. /\ Power(b, x) * Power(c, y) = Power(c, y) * Power(b, x)
            /\ Power(b + e, x) * Power(c - n, y) = Power(c - n, y) * Power(b + e, x)
            /\ Power(b, x) * Power(c, y) \in Int
            /\ Power(b + e, x) * Power(c - n, y) \in Int
            /\ Power((b + e) - m, x) * Power(c, y) \in Int
        BY <1>2, <3>3, TimesSign
      <4>2. Power(b + e, x) * Power(c - n, y) <= Power((b + e) - m, x) * Power(c, y)
        BY <3>1, <3>2
      <4> QED
        BY <1>3, <4>1, <4>2
    <3>5. b <= (b + e) - m
      BY <3>2, <3>4, SamePowerCancel
    <3> QED
      BY <1>1, <3>5
  <2> QED
    BY <2>1, <2>2
<1> QED
  BY <1>4, <1>5

(* Funding and liquidating the same: at most the cost.                     *)
LEMMA FundAndLiquidate ==
  ASSUME NEW b \in Nat \ {0}, NEW e \in Nat, NEW s \in Nat \ {0}, NEW t \in Nat \ {0}
  PROVE  LET d == FundCost(b, e, s, t)
         IN  LiquidateReturn(b + d, e, s + e, t) <= d
<1> DEFINE d == FundCost(b, e, s, t)
           n == LiquidateReturn(b + d, e, s + e, t)
           P == PPM_RESOLUTION
<1>1. d \in Nat /\ n \in 0..MaxReturn /\ P \in Nat /\ MaxReturn \in Nat
  BY FundIsSmallest, LiquidateIsLargest, FormulaAssumption
<1>2. CASE d = MaxReturn
  <2> HIDE DEF d, n
  <2>1. n <= d
    BY <1>1, <1>2
  <2> QED
    BY <2>1 DEF n, d
<1>3. CASE d # MaxReturn
  <2>1. Power(b, t) * Power(s + e, P) <= Power(b + d, t) * Power(s, P)
    BY <1>3, FundValue
  <2>2. /\ n <= b + d
        /\ Power(b + d, t) * Power(s, P) <= Power((b + d) - n, t) * Power(s + e, P)
    <3> DEFINE a == b + d
               r == s + e
    <3>1. n = LiquidateReturn(a, e, r, t)
      OBVIOUS
    <3> HIDE DEF n, d
    <3>2. a \in Nat /\ r \in Nat /\ e <= r
      BY <1>1
    <3> HIDE DEF a, r, P
    <3>3. /\ n \in 0..a
          /\ Power(a, t) * Power(r - e, PPM_RESOLUTION)
               <= Power(a - n, t) * Power(r, PPM_RESOLUTION)
      BY <3>1, <3>2, LiquidateValue
    <3>4. n <= a
      BY <3>2, <3>3
    <3>5. r - e = s
      BY DEF r
    <3>6. Power(a, t) * Power(s, P) <= Power(a - n, t) * Power(r, P)
      BY <3>3, <3>5, Zenon DEF P
    <3> QED
      BY <3>4, <3>6, Zenon DEF a, r
  <2> HIDE DEF n, d, P
  <2>3. s + e \in Nat \ {0} /\ b + d \in Nat /\ (b + d) - n \in Nat
    BY <1>1, <2>2
  <2>4. Power(b, t) * Power(s + e, P) <= Power((b + d) - n, t) * Power(s + e, P)
    <3>1. /\ Power(b, t) \in Nat /\ Power(s + e, P) \in Nat
          /\ Power(b + d, t) \in Nat /\ Power(s, P) \in Nat
          /\ Power((b + d) - n, t) \in Nat
      BY <1>1, <2>3, NaturalPower
    <3>2. /\ Power(b, t) * Power(s + e, P) \in Int
          /\ Power(b + d, t) * Power(s, P) \in Int
          /\ Power((b + d) - n, t) * Power(s + e, P) \in Int
      BY <3>1, TimesSign
    <3>3. Power(b + d, t) * Power(s, P) <= Power((b + d) - n, t) * Power(s + e, P)
      BY <2>2, <2>3
    <3> QED
      BY <2>1, <3>2, <3>3
  <2>5. b <= (b + d) - n
    BY <1>1, <2>3, <2>4, SamePowerCancel
  <2>6. n <= d
    BY <1>1, <2>5
  <2> QED
    BY <2>6 DEF n, d
<1> QED
  BY <1>2, <1>3

----------------------------------------------------------------------------
(* Splitting an exchange in two.                                           *)

(* Two ratios, one after the other, multiply.                              *)
LEMMA Chained ==
  ASSUME NEW p \in Nat, NEW q \in Nat \ {0}, NEW g \in Nat, NEW h \in Nat,
         NEW i \in Nat, NEW j \in Nat,
         p * q <= g * h, g * i <= j * q
  PROVE  p * i <= j * h
<1>1. /\ p * q \in Int /\ g * h \in Int /\ g * i \in Int /\ j * q \in Int
      /\ p * i \in Int /\ j * h \in Int
  BY TimesSign
<1>2. i * (p * q) <= i * (g * h) /\ i * (p * q) \in Int /\ i * (g * h) \in Int
  <2> DEFINE a == p * q
             c == g * h
  <2>1. a \in Int /\ c \in Int /\ 0 <= a /\ a <= c
    BY TimesSign
  <2> HIDE DEF a, c
  <2>2. i * a <= i * c /\ i * a \in Int /\ i * c \in Int
    BY <2>1, TimesMono, TimesSign
  <2> QED
    BY <2>2 DEF a, c
<1>3. h * (g * i) <= h * (j * q) /\ h * (g * i) \in Int /\ h * (j * q) \in Int
  <2> DEFINE a == g * i
             c == j * q
  <2>1. a \in Int /\ c \in Int /\ 0 <= a /\ a <= c
    BY TimesSign
  <2> HIDE DEF a, c
  <2>2. h * a <= h * c /\ h * a \in Int /\ h * c \in Int
    BY <2>1, TimesMono, TimesSign
  <2> QED
    BY <2>2 DEF a, c
<1>4. /\ i * (p * q) = q * (p * i)
      /\ i * (g * h) = h * (g * i)
      /\ h * (j * q) = q * (j * h)
  BY Z3
<1>5. q * (p * i) <= q * (j * h)
  BY <1>2, <1>3, <1>4
<1> QED
  BY <1>1, <1>5, TimesCancel

(* What the two parts of a purchase issue, one purchase could issue.       *)
LEMMA PartsOfPurchase ==
  ASSUME NEW k \in Nat \ {0}, NEW u \in Nat, k <= u, NEW s \in Nat \ {0},
         NEW n \in Nat, NEW m \in Nat, NEW P \in Nat,
         NEW p \in Nat, NEW q \in Nat, NEW r \in Nat,
         Power(k*s + u*n, P) * p <= Power(k*s, P) * q,
         Power(k*(s + n) + u*m, P) * q <= Power(k*(s + n), P) * r
  PROVE  Power(k*s + u*(n + m), P) * p <= Power(k*s, P) * r
<1> DEFINE a == k*s + u*n
           c == k*(s + n) + u*m
           d == k*s
           e == k*(s + n)
           g == k*s + u*(n + m)
<1>1. a \in Nat /\ c \in Nat /\ d \in Nat /\ e \in Nat /\ g \in Nat /\ e > 0
  <2>1. /\ k*s \in Nat /\ u*n \in Nat /\ k*(s + n) \in Nat /\ k*(s + n) > 0
        /\ u*m \in Nat /\ u*(n + m) \in Nat
    BY TimesSign
  <2> QED
    BY <2>1
<1>2. g * e <= a * c
  <2>1. a * c = g * e + (u * (n * m)) * (u - k)
    BY Z3
  <2>2. (u * (n * m)) * (u - k) \in Nat
    <3>1. n * m \in Nat /\ u - k \in Nat
      BY TimesSign
    <3>2. u * (n * m) \in Nat
      BY <3>1, TimesSign
    <3> QED
      BY <3>1, <3>2, TimesSign
  <2>3. g * e \in Int
    BY <1>1, TimesSign
  <2> HIDE DEF g, e, a, c
  <2> QED
    BY <2>1, <2>2, <2>3
<1>3. Power(a, P) * p <= Power(d, P) * q /\ Power(c, P) * q <= Power(e, P) * r
  OBVIOUS
<1>4. SUFFICES Power(g, P) * p <= Power(d, P) * r
  OBVIOUS
<1> HIDE DEF a, c, d, e, g
<1>5. /\ Power(a, P) \in Nat /\ Power(c, P) \in Nat /\ Power(d, P) \in Nat
      /\ Power(e, P) \in Nat \ {0} /\ Power(g, P) \in Nat
  <2>1. \A i \in Nat : Power(i, P) \in Nat /\ (i > 0 => Power(i, P) > 0)
    BY NaturalPower
  <2>2. /\ Power(a, P) \in Nat /\ Power(c, P) \in Nat /\ Power(d, P) \in Nat
        /\ Power(e, P) \in Nat /\ Power(e, P) > 0 /\ Power(g, P) \in Nat
    BY <1>1, <2>1, Zenon
  <2>3. Power(e, P) \in Nat \ {0}
    BY <2>2
  <2> QED
    BY <2>2, <2>3
<1>6. Power(g, P) * Power(e, P) <= Power(a, P) * Power(c, P)
  <2>1. g * e \in Nat /\ a * c \in Nat
    BY <1>1, TimesSign
  <2>2. \A i, j \in Nat : i <= j => Power(i, P) <= Power(j, P)
    BY PowerMono
  <2>3. Power(g * e, P) <= Power(a * c, P)
    BY <1>2, <2>1, <2>2
  <2>4. /\ Power(g * e, P) = Power(g, P) * Power(e, P)
        /\ Power(a * c, P) = Power(a, P) * Power(c, P)
    <3>1. \A i, j \in Int : Power(i * j, P) = Power(i, P) * Power(j, P)
      BY PowerOfProduct
    <3>2. a \in Int /\ c \in Int /\ g \in Int /\ e \in Int
      BY <1>1
    <3> QED
      BY <3>1, <3>2, Zenon
  <2> QED
    BY <2>3, <2>4
<1>7. Power(a, P) * (Power(c, P) * p) <= Power(e, P) * (Power(d, P) * r)
  <2>1. Power(c, P) * (Power(a, P) * p) <= Power(c, P) * (Power(d, P) * q)
    <3>1. \A x, y \in Nat : x <= y => Power(c, P) * x <= Power(c, P) * y
      BY <1>5, TimesMono
    <3>2. Power(a, P) * p \in Nat /\ Power(d, P) * q \in Nat
      BY <1>5, TimesSign
    <3> QED
      BY <1>3, <3>1, <3>2
  <2>2. Power(d, P) * (Power(c, P) * q) <= Power(d, P) * (Power(e, P) * r)
    <3>1. \A x, y \in Nat : x <= y => Power(d, P) * x <= Power(d, P) * y
      BY <1>5, TimesMono
    <3>2. Power(c, P) * q \in Nat /\ Power(e, P) * r \in Nat
      BY <1>5, TimesSign
    <3> QED
      BY <1>3, <3>1, <3>2
  <2>3. /\ Power(c, P) * (Power(a, P) * p) = Power(a, P) * (Power(c, P) * p)
        /\ Power(c, P) * (Power(d, P) * q) = Power(d, P) * (Power(c, P) * q)
        /\ Power(d, P) * (Power(e, P) * r) = Power(e, P) * (Power(d, P) * r)
    BY <1>5, TimesSwap
  <2>4. /\ Power(a, P) * (Power(c, P) * p) \in Int
        /\ Power(c, P) * (Power(d, P) * q) \in Int
        /\ Power(e, P) * (Power(d, P) * r) \in Int
    <3>1. /\ Power(c, P) * p \in Int /\ Power(d, P) * q \in Int
          /\ Power(d, P) * r \in Int
      BY <1>5, TimesSign
    <3>2. \A x \in Int : /\ Power(a, P) * x \in Int
                         /\ Power(c, P) * x \in Int
                         /\ Power(e, P) * x \in Int
      BY <1>5, TimesSign
    <3> QED
      BY <3>1, <3>2
  <2> QED
    BY <2>1, <2>2, <2>3, <2>4
<1>8. (Power(g, P) * Power(e, P)) * p <= (Power(a, P) * Power(c, P)) * p
  <2>1. \A x, y \in Nat : x <= y => x * p <= y * p
    BY TimesMono
  <2>2. Power(g, P) * Power(e, P) \in Nat /\ Power(a, P) * Power(c, P) \in Nat
    BY <1>5, TimesSign
  <2> QED
    BY <1>6, <2>1, <2>2
<1>9. /\ (Power(g, P) * Power(e, P)) * p = Power(e, P) * (Power(g, P) * p)
      /\ (Power(a, P) * Power(c, P)) * p = Power(a, P) * (Power(c, P) * p)
  <2>1. \A x, y \in Int : /\ (x * y) * p = y * (x * p)
                          /\ (x * y) * p = x * (y * p)
    BY TimesSwap
  <2> QED
    BY <1>5, <2>1
<1>10. Power(g, P) * p \in Int /\ Power(d, P) * r \in Int
  BY <1>5, TimesSign
<1>11. Power(e, P) * (Power(g, P) * p) <= Power(e, P) * (Power(d, P) * r)
  <2>1. /\ Power(e, P) * (Power(g, P) * p) \in Int
        /\ Power(a, P) * (Power(c, P) * p) \in Int
        /\ Power(e, P) * (Power(d, P) * r) \in Int
    <3>1. Power(c, P) * p \in Int
      BY <1>5, TimesSign
    <3>2. \A x \in Int : Power(a, P) * x \in Int /\ Power(e, P) * x \in Int
      BY <1>5, TimesSign
    <3> QED
      BY <1>10, <3>1, <3>2
  <2> QED
    BY <1>7, <1>8, <1>9, <2>1
<1> QED
  BY <1>5, <1>10, <1>11, TimesCancel

(* A weight of at most 100% never issues more than in proportion.          *)
LEMMA AtMostInProportion ==
  ASSUME NEW a \in Nat, NEW m \in Nat, NEW b \in Nat, NEW e \in Nat,
         NEW P \in Nat \ {0}, NEW x \in 0..P,
         Power(a + m, P) * Power(b, x) <= Power(a, P) * Power(b + e, x)
  PROVE  m * b <= a * e
<1> DEFINE y == P - x
           p == Power(a + m, P)
           q == Power(a, P)
           c == b + e
           g == a + m
<1>1. y \in Nat /\ x \in Nat /\ c \in Nat /\ b <= c /\ x + y = P /\ P \in Nat
      /\ g \in Nat
  OBVIOUS
<1>2. p * Power(b, x) <= q * Power(c, x)
  OBVIOUS
<1>3. p = Power(g, P)
  OBVIOUS
<1>4. SUFFICES g * b <= a * c
  <2>1. (a + m) * b = a * b + m * b /\ a * (b + e) = a * b + a * e
    BY Z3
  <2>2. a * b \in Int /\ m * b \in Int /\ a * e \in Int
    BY TimesSign
  <2> QED
    BY <2>1, <2>2
<1> HIDE DEF y, p, q, c, g
<1>5. /\ Power(b, x) \in Nat /\ Power(c, x) \in Nat
      /\ Power(b, y) \in Nat /\ Power(c, y) \in Nat
      /\ p \in Nat /\ q \in Nat
      /\ Power(b, y) <= Power(c, y)
  <2>1. \A i, j \in Nat : Power(i, j) \in Nat
    BY NaturalPower
  <2>2. \A i, j, k \in Nat : i <= j => Power(i, k) <= Power(j, k)
    BY PowerMono
  <2>3. p \in Nat /\ q \in Nat
    BY <1>1, <2>1 DEF p, q, g
  <2> QED
    BY <1>1, <2>1, <2>2, <2>3
<1>6. /\ Power(b, P) = Power(b, x) * Power(b, y)
      /\ Power(c, P) = Power(c, x) * Power(c, y)
  <2>1. \A i, j, k \in Nat : Power(i, j + k) = Power(i, j) * Power(i, k)
    BY PowerOfSum
  <2>2. \A i \in Nat : Power(i, x + y) = Power(i, x) * Power(i, y)
    BY <1>1, <2>1
  <2> QED
    BY <1>1, <2>2, Zenon
<1>7. (p * Power(b, x)) * Power(b, y) <= (q * Power(c, x)) * Power(c, y)
  <2>1. /\ p * Power(b, x) \in Nat /\ q * Power(c, x) \in Nat
    BY <1>5, TimesSign
  <2> DEFINE i == p * Power(b, x)
             j == q * Power(c, x)
  <2>2. i \in Nat /\ j \in Nat /\ i <= j
    BY <1>2, <2>1
  <2> HIDE DEF i, j
  <2>3. i * Power(b, y) <= j * Power(c, y)
    BY <1>5, <2>2, TimesMono
  <2> QED
    BY <2>3 DEF i, j
<1>8. p * Power(b, P) <= q * Power(c, P)
  <2>1. /\ (p * Power(b, x)) * Power(b, y) = p * (Power(b, x) * Power(b, y))
        /\ (q * Power(c, x)) * Power(c, y) = q * (Power(c, x) * Power(c, y))
    BY <1>5, TimesSwap
  <2> QED
    BY <1>6, <1>7, <2>1
<1>9. Power(g, P) * Power(b, P) <= Power(a, P) * Power(c, P)
  BY <1>3, <1>8, Zenon DEF q
<1> QED
  BY <1>1, <1>9, PowersCompare

(* What is issued fits, also when it is nothing.                           *)
LEMMA IssuedFits ==
  ASSUME NEW b \in Nat, NEW e \in Nat, NEW s \in Nat, NEW x \in Nat,
         NEW f \in 0..MAX_FEE
  PROVE  PurchaseFits(b, e, s, x, f, PurchaseReturn(b, e, s, x, f))
<1> DEFINE n == PurchaseReturn(b, e, s, x, f)
           k == Kept(f, 1)
           u == Whole(1)
           P == PPM_RESOLUTION
<1>1. n \in Nat /\ (n = 0 \/ PurchaseFits(b, e, s, x, f, n))
  BY PurchaseIsLargest
<1>2. CASE n # 0
  BY <1>1, <1>2
<1>3. CASE n = 0
  <2>1. k \in Nat /\ u \in Nat /\ P \in Nat
    BY FractionFacts, FormulaAssumption
  <2> HIDE DEF n, k, u, P
  <2>2. k*s \in Nat /\ u*n = 0
    BY <1>3, <2>1, TimesSign
  <2>3. k*s + u*n = k*s
    BY <2>2
  <2>4. Power(b, x) \in Nat /\ Power(b + e, x) \in Nat /\ Power(b, x) <= Power(b + e, x)
    <3>1. \A i \in Nat : Power(i, x) \in Nat
      BY NaturalPower
    <3>2. \A i \in Nat : b <= i => Power(b, x) <= Power(i, x)
      BY PowerMono
    <3>3. b + e \in Nat /\ b <= b + e
      OBVIOUS
    <3> QED
      BY <3>1, <3>2, <3>3
  <2>5. Power(k*s, P) \in Nat
    BY <2>1, <2>2, NaturalPower
  <2>6. Power(k*s, P) * Power(b, x) <= Power(k*s, P) * Power(b + e, x)
    BY <2>4, <2>5, TimesMono
  <2>7. Power(k*s + u*n, P) * Power(b, x) <= Power(k*s, P) * Power(b + e, x)
    BY <2>3, <2>6
  <2> QED
    BY <2>7 DEF PurchaseFits, n, k, u, P
<1> QED
  BY <1>2, <1>3

(* What fits is at most the supply's share, nothing if the fee is 100%.    *)
LEMMA FittingPurchase ==
  ASSUME NEW b \in Nat \ {0}, NEW e \in Nat, NEW s \in Nat,
         NEW x \in 0..PPM_RESOLUTION, NEW f \in 0..MAX_FEE, NEW n \in Nat,
         PurchaseFits(b, e, s, x, f, n)
  PROVE  n <= s * e /\ (Kept(f, 1) = 0 => n = 0)
<1> DEFINE k == Kept(f, 1)
           u == Whole(1)
           P == PPM_RESOLUTION
           a == k * s
           m == u * n
<1>1. k \in Nat /\ u \in Nat \ {0} /\ P \in Nat \ {0} /\ x \in 0..P /\ k <= u
  BY FractionFacts, FormulaAssumption
<1>2. Power(a + m, P) * Power(b, x) <= Power(a, P) * Power(b + e, x)
  BY DEF PurchaseFits
<1> HIDE DEF k, u, P
<1>3. a \in Nat /\ m \in Nat
  BY <1>1, TimesSign
<1>4. m * b <= a * e
  <2> HIDE DEF a, m
  <2> QED
    BY <1>1, <1>2, <1>3, AtMostInProportion
<1>5. m <= a * e
  <2>1. m * 1 <= m * b
    BY <1>3, TimesMono
  <2>2. m * 1 = m /\ m \in Int /\ m * b \in Int /\ a * e \in Int
    BY <1>3, TimesSign
  <2> HIDE DEF a, m
  <2> QED
    BY <1>4, <2>1, <2>2
<1>6. s * e \in Nat
  BY TimesSign
<1>7. n <= s * e
  <2>1. k * (s * e) <= u * (s * e) /\ k * (s * e) \in Int /\ u * (s * e) \in Int
    BY <1>1, <1>6, TimesMono, TimesSign
  <2>2. a * e = k * (s * e)
    BY <1>1, Z3
  <2>3. u * n <= u * (s * e)
    BY <1>3, <1>5, <2>1, <2>2
  <2> QED
    BY <1>1, <1>6, <2>3, TimesCancel
<1>8. ASSUME k = 0 PROVE n = 0
  <2>1. a * e = 0
    <3>1. a = 0
      BY <1>8, TimesSign
    <3> QED
      BY <1>3, <3>1, TimesSign
  <2>2. u * n <= 0
    BY <1>5, <2>1
  <2>3. n > 0 => u * n > 0
    BY <1>1, TimesSign
  <2> QED
    BY <1>3, <2>2, <2>3
<1> QED
  BY <1>7, <1>8 DEF k

(* Two purchases issue no more than one of the same amount.                *)
LEMMA SplitPurchase ==
  ASSUME NEW b \in Nat \ {0}, NEW e \in Nat, NEW s \in Nat \ {0},
         NEW x \in 0..PPM_RESOLUTION, NEW f \in 0..MAX_FEE,
         NEW t \in 0..e, s * e <= MaxReturn
  PROVE  LET n == PurchaseReturn(b, t, s, x, f)
         IN  n + PurchaseReturn(b + t, e - t, s + n, x, f)
               <= PurchaseReturn(b, e, s, x, f)
<1> DEFINE n == PurchaseReturn(b, t, s, x, f)
           m == PurchaseReturn(b + t, e - t, s + n, x, f)
           c == b + t
           d == e - t
           h == s + n
           P == PPM_RESOLUTION
           k == Kept(f, 1)
           u == Whole(1)
<1>1. n \in Nat /\ m \in Nat
  BY PurchaseIsLargest
<1>2. PurchaseFits(b, t, s, x, f, n)
  BY IssuedFits
<1>3. m = PurchaseReturn(c, d, h, x, f)
  OBVIOUS
<1> HIDE DEF n, m
<1>4. c \in Nat \ {0} /\ d \in Nat /\ h \in Nat /\ c + d = b + e /\ x \in Nat
      /\ t \in Nat /\ P \in Nat
  BY <1>1, FormulaAssumption
<1> HIDE DEF c, d, h, P
<1>5. PurchaseFits(c, d, h, x, f, m)
  BY <1>3, <1>4, IssuedFits
<1>6. PurchaseFits(b, e, s, x, f, n + m)
  <2>1. k \in Nat /\ u \in Nat /\ k <= u
    BY FractionFacts
  <2>2. /\ Power(k*s + u*n, P) * Power(b, x) <= Power(k*s, P) * Power(c, x)
        /\ Power(k*h + u*m, P) * Power(c, x) <= Power(k*h, P) * Power(b + e, x)
    <3>1. Power(k*h + u*m, P) * Power(c, x) <= Power(k*h, P) * Power(c + d, x)
      BY <1>5 DEF PurchaseFits, P
    <3>2. Power(k*s + u*n, P) * Power(b, x) <= Power(k*s, P) * Power(c, x)
      BY <1>2 DEF PurchaseFits, P, c
    <3> QED
      BY <1>4, <3>1, <3>2, Zenon
  <2> SUFFICES Power(k*s + u*(n + m), P) * Power(b, x) <= Power(k*s, P) * Power(b + e, x)
    BY DEF PurchaseFits, P
  <2>3. CASE k = 0
    <3>1. n = 0
      BY <1>1, <1>2, <1>4, <2>3, FittingPurchase
    <3>2. m = 0
      BY <1>1, <1>4, <1>5, <2>3, FittingPurchase
    <3>3. PurchaseFits(b, e, s, x, f, 0)
      <4>1. \A r \in Nat : PurchaseFits(b, e, s, x, f, r) => r = 0
        BY <2>3, FittingPurchase
      <4>2. PurchaseFits(b, e, s, x, f, PurchaseReturn(b, e, s, x, f))
        BY <1>4, IssuedFits
      <4>3. PurchaseReturn(b, e, s, x, f) \in Nat
        BY PurchaseIsLargest
      <4> QED
        BY <4>1, <4>2, <4>3
    <3>4. n + m = 0
      BY <3>1, <3>2
    <3> QED
      BY <3>3, <3>4 DEF PurchaseFits, P
  <2>4. CASE k # 0
    <3> HIDE DEF k, u
    <3>1. \A p, q, r \in Nat :
            /\ Power(k*s + u*n, P) * p <= Power(k*s, P) * q
            /\ Power(k*(s + n) + u*m, P) * q <= Power(k*(s + n), P) * r
            => Power(k*s + u*(n + m), P) * p <= Power(k*s, P) * r
      BY <1>1, <1>4, <2>1, <2>4, PartsOfPurchase
    <3>2. Power(b, x) \in Nat /\ Power(c, x) \in Nat /\ Power(b + e, x) \in Nat
      <4>1. \A i \in Nat : Power(i, x) \in Nat
        BY <1>4, NaturalPower
      <4>2. b \in Nat /\ b + e \in Nat
        OBVIOUS
      <4> QED
        BY <1>4, <4>1, <4>2
    <3> QED
      BY <2>2, <3>1, <3>2 DEF h
  <2> QED
    BY <2>3, <2>4
<1>7. n + m \in 0..MaxReturn
  <2>1. n + m \in Nat
    BY <1>1
  <2>2. n + m <= s * e
    BY <1>6, <2>1, FittingPurchase
  <2>3. s * e \in Int /\ MaxReturn \in Nat
    BY TimesSign, FormulaAssumption
  <2> QED
    BY <2>1, <2>2, <2>3
<1>8. n + m <= PurchaseReturn(b, e, s, x, f)
  BY <1>4, <1>6, <1>7, PurchaseIsLargest
<1> QED
  BY <1>8 DEF n, m

(* Liquidating in two parts pays no more than doing it at once.            *)
LEMMA SplitLiquidation ==
  ASSUME NEW b \in Nat \ {0}, b <= MaxReturn, NEW s \in Nat, NEW e \in 0..s,
         NEW d \in Nat, d < e, NEW t \in Nat \ {0}
  PROVE  LET l == LiquidateReturn(b, d, s, t)
         IN  l + LiquidateReturn(b - l, e - d, s - d, t) <= LiquidateReturn(b, e, s, t)
<1> DEFINE l == LiquidateReturn(b, d, s, t)
           m == LiquidateReturn(b - l, e - d, s - d, t)
           P == PPM_RESOLUTION
           c == b - l
           h == s - d
           g == e - d
           i == c - m
           j == s - e
<1>1. P \in Nat /\ MaxReturn \in Nat
  BY FormulaAssumption
<1>2. l \in 0..b /\ Power(b, t) * Power(s - d, P) <= Power(b - l, t) * Power(s, P)
  <2>1. d \in Nat /\ d <= s /\ b \in Nat /\ t \in Nat
    OBVIOUS
  <2> QED
    BY <2>1, LiquidateValue
<1>3. m = LiquidateReturn(c, g, h, t)
  OBVIOUS
<1>4. Power(b, t) * Power(h, P) <= Power(c, t) * Power(s, P)
  BY <1>2
<1> HIDE DEF l, m, P
<1>5. c \in Nat /\ h \in Nat \ {0} /\ g \in Nat /\ g <= h /\ j \in Nat
      /\ h - g = j /\ s \in Nat /\ e \in Nat /\ t \in Nat
  BY <1>2
<1> HIDE DEF c, h, g, j
<1>6. m \in 0..c /\ Power(c, t) * Power(j, P) <= Power(i, t) * Power(h, P)
  <2>1. m \in 0..c /\ Power(c, t) * Power(h - g, P) <= Power(c - m, t) * Power(h, P)
    <3> USE DEF P
    <3>1. \A a, r, q \in Nat : q <= r =>
            LET k == LiquidateReturn(a, q, r, t)
            IN  /\ k \in 0..a
                /\ Power(a, t) * Power(r - q, P) <= Power(a - k, t) * Power(r, P)
      BY LiquidateValue
    <3> QED
      BY <1>3, <1>5, <3>1
  <2> QED
    BY <1>5, <2>1, Zenon
<1>7. i \in Nat /\ l + m \in 0..b /\ b - (l + m) = i
  BY <1>2, <1>5, <1>6 DEF c
<1> HIDE DEF i
<1>8. Power(b, t) * Power(j, P) <= Power(i, t) * Power(s, P)
  <2>1. \A a, k \in Nat : Power(a, k) \in Nat /\ (a > 0 => Power(a, k) > 0)
    BY NaturalPower
  <2>2. /\ Power(b, t) \in Nat /\ Power(c, t) \in Nat /\ Power(i, t) \in Nat
        /\ Power(s, P) \in Nat /\ Power(j, P) \in Nat
        /\ Power(h, P) \in Nat /\ Power(h, P) > 0
    <3>1. b \in Nat /\ h \in Nat /\ h > 0
      BY <1>5
    <3> QED
      BY <1>1, <1>5, <1>7, <2>1, <3>1, Zenon
  <2>3. Power(h, P) \in Nat \ {0}
    BY <2>2
  <2> QED
    BY <1>4, <1>6, <2>2, <2>3, Chained
<1>9. LiquidateFits(b, e, s, t, l + m)
  <2>1. /\ Power(b, t) * Power(j, P) \in Int
        /\ Power(i, t) * Power(s, P) \in Int
    <3>1. \A a, k \in Nat : Power(a, k) \in Int
      BY NaturalPower
    <3>2. /\ Power(b, t) \in Int /\ Power(i, t) \in Int
          /\ Power(s, P) \in Int /\ Power(j, P) \in Int
      BY <1>1, <1>5, <1>7, <3>1
    <3> QED
      BY <3>2, TimesSign
  <2>2. Power(i, t) * Power(s, P) >= Power(b, t) * Power(j, P)
    BY <1>8, <2>1
  <2>3. l + m <= b
    BY <1>7
  <2> QED
    BY <1>7, <2>2, <2>3 DEF LiquidateFits, P, j
<1>10. l + m \in 0..MaxReturn
  BY <1>1, <1>7
<1>11. l + m <= LiquidateReturn(b, e, s, t)
  BY <1>9, <1>10, LiquidateIsLargest
<1> QED
  BY <1>11 DEF l, m

----------------------------------------------------------------------------
(* The special cases of the code.                                          *)

(* Comparing what is left of c with a part h of g compares n/c with the    *)
(* rest of g.                                                              *)
LEMMA WhatIsLeft ==
  ASSUME NEW u \in Nat \ {0}, NEW c \in Nat, NEW n \in Nat, n <= c,
         NEW g \in Nat, NEW h \in Nat, NEW e \in Nat, g = h + e, NEW x \in Nat \ {0}
  PROVE  Power(u*c - u*n, x) * Power(g, x) >= Power(u*c, x) * Power(h, x)
           <=> n * g <= c * e
<1> DEFINE a == u * c
           d == u * (c - n)
<1>1. c - n \in Nat
  OBVIOUS
<1>2. a \in Nat /\ d \in Nat
  BY <1>1, TimesSign
<1>3. u*c - u*n = d
  BY Z3
<1>4. Power(a, x) * Power(h, x) <= Power(d, x) * Power(g, x) <=> a * h <= d * g
  BY <1>2, PowersCompare
<1>5. a * h <= d * g <=> c * h <= (c - n) * g
  <2> DEFINE i == c * h
             j == (c - n) * g
  <2>1. i \in Nat /\ j \in Nat
    BY <1>1, TimesSign
  <2>2. a * h = u * i
    BY Z3
  <2>3. d * g = u * j
    BY Z3
  <2> HIDE DEF i, j
  <2>4. u * i <= u * j => i <= j
    BY <2>1, TimesCancel
  <2>5. i <= j => u * i <= u * j
    BY <2>1, TimesMono
  <2> QED
    BY <2>2, <2>3, <2>4, <2>5 DEF i, j
<1>6. c * h <= (c - n) * g <=> n * g <= c * e
  <2>1. (c - n) * g = c * g - n * g
    BY Z3
  <2>2. c * g = c * h + c * e
    BY Z3
  <2>3. c * g \in Int /\ c * h \in Int /\ n * g \in Int /\ c * e \in Int
    BY TimesSign
  <2> QED
    BY <2>1, <2>2, <2>3
<1>7. Power(a, x) * Power(h, x) \in Int /\ Power(d, x) * Power(g, x) \in Int
  <2>1. \A i \in Nat : Power(i, x) \in Int
    BY NaturalPower
  <2>2. /\ Power(a, x) \in Int /\ Power(h, x) \in Int
        /\ Power(d, x) \in Int /\ Power(g, x) \in Int
    BY <1>2, <2>1
  <2> QED
    BY <2>2, TimesSign
<1> HIDE DEF d
<1>8. Power(d, x) * Power(g, x) >= Power(a, x) * Power(h, x) <=> n * g <= c * e
  BY <1>4, <1>5, <1>6, <1>7
<1> QED
  BY <1>3, <1>8

(* A share of c is no more than c.                                         *)
LEMMA ShareOf ==
  ASSUME NEW n \in Nat, NEW c \in Nat, NEW e \in Nat, NEW g \in Nat \ {0}, e <= g,
         n * g <= c * e
  PROVE  n <= c
<1>1. c * e <= g * c /\ c * e \in Int /\ g * c \in Int /\ g * n = n * g /\ n * g \in Int
  <2>1. c * e <= c * g
    BY TimesMono
  <2> QED
    BY <2>1, TimesSign
<1>2. g * n <= g * c
  BY <1>1
<1> QED
  BY <1>2, TimesCancel

(* A quotient does not exceed its dividend.                                *)
LEMMA QuotientBound ==
  ASSUME NEW a \in Nat, NEW g \in Nat \ {0}
  PROVE  a \div g \in Nat /\ a \div g <= a
<1> DEFINE q == a \div g
<1>1. q \in Nat /\ q * g <= a
  BY QuotientFits
<1> HIDE DEF q
<1>2. q * 1 <= q * g /\ q * 1 = q /\ q * g \in Int
  BY <1>1, TimesMono, TimesSign
<1>3. q <= a
  BY <1>1, <1>2
<1> QED
  BY <1>1, <1>3 DEF q

(* Without a fee, the whole of an amount is kept.                          *)
LEMMA NoFee ==
  \A m \in Nat : Kept(0, m) = Whole(m) /\ Whole(m) \in Nat \ {0}
<1>1. 0 \in 0..MAX_FEE /\ MAX_FEE - 0 = MAX_FEE
  BY FormulaAssumption
<1>2. \A m \in Nat : Whole(m) \in Nat \ {0}
  BY <1>1, FractionFacts
<1> QED
  BY <1>1, <1>2 DEF Kept, Whole

(* Between reserves of the same weight, without a fee: quick_convert.      *)
LEMMA QuickConvert ==
  ASSUME NEW b \in Nat \ {0}, NEW e \in Nat, NEW c \in Nat, NEW x \in Nat \ {0},
         e * c <= MaxReturn
  PROVE  CrossReturn(b, x, e, c, x, 0) = (e * c) \div (b + e)
<1> DEFINE r == CrossReturn(b, x, e, c, x, 0)
           g == b + e
           q == (e * c) \div g
           u == Whole(2)
<1>1. Kept(0, 2) = u /\ u \in Nat \ {0} /\ MaxReturn \in Nat
  BY NoFee, FormulaAssumption
<1>2. g \in Nat \ {0} /\ g \in Nat /\ e <= g /\ g = b + e /\ e * c \in Nat /\ e * c = c * e
  BY TimesSign
<1> HIDE DEF u, g
<1>3. \A n \in Nat : n * g <= c * e <=> n <= q
  BY <1>2, QuotientIsLargest
<1>4. q \in Nat /\ q <= MaxReturn
  BY <1>1, <1>2, QuotientBound
<1> HIDE DEF r, q
<1>5. ASSUME NEW n \in Nat
      PROVE  CrossFits(b, x, e, c, x, 0, n) <=> n <= q
  <2>1. CrossFits(b, x, e, c, x, 0, n)
          <=> /\ u * n <= u * c
              /\ Power(u*c - u*n, x) * Power(g, x) >= Power(u*c, x) * Power(b, x)
    BY <1>1, <1>2 DEF CrossFits, u
  <2>2. u * n <= u * c <=> n <= c
    BY <1>1, TimesCancel, TimesMono
  <2>3. n <= q => n <= c
    BY <1>2, <1>3, ShareOf
  <2>4. n <= c => (Power(u*c - u*n, x) * Power(g, x) >= Power(u*c, x) * Power(b, x)
                     <=> n <= q)
    BY <1>1, <1>2, <1>3, WhatIsLeft
  <2> QED
    BY <2>1, <2>2, <2>3, <2>4
<1>6. /\ r \in 0..MaxReturn
      /\ r = 0 \/ CrossFits(b, x, e, c, x, 0, r)
      /\ \A n \in 0..MaxReturn : CrossFits(b, x, e, c, x, 0, n) => n <= r
  BY CrossIsLargest DEF r
<1>7. r <= q
  BY <1>4, <1>5, <1>6
<1>8. q <= r
  BY <1>1, <1>4, <1>5, <1>6
<1> QED
  BY <1>4, <1>6, <1>7, <1>8 DEF r, q, g

(* A reserve of weight 100% issues and pays in proportion.                 *)
LEMMA PurchaseInProportion ==
  ASSUME NEW b \in Nat \ {0}, NEW e \in Nat, NEW s \in Nat, s * e <= MaxReturn
  PROVE  PurchaseReturn(b, e, s, PPM_RESOLUTION, 0) = (s * e) \div b
<1> DEFINE P == PPM_RESOLUTION
           r == PurchaseReturn(b, e, s, P, 0)
           q == (s * e) \div b
           u == Whole(1)
<1>1. Kept(0, 1) = u /\ u \in Nat \ {0} /\ MaxReturn \in Nat /\ P \in Nat \ {0}
  BY NoFee, FormulaAssumption
<1>2. s * e \in Nat /\ b + e \in Nat
  BY TimesSign
<1>3. \A n \in Nat : n * b <= s * e <=> n <= q
  BY <1>2, QuotientIsLargest
<1>4. q \in Nat /\ q <= MaxReturn
  BY <1>1, <1>2, QuotientBound
<1>5. /\ r \in 0..MaxReturn
      /\ r = 0 \/ PurchaseFits(b, e, s, P, 0, r)
      /\ \A n \in 0..MaxReturn : PurchaseFits(b, e, s, P, 0, n) => n <= r
  BY PurchaseIsLargest
<1> HIDE DEF u, r, q, P
<1>6. ASSUME NEW n \in Nat
      PROVE  PurchaseFits(b, e, s, P, 0, n) <=> n <= q
  <2> DEFINE a == u*s + u*n
             d == u*s
             g == b + e
  <2>1. PurchaseFits(b, e, s, P, 0, n) <=> Power(a, P) * Power(b, P) <= Power(d, P) * Power(g, P)
    BY <1>1 DEF PurchaseFits, u, P
  <2>2. a \in Nat /\ d \in Nat /\ g \in Nat
    <3>1. u*s \in Nat /\ u*n \in Nat
      BY <1>1, TimesSign
    <3> QED
      BY <3>1
  <2>3. a * b <= d * g <=> n * b <= s * e
    <3>1. d * g = d * b + u * (s * e)
      BY <1>1, Z3
    <3>2. a * b = d * b + u * (n * b)
      BY <1>1, Z3
    <3>3. n * b \in Nat /\ d * b \in Int
      BY <2>2, TimesSign
    <3>4. u * (n * b) \in Int /\ u * (s * e) \in Int
      BY <1>1, <1>2, <3>3, TimesSign
    <3>5. a * b <= d * g <=> u * (n * b) <= u * (s * e)
      BY <3>1, <3>2, <3>3, <3>4
    <3> DEFINE i == n * b
               j == s * e
    <3>6. i \in Nat /\ j \in Nat
      BY <1>2, <3>3
    <3> HIDE DEF i, j
    <3>7. u * i <= u * j <=> i <= j
      BY <1>1, <3>6, TimesCancel, TimesMono
    <3> QED
      BY <3>5, <3>7 DEF i, j
  <2> HIDE DEF a, d, g
  <2>4. Power(a, P) * Power(b, P) <= Power(d, P) * Power(g, P) <=> a * b <= d * g
    BY <1>1, <2>2, PowersCompare
  <2> QED
    BY <1>3, <2>1, <2>3, <2>4
<1>7. r <= q
  BY <1>4, <1>5, <1>6
<1>8. q <= r
  BY <1>1, <1>4, <1>5, <1>6
<1> QED
  BY <1>4, <1>5, <1>7, <1>8 DEF r, q, P

LEMMA SaleInProportion ==
  ASSUME NEW b \in Nat, NEW s \in Nat \ {0}, NEW e \in 0..s, b * e <= MaxReturn
  PROVE  SaleReturn(b, e, s, PPM_RESOLUTION, 0) = (b * e) \div s
<1> DEFINE P == PPM_RESOLUTION
           r == SaleReturn(b, e, s, P, 0)
           q == (b * e) \div s
           u == Whole(1)
           h == s - e
<1>1. Kept(0, 1) = u /\ u \in Nat \ {0} /\ MaxReturn \in Nat /\ P \in Nat \ {0}
  BY NoFee, FormulaAssumption
<1>2. e \in Nat /\ e <= s /\ b * e \in Nat /\ h \in Nat /\ s = h + e /\ s \in Nat
  BY TimesSign
<1>3. \A n \in Nat : n * s <= b * e <=> n <= q
  BY <1>2, QuotientIsLargest
<1>4. q \in Nat /\ q <= MaxReturn
  BY <1>1, <1>2, QuotientBound
<1>5. /\ r \in 0..MaxReturn
      /\ r = 0 \/ SaleFits(b, e, s, P, 0, r)
      /\ \A n \in 0..MaxReturn : SaleFits(b, e, s, P, 0, n) => n <= r
  BY SaleIsLargest
<1> HIDE DEF u, r, q, P, h
<1>6. ASSUME NEW n \in Nat
      PROVE  SaleFits(b, e, s, P, 0, n) <=> n <= q
  <2>1. SaleFits(b, e, s, P, 0, n)
          <=> /\ u * n <= u * b
              /\ Power(u*b - u*n, P) * Power(s, P) >= Power(u*b, P) * Power(h, P)
    BY <1>1 DEF SaleFits, u, P, h
  <2>2. u * n <= u * b <=> n <= b
    BY <1>1, TimesCancel, TimesMono
  <2>3. n <= q => n <= b
    BY <1>2, <1>3, ShareOf
  <2>4. n <= b => (Power(u*b - u*n, P) * Power(s, P) >= Power(u*b, P) * Power(h, P)
                     <=> n <= q)
    BY <1>1, <1>2, <1>3, WhatIsLeft
  <2> QED
    BY <2>1, <2>2, <2>3, <2>4
<1>7. r <= q
  BY <1>4, <1>5, <1>6
<1>8. q <= r
  BY <1>1, <1>4, <1>5, <1>6
<1> QED
  BY <1>4, <1>5, <1>7, <1>8 DEF r, q, P

(* Reserves that make up 100% are liquidated and funded in proportion.     *)
LEMMA LiquidateInProportion ==
  ASSUME NEW b \in Nat, NEW s \in Nat \ {0}, NEW e \in 0..s, b * e <= MaxReturn
  PROVE  LiquidateReturn(b, e, s, PPM_RESOLUTION) = (b * e) \div s
<1> DEFINE P == PPM_RESOLUTION
           r == LiquidateReturn(b, e, s, P)
           q == (b * e) \div s
           h == s - e
<1>1. MaxReturn \in Nat /\ P \in Nat \ {0}
  BY FormulaAssumption
<1>2. e \in Nat /\ e <= s /\ b * e \in Nat /\ h \in Nat /\ s = h + e /\ s \in Nat
  BY TimesSign
<1>3. \A n \in Nat : n * s <= b * e <=> n <= q
  BY <1>2, QuotientIsLargest
<1>4. q \in Nat /\ q <= MaxReturn
  BY <1>1, <1>2, QuotientBound
<1>5. /\ r \in 0..MaxReturn
      /\ r = 0 \/ LiquidateFits(b, e, s, P, r)
      /\ \A n \in 0..MaxReturn : LiquidateFits(b, e, s, P, n) => n <= r
  BY LiquidateIsLargest
<1> HIDE DEF r, q, P, h
<1>6. ASSUME NEW n \in Nat
      PROVE  LiquidateFits(b, e, s, P, n) <=> n <= q
  <2>1. LiquidateFits(b, e, s, P, n)
          <=> n <= b /\ Power(b - n, P) * Power(s, P) >= Power(b, P) * Power(h, P)
    BY DEF LiquidateFits, P, h
  <2>2. n <= q => n <= b
    BY <1>2, <1>3, ShareOf
  <2>3. n <= b => (Power(1*b - 1*n, P) * Power(s, P) >= Power(1*b, P) * Power(h, P)
                     <=> n <= q)
    <3>1. 1 \in Nat \ {0}
      OBVIOUS
    <3> QED
      BY <1>1, <1>2, <1>3, <3>1, WhatIsLeft
  <2>4. 1*b = b /\ 1*n = n
    OBVIOUS
  <2> QED
    BY <2>1, <2>2, <2>3, <2>4
<1>7. r <= q
  BY <1>4, <1>5, <1>6
<1>8. q <= r
  BY <1>1, <1>4, <1>5, <1>6
<1> QED
  BY <1>4, <1>5, <1>7, <1>8 DEF r, q, P

LEMMA FundInProportion ==
  ASSUME NEW b \in Nat, NEW s \in Nat \ {0}, NEW e \in Nat, b * e < MaxReturn
  PROVE  FundCost(b, e, s, PPM_RESOLUTION) = (b * e + s - 1) \div s
<1> DEFINE P == PPM_RESOLUTION
           r == FundCost(b, e, s, P)
           q == (b * e + s - 1) \div s
<1>1. MaxReturn \in Nat /\ P \in Nat \ {0}
  BY FormulaAssumption
<1>2. b * e \in Nat /\ s \in Nat
  BY TimesSign
<1>3. \A n \in Nat : n * s >= b * e <=> n >= q
  BY <1>2, RoundedUpIsSmallest
<1>4. q \in Nat
  BY <1>2, QuotientFits
<1>5. /\ r \in 0..MaxReturn
      /\ r = MaxReturn \/ FundFits(b, e, s, P, r)
      /\ \A n \in 0..MaxReturn : FundFits(b, e, s, P, n) => r <= n
  BY FundIsSmallest
<1> HIDE DEF r, q, P
<1>6. ASSUME NEW n \in Nat
      PROVE  FundFits(b, e, s, P, n) <=> n >= q
  <2> DEFINE d == b + n
             g == s + e
  <2>1. FundFits(b, e, s, P, n) <=> Power(d, P) * Power(s, P) >= Power(b, P) * Power(g, P)
    BY DEF FundFits, P
  <2>2. d \in Nat /\ g \in Nat
    OBVIOUS
  <2>3. b * g <= d * s <=> n * s >= b * e
    <3>1. b * g = b * s + b * e
      BY Z3
    <3>2. d * s = b * s + n * s
      BY Z3
    <3>3. b * s \in Int /\ b * e \in Int /\ n * s \in Int
      BY TimesSign
    <3> QED
      BY <3>1, <3>2, <3>3
  <2> HIDE DEF d, g
  <2>4. Power(b, P) * Power(g, P) <= Power(d, P) * Power(s, P) <=> b * g <= d * s
    BY <1>1, <1>2, <2>2, PowersCompare
  <2>5. Power(b, P) * Power(g, P) \in Int /\ Power(d, P) * Power(s, P) \in Int
    <3>1. \A i \in Nat : Power(i, P) \in Int
      BY <1>1, NaturalPower
    <3>2. /\ Power(b, P) \in Int /\ Power(g, P) \in Int
          /\ Power(d, P) \in Int /\ Power(s, P) \in Int
      BY <1>2, <2>2, <3>1
    <3> QED
      BY <3>2, TimesSign
  <2> QED
    BY <1>3, <2>1, <2>3, <2>4, <2>5
<1>7. q <= b * e
  <2>1. (b * e) * 1 <= (b * e) * s /\ (b * e) * 1 = b * e /\ (b * e) * s \in Int
    BY <1>2, TimesMono, TimesSign
  <2>2. (b * e) * s >= b * e
    BY <1>2, <2>1
  <2> QED
    BY <1>2, <1>3, <2>2
<1>8. q \in 0..MaxReturn /\ q < MaxReturn
  BY <1>1, <1>2, <1>4, <1>7
<1>9. r <= q
  BY <1>4, <1>5, <1>6, <1>8
<1>10. r >= q
  BY <1>1, <1>4, <1>5, <1>6, <1>8, <1>9
<1> QED
  BY <1>4, <1>5, <1>9, <1>10 DEF r, q, P

----------------------------------------------------------------------------
(* The inputs FormulaCheck walks through.                                  *)

InRange ==
  /\ C \in 1..Bound /\ B \in 1..Bound /\ R \in 1..Bound /\ T \in 1..Bound
  /\ v \in 1..PPM_RESOLUTION /\ w \in 1..PPM_RESOLUTION
  /\ fee \in 0..MAX_FEE

LEMMA InRangeInductive ==
  /\ Init => InRange
  /\ InRange /\ [Next]_vars => InRange'
<1>1. Init => InRange
  BY FormulaAssumption, BoundAssumption DEF Init, InRange
<1>2. ASSUME InRange, [Next]_vars PROVE InRange'
  <2> USE <1>2, FormulaAssumption, BoundAssumption DEF InRange
  <2>1. CASE MoreFrom
    BY <2>1 DEF MoreFrom
  <2>2. CASE MoreTo
    BY <2>2 DEF MoreTo
  <2>3. CASE HeavierFrom
    BY <2>3 DEF HeavierFrom
  <2>4. CASE HeavierTo
    BY <2>4 DEF HeavierTo
  <2>5. CASE MoreSupply
    BY <2>5 DEF MoreSupply
  <2>6. CASE MoreIn
    BY <2>6 DEF MoreIn
  <2>7. CASE DearerFee
    BY <2>7 DEF DearerFee
  <2>8. CASE UNCHANGED vars
    BY <2>8 DEF vars
  <2> QED
    BY <2>1, <2>2, <2>3, <2>4, <2>5, <2>6, <2>7, <2>8 DEF Next
<1> QED
  BY <1>1, <1>2

(* An asset can hold what one amount times another is.                     *)
LEMMA InRangeFacts ==
  ASSUME InRange
  PROVE  /\ C \in Nat \ {0} /\ B \in Nat \ {0} /\ R \in Nat \ {0} /\ T \in Nat \ {0}
         /\ v \in Nat \ {0} /\ w \in Nat \ {0} /\ Total \in Nat \ {0}
         /\ v \in 0..PPM_RESOLUTION
         /\ fee \in 0..MAX_FEE
         /\ C < MaxReturn
         /\ T*B < MaxReturn /\ R*T < MaxReturn /\ C*T < MaxReturn
<1>1. /\ C \in Nat \ {0} /\ B \in Nat \ {0} /\ R \in Nat \ {0} /\ T \in Nat \ {0}
      /\ v \in Nat \ {0} /\ w \in Nat \ {0} /\ Total \in Nat \ {0}
      /\ v \in 0..PPM_RESOLUTION /\ fee \in 0..MAX_FEE
  BY FormulaAssumption, BoundAssumption DEF InRange, Total
<1>2. \A x, y \in 1..Bound : x * y < MaxReturn
  <2>1. \A x, y \in 1..Bound : x * y <= Bound * Bound
    BY BoundAssumption, TimesMono
  <2>2. \A x, y \in 1..Bound : x * y \in Int
    BY BoundAssumption, TimesSign
  <2>3. Bound * Bound \in Int /\ MaxReturn \in Int /\ Bound * Bound < MaxReturn
    BY BoundAssumption, FormulaAssumption, TimesSign
  <2> QED
    BY <2>1, <2>2, <2>3
<1>3. /\ T*B < MaxReturn /\ R*T < MaxReturn /\ C*T < MaxReturn
  BY <1>2 DEF InRange
<1>4. C < MaxReturn
  <2>1. C * 1 <= C * T /\ C * 1 = C /\ C * T \in Int
    BY <1>1, TimesMono, TimesSign
  <2> QED
    BY <1>1, <1>3, <2>1, FormulaAssumption
<1> QED
  BY <1>1, <1>3, <1>4

(* Nobody gains by going round: whatever the weights, the fee and what is  *)
(* truncated, the inequalities the formulas fit cancel out.                *)
THEOREM FormulaRoundTripsDoNotPay == Spec => []RoundTripsDoNotPay
<1>1. InRange => RoundTripsDoNotPay
  <2> SUFFICES ASSUME InRange PROVE RoundTripsDoNotPay
    OBVIOUS
  <2>1. /\ C \in Nat \ {0} /\ B \in Nat \ {0} /\ R \in Nat \ {0} /\ T \in Nat
        /\ v \in Nat \ {0} /\ w \in Nat \ {0} /\ Total \in Nat \ {0}
        /\ fee \in 0..MAX_FEE
    BY InRangeFacts
  <2> HIDE DEF Total
  <2>2. Sell(C + T, Buy(C, T, R), R + Buy(C, T, R)) <= T
    BY <2>1, PurchaseAndSale DEF Buy, Sell
  <2>3. LET m == CrossReturn(C, v, T, B, w, fee)
        IN  m < B /\ CrossReturn(B - m, w, m, C + T, v, fee) <= T
    BY <2>1, ThereAndBack
  <2>4. LET d == FundCost(C, T, R, Total)
        IN  LiquidateReturn(C + d, T, R + T, Total) <= d
    BY <2>1, FundAndLiquidate
  <2> QED
    BY <2>2, <2>3, <2>4, Zenon DEF RoundTripsDoNotPay
<1> QED
  BY <1>1, InRangeInductive, PTL DEF Spec

(* Splitting a purchase or a liquidation in two does not yield more.       *)
THEOREM FormulaSplittingDoesNotPay == Spec => []SplittingDoesNotPay
<1>1. InRange => SplittingDoesNotPay
  <2> SUFFICES ASSUME InRange, NEW t \in 1..(T - 1)
               PROVE  LET n == Buy(C, t, R)
                          l == LiquidateReturn(C, t, R, Total)
                      IN  /\ n + Buy(C + t, T - t, R + n) <= Buy(C, T, R)
                          /\ T <= R => l + LiquidateReturn(C - l, T - t, R - t, Total)
                                         <= LiquidateReturn(C, T, R, Total)
    BY DEF SplittingDoesNotPay
  <2>1. /\ C \in Nat \ {0} /\ R \in Nat \ {0} /\ T \in Nat /\ Total \in Nat \ {0}
        /\ v \in 0..PPM_RESOLUTION /\ fee \in 0..MAX_FEE
        /\ C <= MaxReturn /\ R*T <= MaxReturn
    <3>1. R*T \in Int /\ MaxReturn \in Int
      BY InRangeFacts, TimesSign, FormulaAssumption
    <3> QED
      BY <3>1, InRangeFacts
  <2>2. t \in 0..T /\ t \in Nat /\ t < T
    BY <2>1
  <2> HIDE DEF Total
  <2>3. LET n == Buy(C, t, R)
        IN  n + Buy(C + t, T - t, R + n) <= Buy(C, T, R)
    BY <2>1, <2>2, SplitPurchase DEF Buy
  <2>4. ASSUME T <= R
        PROVE  LET l == LiquidateReturn(C, t, R, Total)
               IN  l + LiquidateReturn(C - l, T - t, R - t, Total)
                     <= LiquidateReturn(C, T, R, Total)
    <3>1. T \in 0..R /\ R \in Nat
      BY <2>1, <2>4
    <3> QED
      BY <2>1, <2>2, <3>1, SplitLiquidation
  <2> QED
    BY <2>3, <2>4, Zenon
<1> QED
  BY <1>1, InRangeInductive, PTL DEF Spec

(* Where the code avoids pow, and for a weight of 100%, the inequalities   *)
(* pick exactly the truncated (or rounded up) quotient.                    *)
THEOREM FormulaClosedForms == Spec => []ClosedForms
<1>1. InRange => ClosedForms
  <2> SUFFICES ASSUME InRange PROVE ClosedForms
    OBVIOUS
  <2>1. /\ C \in Nat \ {0} /\ B \in Nat /\ R \in Nat \ {0} /\ T \in Nat
        /\ v \in Nat \ {0}
        /\ T*B <= MaxReturn /\ R*T <= MaxReturn /\ C*T <= MaxReturn
        /\ C*T < MaxReturn
    <3>1. R*T \in Int /\ C*T \in Int /\ T*B \in Int /\ MaxReturn \in Int
      BY InRangeFacts, TimesSign, FormulaAssumption
    <3> QED
      BY <3>1, InRangeFacts
  <2>2. fee = 0 /\ v = w => CrossReturn(C, v, T, B, w, fee) = (T*B) \div (C + T)
    BY <2>1, QuickConvert
  <2>3. fee = 0 /\ v = PPM_RESOLUTION => Buy(C, T, R) = (R*T) \div C
    BY <2>1, PurchaseInProportion DEF Buy
  <2>4. fee = 0 /\ v = PPM_RESOLUTION /\ T <= R => Sell(C, T, R) = (C*T) \div R
    BY <2>1, SaleInProportion DEF Sell
  <2>5. Total = PPM_RESOLUTION => FundCost(C, T, R, Total) = (C*T + R - 1) \div R
    BY <2>1, FundInProportion
  <2>6. Total = PPM_RESOLUTION /\ T <= R =>
          LiquidateReturn(C, T, R, Total) = (C*T) \div R
    BY <2>1, LiquidateInProportion
  <2> QED
    BY <2>2, <2>3, <2>4, <2>5, <2>6 DEF ClosedForms
<1> QED
  BY <1>1, InRangeInductive, PTL DEF Spec
=============================================================================
