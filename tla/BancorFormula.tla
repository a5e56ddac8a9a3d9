--------------------------- MODULE BancorFormula ---------------------------
(***************************************************************************)
(* The pricing formulas of BancorConverter.  The code evaluates them in    *)
(* double precision with pow(...) and then truncates (or, for the cost of  *)
(* funding, rounds up) to whole units.  Here each result is characterised  *)
(* in exact arithmetic: it is the largest n (the smallest, for the cost)   *)
(* below the real value, an inequality the fractional powers disappear     *)
(* from once both sides are raised to the weights.  The rounding of        *)
(* doubles themselves is not modelled, the truncation is.                  *)
(*                                                                         *)
(* Amounts are counted in units of the asset, so that asset_to_double and  *)
(* double_to_asset leave only the truncation.  A division by zero gives    *)
(* inf or NaN, which no asset can hold: the result is then MaxReturn, or   *)
(* the caller's guard excludes it.                                         *)
(***************************************************************************)
EXTENDS Powers, FiniteSetsExt

CONSTANTS
  PPM_RESOLUTION,  \* the weight that stands for 100%, also MAX_RATIO
  OnePpm,          \* a weight of one part per million, below the ones in use
  MAX_FEE,         \* the fee that stands for 100%
  MaxReturn,       \* the least amount an asset cannot hold
  MaxFixed         \* the largest result of to_fixed, which casts to int

ASSUME FormulaAssumption ==
  /\ PPM_RESOLUTION \in Nat \ {0}
  /\ OnePpm \in Nat
  /\ MAX_FEE \in Nat \ {0}
  /\ MaxReturn \in Nat
  /\ MaxFixed \in 1..MaxReturn - 1

(* Truncation to whole units, and rounding up.                             *)
Largest(Fits(_))  == Max({n \in 0..MaxReturn : n = 0 \/ Fits(n)})
Smallest(Fits(_)) == Min({n \in 0..MaxReturn : n = MaxReturn \/ Fits(n)})

(* calculate_fee takes amount * (1 - (1 - fee/MAX_FEE)^magnitude) off, so  *)
(* that the fraction Kept/Whole of the amount remains.                     *)
Kept(fee, magnitude) == Power(MAX_FEE - fee, magnitude)
Whole(magnitude)     == Power(MAX_FEE, magnitude)

(* Mutant: the smart tokens are rounded up.                                *)
PurchaseReturnRoundedUp(C, T, R, w, fee) ==
  LET k == Kept(fee, 1)
      u == Whole(1)
  IN  Smallest(LAMBDA n : Power(k*R + u*n, PPM_RESOLUTION) * Power(C, w)
                            >= Power(k*R, PPM_RESOLUTION) * Power(C + T, w))

(* Reserve to smart token, R((1 + T/C)^(w/PPM) - 1) less the fee: supply R *)
(* and reserve C before the deposit T.                                     *)
PurchaseReturn(C, T, R, w, fee) ==
  LET k == Kept(fee, 1)
      u == Whole(1)
  IN  Largest(LAMBDA n : Power(k*R + u*n, PPM_RESOLUTION) * Power(C, w)
                           <= Power(k*R, PPM_RESOLUTION) * Power(C + T, w))

(* Smart token to reserve, C(1 - (1 - E/R)^(PPM/w)) less the fee.          *)
SaleReturn(C, E, R, w, fee) ==
  LET k == Kept(fee, 1)
      u == Whole(1)
  IN  Largest(LAMBDA n : /\ u*n <= k*C
                         /\ Power(k*C - u*n, w) * Power(R, PPM_RESOLUTION)
                              >= Power(k*C, w) * Power(R - E, PPM_RESOLUTION))

(* Mutant: the price does not move with the amount, in / balance * to.     *)
CrossReturnAtSpot(C, v, T, B, w, fee) ==
  Largest(LAMBDA n : n <= B /\ Whole(2) * n * C <= Kept(fee, 2) * T * B)

(* Reserve C of weight v to reserve B of weight w.  The code buys smart    *)
(* tokens with T and sells them again, both in doubles, and takes the fee  *)
(* twice; the supply cancels out and B(1 - (C/(C + T))^(v/w)) remains,     *)
(* which for v = w is quick_convert, T/(C + T) * B.                        *)
CrossReturn(C, v, T, B, w, fee) ==
  LET k == Kept(fee, 2)
      u == Whole(2)
  IN  Largest(LAMBDA n : /\ u*n <= k*B
                         /\ Power(k*B - u*n, w) * Power(C + T, v)
                              >= Power(k*B, w) * Power(C, v))

(* The fee itself, which to_fixed cuts to whole units: what is kept and    *)
(* what is taken off change places.                                        *)
PurchaseFee(C, T, R, w, fee) == PurchaseReturn(C, T, R, w, MAX_FEE - fee)
SaleFee(C, E, R, w, fee)     == SaleReturn(C, E, R, w, MAX_FEE - fee)

CrossFee(C, v, T, B, w, fee) ==
  LET u == Whole(2)
      f == u - Kept(fee, 2)
  IN  Largest(LAMBDA n : /\ u*n <= f*B
                         /\ Power(f*B - u*n, w) * Power(C + T, v)
                              >= Power(f*B, w) * Power(C, v))

(* The guards of calculate_fund_cost and calculate_liquidate_return.       *)
InFormulaRange(supply, balance, total) ==
  /\ supply > 0
  /\ balance > 0
  /\ total > OnePpm
  /\ total <= 2 * PPM_RESOLUTION

(* Mutant: the cost is truncated.                                          *)
FundCostTruncated(b, f, s, total) ==
  Largest(LAMBDA n : Power(b + n, total) * Power(s, PPM_RESOLUTION)
                       <= Power(b, total) * Power(s + f, PPM_RESOLUTION))

(* What one reserve must receive for the supply s to grow by f, when the   *)
(* weights sum up to total: b((1 + f/s)^(PPM/total) - 1) rounded up.       *)
FundCost(b, f, s, total) ==
  Smallest(LAMBDA n : Power(b + n, total) * Power(s, PPM_RESOLUTION)
                        >= Power(b, total) * Power(s + f, PPM_RESOLUTION))

(* Mutant: the return is rounded up.                                       *)
LiquidateReturnRoundedUp(b, l, s, total) ==
  Smallest(LAMBDA n : \/ n >= b
                      \/ Power(b - n, total) * Power(s, PPM_RESOLUTION)
                           <= Power(b, total) * Power(s - l, PPM_RESOLUTION))

(* What one reserve pays when l of the supply s is liquidated, truncated;  *)
(* the whole balance for the whole supply.                                 *)
LiquidateReturn(b, l, s, total) ==
  Largest(LAMBDA n : /\ n <= b
                     /\ Power(b - n, total) * Power(s, PPM_RESOLUTION)
                          >= Power(b, total) * Power(s - l, PPM_RESOLUTION))
=============================================================================
