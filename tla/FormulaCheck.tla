---------------------------- MODULE FormulaCheck ----------------------------
(***************************************************************************)
(* Walks through every small input of the pricing formulas, one step per   *)
(* coordinate, and relates the results to the closed forms of the code's   *)
(* special cases and to each other.                                        *)
(***************************************************************************)
EXTENDS BancorFormula

CONSTANT Bound     \* the largest balance, supply and amount tried

(* What the formulas return for balances up to Bound, an asset can hold.   *)
ASSUME BoundAssumption == Bound \in Nat \ {0} /\ Bound * Bound < MaxReturn

VARIABLES
  C, B,            \* the balances of the two reserves
  v, w,            \* their weights
  R,               \* the supply of the smart token
  T,               \* the amount that comes in
  fee

vars == <<C, B, v, w, R, T, fee>>

Init == C = 1 /\ B = 1 /\ v = 1 /\ w = 1 /\ R = 1 /\ T = 1 /\ fee = 0

MoreFrom    == C < Bound /\ C' = C + 1 /\ UNCHANGED <<B, v, w, R, T, fee>>
MoreTo      == B < Bound /\ B' = B + 1 /\ UNCHANGED <<C, v, w, R, T, fee>>
HeavierFrom == v < PPM_RESOLUTION /\ v' = v + 1 /\ UNCHANGED <<C, B, w, R, T, fee>>
HeavierTo   == w < PPM_RESOLUTION /\ w' = w + 1 /\ UNCHANGED <<C, B, v, R, T, fee>>
MoreSupply  == R < Bound /\ R' = R + 1 /\ UNCHANGED <<C, B, v, w, T, fee>>
MoreIn      == T < Bound /\ T' = T + 1 /\ UNCHANGED <<C, B, v, w, R, fee>>
DearerFee   == fee < MAX_FEE /\ fee' = fee + 1 /\ UNCHANGED <<C, B, v, w, R, T>>

Next ==
  \/ MoreFrom \/ MoreTo \/ HeavierFrom \/ HeavierTo
  \/ MoreSupply \/ MoreIn \/ DearerFee

Spec == Init /\ [][Next]_vars

Buy(c, t, r)  == PurchaseReturn(c, t, r, v, fee)
Sell(c, e, r) == SaleReturn(c, e, r, v, fee)
Total         == v + w

----------------------------------------------------------------------------
(* Where the code has a branch of its own without pow (quick_convert, a    *)
(* total ratio of 100%), and for a reserve of weight 100%, the inequality  *)
(* picks exactly the truncated (for the fund cost: rounded up) quotient.   *)
ClosedForms ==
  /\ fee = 0 /\ v = w => CrossReturn(C, v, T, B, w, fee) = (T*B) \div (C + T)
  /\ fee = 0 /\ v = PPM_RESOLUTION => Buy(C, T, R) = (R*T) \div C
  /\ fee = 0 /\ v = PPM_RESOLUTION /\ T <= R => Sell(C, T, R) = (C*T) \div R
  /\ Total = PPM_RESOLUTION => FundCost(C, T, R, Total) = (C*T + R - 1) \div R
  /\ Total = PPM_RESOLUTION /\ T <= R =>
       LiquidateReturn(C, T, R, Total) = (C*T) \div R

(* Nobody gains by going round: buying and selling again, there and back   *)
(* between two reserves, funding and liquidating return at most what was   *)
(* paid, for all weights and fees, whatever is truncated on the way.       *)
RoundTripsDoNotPay ==
  LET n == Buy(C, T, R)
      m == CrossReturn(C, v, T, B, w, fee)
      d == FundCost(C, T, R, Total)
  IN  /\ Sell(C + T, n, R + n) <= T
      /\ m < B /\ CrossReturn(B - m, w, m, C + T, v, fee) <= T
      /\ LiquidateReturn(C + d, T, R + T, Total) <= d

(* Splitting a purchase or a liquidation in two does not yield more than   *)
(* doing it at once: the truncations and the fee of the first part stay in *)
(* the pool but never raise the price paid to the same account.            *)
SplittingDoesNotPay ==
  \A t \in 1..(T - 1) :
    LET n == Buy(C, t, R)
        l == LiquidateReturn(C, t, R, Total)
    IN  /\ n + Buy(C + t, T - t, R + n) <= Buy(C, T, R)
        /\ T <= R => l + LiquidateReturn(C - l, T - t, R - t, Total)
                       <= LiquidateReturn(C, T, R, Total)
=============================================================================
