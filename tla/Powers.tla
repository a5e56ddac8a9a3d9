------------------------------- MODULE Powers -------------------------------
(***************************************************************************)
(* Powers and products, as functions a proof can unfold: the power of the  *)
(* standard modules has no definition.                                     *)
(***************************************************************************)
EXTENDS Integers, Functions

(* x times itself, n times; pow(x, n) of the code, for whole x and n.      *)
Power(x, n) ==
  LET p[i \in Nat] == IF i = 0 THEN 1 ELSE x * p[i - 1]
  IN  p[n]

(* The product of the values of a function on a finite set.                *)
ProductOnSet(fun, S) == FoldFunctionOnSet(LAMBDA x, y : x * y, 1, fun, S)
=============================================================================
