----------------------------- MODULE MCBancorX -----------------------------
(***************************************************************************)
(* Instances of BancorX: the contract, the token contract and one user;    *)
(* reporters are names without a balance.                                  *)
(***************************************************************************)
EXTENDS BancorX, TLC

CONSTANTS
  user,           \* the target of the transfers, who also sends tokens out
  InWallet,       \* what the user holds at first
  t1, t2,         \* two transactions
  MinReporters, MaxLimits   \* the limits the administrator may choose from

MCInitial == [a \in Account |-> IF a = user THEN InWallet ELSE 0]

Rep(id, q, d) == [x_transfer_id |-> id, target |-> user, quantity |-> q, detail |-> d]

(* t1 may be reported with two contents; both share the x_transfer_id 1.   *)
MCReports == (t1 :> {Rep(1, 1, 0), Rep(1, 2, 0)}) @@ (t2 :> {Rep(1, 1, 0)})

(* What honest reporters see: one content each, an id and none.            *)
MCHonest  == (t1 :> {Rep(1, 1, 0)}) @@ (t2 :> {Rep(0, 1, 0)})

MCParams  == [min_reporters : MinReporters, min_limit : {1}, limit_inc : {1},
              max_issue_limit : MaxLimits, max_destroy_limit : {1}]

MCSymmetry == Permutations(Reporter)
=============================================================================
