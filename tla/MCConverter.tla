---------------------------- MODULE MCConverter ----------------------------
(***************************************************************************)
(* Instances of BancorConverter: the accounts and tokens come from the     *)
(* configuration, every account but the contract starts with InWallet of   *)
(* each token that is not a smart token.                                   *)
(***************************************************************************)
EXTENDS BancorConverter, TLC

CONSTANTS
  InWallet,       \* what each wallet holds of each reserve token
  MaxFees,        \* the maximum fees the administrator may set
  Networks, Stakings

(* Every token has a symbol code of its own.                               *)
MCCodeOf   == [t \in Symbol |-> t]

(* All tokens but the smart ones carry one symbol code.                    *)
MCOneCode  == [t \in Symbol |->
                 IF t \in Smart THEN t ELSE CHOOSE k \in Code : k \notin Smart]

MCInitial  == [t \in Symbol |-> [a \in Account |->
                 IF t \in Smart \/ a = Self THEN 0 ELSE InWallet]]
MCParams   == [max_fee : MaxFees, network : Networks, staking : Stakings]
MCSymmetry == Permutations(ReserveToken)
=============================================================================
