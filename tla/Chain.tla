------------------------------- MODULE Chain -------------------------------
(***************************************************************************)
(* What the contracts of a conversion share: the accounts of the chain,    *)
(* the tokens with their contracts and symbol codes, and the inline        *)
(* actions the contracts send to the token contracts.                      *)
(***************************************************************************)
EXTENDS TokenLedger, Memo

CONSTANTS
  SystemAccount,   \* eosio.ram, eosio.stake, eosio.rex
  Code,            \* symbol codes
  CodeOf,          \* the symbol code of each token
  ContractOf       \* the token contract of each token

ASSUME ChainAssumption ==
  /\ SystemAccount \subseteq Account
  /\ CodeOf \in [Symbol -> Code]
  /\ ContractOf \in [Symbol -> Account]
  /\ \A t, u \in Symbol :
       CodeOf[t] = CodeOf[u] /\ ContractOf[t] = ContractOf[u] => t = u
  /\ Empty \notin Account \cup Code

(* An inline action is authorised by "from": of a transfer the sender, of  *)
(* an issue or a retirement the issuer.                                    *)
transfer(from, to, token, quantity, memo) ==
  [action |-> "transfer", from |-> from, to |-> to, token |-> token,
   quantity |-> quantity, memo |-> memo]

issue(issuer, token, quantity) ==
  [action |-> "issue", from |-> issuer, to |-> issuer, token |-> token,
   quantity |-> quantity, memo |-> Plain("issue")]

retire(issuer, token, quantity) ==
  [action |-> "retire", from |-> issuer, to |-> issuer, token |-> token,
   quantity |-> quantity, memo |-> Plain("destroy on conversion")]
=============================================================================
