------------------------------- MODULE Token -------------------------------
(***************************************************************************)
(* The Token contract as a state machine: one step per action a            *)
(* transaction carries.  A transaction whose checks fail is rolled back    *)
(* whole and is no step.  signer is the account whose authority the last   *)
(* action required (require_auth): it is part of the transaction, kept in  *)
(* the state so that properties can speak of who moved which balance.      *)
(* transferbyid reads a table of BancorX and is an action of BancorX.tla.  *)
(***************************************************************************)
EXTENDS TokenLedger

CONSTANTS
  Self,       \* the account of the contract, get_self()
  Quantity    \* the amounts transactions may carry

ASSUME SelfAssumption     == Self \in Account
ASSUME QuantityAssumption == Quantity \subseteq Int

VARIABLES
  ledger,     \* the tables of the contract
  signer      \* who authorised the last action

vars == <<ledger, signer>>

Init ==
  /\ ledger = EmptyLedger
  /\ signer = NoAccount

Create(auth, iss, s, max) ==
  /\ auth = Self
  /\ CanCreate(ledger, s, max)
  /\ ledger' = AfterCreate(ledger, iss, s, max)
  /\ signer' = auth

Issue(auth, to, s, q) ==
  /\ CanIssue(ledger, to, s, q)
  /\ auth = ledger.issuer[s]
  /\ ledger' = AfterIssue(ledger, to, s, q)
  /\ signer' = auth

Retire(auth, s, q) ==
  /\ CanRetire(ledger, s, q)
  /\ auth = ledger.issuer[s]
  /\ ledger' = AfterRetire(ledger, s, q)
  /\ signer' = auth

(* Mutant: the receiver's authority is asked for.                          *)
TransferByReceiver(auth, from, to, s, q) ==
  /\ auth = to
  /\ CanTransfer(ledger, from, to, s, q)
  /\ ledger' = AfterTransfer(ledger, from, to, s, q)
  /\ signer' = auth

Transfer(auth, from, to, s, q) ==
  /\ auth = from
  /\ CanTransfer(ledger, from, to, s, q)
  /\ ledger' = AfterTransfer(ledger, from, to, s, q)
  /\ signer' = auth

(* Anybody may open a row for anybody: the signer pays for it.             *)
Open(auth, owner, s) ==
  /\ Exists(ledger, s)
  /\ ledger' = AfterOpen(ledger, owner, s)
  /\ signer' = auth

Close(auth, owner, s) ==
  /\ auth = owner
  /\ CanClose(ledger, owner, s)
  /\ ledger' = AfterClose(ledger, owner, s)
  /\ signer' = auth

Next ==
  \E auth, a \in Account, s \in Symbol :
    \/ Open(auth, a, s)
    \/ Close(auth, a, s)
    \/ \E q \in Quantity :
         \/ Create(auth, a, s, q)
         \/ Issue(auth, a, s, q)
         \/ Retire(auth, s, q)
         \/ \E to \in Account : Transfer(auth, a, to, s, q)

Spec == Init /\ [][Next]_vars

----------------------------------------------------------------------------
(* Type of the state: a ledger, and the account that signed last.          *)
TypeOK ==
  /\ ledger \in Ledger
  /\ signer \in Account \cup {NoAccount}

(* The supply field, kept by += and -= apart from the balances, always     *)
(* equals their sum.  retire relies on it: it lets the supply fall by any  *)
(* amount the issuer holds.                                                *)
SupplyIsBacked == Backed(ledger)

(* Supply between 0 and max_supply, no negative balance, although issue    *)
(* checks only the headroom and retire only the issuer's balance.          *)
AmountsInRange == Bounded(ledger)

(* close never erases a row that holds coins, sub_balance never leaves a   *)
(* balance outside the table.                                              *)
BalancesInRows == InRows(ledger)

(* A balance falls only in an action its owner signed: transfer, close and *)
(* retire ask for the authority of the account they debit.                 *)
DebitIsAuthorised ==
  [][\A a \in Account, s \in Symbol :
       ledger'.balance[s][a] < ledger.balance[s][a] => signer' = a]_vars

(* The supply changes only under the issuer's signature, and the issuer    *)
(* and the maximum of a symbol are fixed for good when it is created.      *)
IssuerControlsSupply ==
  [][\A s \in Symbol :
       /\ ledger'.supply[s] # ledger.supply[s] => signer' = ledger.issuer[s]
       /\ Exists(ledger, s) =>
            /\ ledger'.issuer[s] = ledger.issuer[s]
            /\ ledger'.max_supply[s] = ledger.max_supply[s]]_vars

----------------------------------------------------------------------------
(* The contract implements money (module Coins): the supply counter and    *)
(* the rows are bookkeeping, and what holders own is minted by the issuer  *)
(* under the cap, moved, and burnt.                                        *)
Money == INSTANCE Coins WITH
  Holder <- Account, Kind <- Symbol, NoOne <- NoAccount, Cap <- MaxAmount,
  minter <- ledger.issuer, cap <- ledger.max_supply, held <- ledger.balance

ImplementsMoney == Money!Spec
=============================================================================
