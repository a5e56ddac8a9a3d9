---------------------------- MODULE TokenLedger ----------------------------
(***************************************************************************)
(* The tables of one deployment of the Token contract and what each of its *)
(* actions does to them, as operators on a ledger: CanOp is the            *)
(* conjunction of the checks of action Op that do not concern signatures,  *)
(* AfterOp the tables it leaves.  The modules of the contracts that send   *)
(* token actions inline (BancorConverter, BancorX) chain these operators   *)
(* inside one step, Token.tla makes an action of each.                     *)
(*                                                                         *)
(* A symbol stands for a symbol code with its precision, so that the       *)
(* checks "symbol precision mismatch" hold by construction; memos, RAM     *)
(* payers and the printing of assets are left out.  Account is the set of  *)
(* accounts that exist: the checks is_account(...) restrict the inputs.    *)
(***************************************************************************)
EXTENDS Integers, FiniteSets, Functions

CONSTANTS
  Account,    \* the existing EOSIO accounts
  Symbol,     \* the symbols an asset may carry
  NoAccount,  \* the issuer of a symbol that has no row in the table "stat"
  MaxAmount   \* asset::max_amount (2^62 - 1 on chain)

ASSUME AccountAssumption   == IsFiniteSet(Account)
ASSUME NoAccountAssumption == NoAccount \notin Account
ASSUME MaxAmountAssumption == MaxAmount \in Nat \ {0}

(* One record holds both tables: supply, max_supply and issuer are the     *)
(* columns of "stat"; rows[s] are the accounts that have a row for s in    *)
(* "accounts", and balance[s] what is in it (0 where there is no row).     *)
Ledger ==
  [issuer     : [Symbol -> Account \cup {NoAccount}],
   max_supply : [Symbol -> Int],
   supply     : [Symbol -> Int],
   rows       : [Symbol -> SUBSET Account],
   balance    : [Symbol -> [Account -> Int]]]

EmptyLedger ==
  [issuer     |-> [s \in Symbol |-> NoAccount],
   max_supply |-> [s \in Symbol |-> 0],
   supply     |-> [s \in Symbol |-> 0],
   rows       |-> [s \in Symbol |-> {}],
   balance    |-> [s \in Symbol |-> [a \in Account |-> 0]]]

Exists(L, s) == L.issuer[s] # NoAccount

(* asset::is_valid and the overflow checks of the arithmetic of asset.     *)
IsAmount(q) == q \in -MaxAmount..MaxAmount

TotalBalance(L, s) == SumFunctionOnSet(L.balance[s], Account)

----------------------------------------------------------------------------
(* add_balance and sub_balance.                                            *)

Credited(balance, a, s, q) == [balance EXCEPT ![s][a] = @ + q]

CanAdd(L, a, s, q) == IsAmount(L.balance[s][a] + q)

(* Mutant: the row is set to the value instead of increased by it.         *)
AddBalanceOverwriting(L, a, s, q) ==
  [L EXCEPT !.balance[s][a] = q, !.rows[s] = @ \cup {a}]

AddBalance(L, a, s, q) ==
  [L EXCEPT !.balance = Credited(@, a, s, q), !.rows[s] = @ \cup {a}]

(* Mutant: an overdrawn balance is not refused.                            *)
CanSubOverdrawn(L, a, s, q) == a \in L.rows[s]

CanSub(L, a, s, q) ==
  /\ a \in L.rows[s]
  /\ L.balance[s][a] >= q

SubBalance(L, a, s, q) == [L EXCEPT !.balance = Credited(@, a, s, -q)]

----------------------------------------------------------------------------
(* create, issue, retire.                                                  *)

(* Mutant: a symbol may be created again.                                  *)
CanCreateAgain(L, s, max) == IsAmount(max) /\ max > 0

CanCreate(L, s, max) ==
  /\ IsAmount(max)
  /\ max > 0
  /\ ~ Exists(L, s)

AfterCreate(L, iss, s, max) ==
  [L EXCEPT !.issuer[s] = iss, !.max_supply[s] = max, !.supply[s] = 0]

(* Mutant: the quantity is compared with the maximum, not the headroom.    *)
CanIssueToMaximum(L, to, s, q) ==
  /\ Exists(L, s)
  /\ to = L.issuer[s]
  /\ IsAmount(q)
  /\ q > 0
  /\ q <= L.max_supply[s]
  /\ CanAdd(L, to, s, q)

CanIssue(L, to, s, q) ==
  /\ Exists(L, s)
  /\ to = L.issuer[s]
  /\ IsAmount(q)
  /\ q > 0
  /\ q <= L.max_supply[s] - L.supply[s]
  /\ CanAdd(L, to, s, q)

AfterIssue(L, to, s, q) ==
  AddBalance([L EXCEPT !.supply[s] = @ + q], to, s, q)

(* retire compares the quantity with the issuer's balance only, never with *)
(* the supply it is subtracted from.                                       *)
CanRetire(L, s, q) ==
  /\ Exists(L, s)
  /\ IsAmount(q)
  /\ q > 0
  /\ IsAmount(L.supply[s] - q)
  /\ CanSub(L, L.issuer[s], s, q)

AfterRetire(L, s, q) ==
  SubBalance([L EXCEPT !.supply[s] = @ - q], L.issuer[s], s, q)

----------------------------------------------------------------------------
(* transfer, open, close.                                                  *)

CanTransfer(L, from, to, s, q) ==
  /\ from # to
  /\ Exists(L, s)
  /\ IsAmount(q)
  /\ q > 0
  /\ CanSub(L, from, s, q)
  /\ CanAdd(L, to, s, q)

AfterTransfer(L, from, to, s, q) ==
  AddBalance(SubBalance(L, from, s, q), to, s, q)

(* Mutant: the row is opened under the symbol instead of the owner.        *)
AfterOpenSwapped(L, a, s) == [L EXCEPT !.rows[s] = @ \cup {s}]

AfterOpen(L, a, s) == [L EXCEPT !.rows[s] = @ \cup {a}]

(* Mutant: a row that holds coins may be closed.                           *)
CanCloseAny(L, a, s) == a \in L.rows[s]

CanClose(L, a, s) ==
  /\ a \in L.rows[s]
  /\ L.balance[s][a] = 0

AfterClose(L, a, s) == [L EXCEPT !.rows[s] = @ \ {a}]

----------------------------------------------------------------------------
(* What every ledger a history of token actions can produce satisfies.     *)

(* The supply counter of a symbol is the sum of the balances held in it.   *)
Backed(L) == \A s \in Symbol : L.supply[s] = TotalBalance(L, s)

(* No counter leaves the range of its declaration: supply stays between 0  *)
(* and max_supply, no balance is negative.                                 *)
Bounded(L) ==
  \A s \in Symbol :
    /\ L.supply[s] \in 0..L.max_supply[s]
    /\ L.max_supply[s] <= MaxAmount
    /\ \A a \in Account : L.balance[s][a] >= 0

(* Coins lie only in rows of the table, and rows only in created symbols.  *)
InRows(L) ==
  \A a \in Account, s \in Symbol :
    /\ L.balance[s][a] # 0 => a \in L.rows[s]
    /\ a \in L.rows[s] => Exists(L, s)

LedgerOK(L) == L \in Ledger /\ Backed(L) /\ Bounded(L) /\ InRows(L)
=============================================================================
