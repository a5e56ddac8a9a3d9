-------------------------- MODULE BancorConverter --------------------------
(***************************************************************************)
(* The BancorConverter contract: many converters in one account, each with *)
(* a smart token, weighted reserves and the deposits liquidity providers   *)
(* make before they fund.  A step is one transaction or, for conversions,  *)
(* one hop of it: the handler with every inline action it sends, applied   *)
(* to the token ledger in the order they execute.  Checks that fail roll   *)
(* the whole step back, so that they are guards.  The receivers of tokens  *)
(* are accounts without code of their own; what the network contract sends *)
(* on is a further step.                                                   *)
(*                                                                         *)
(* ledger holds the smart tokens (the multi_token contract) and the tokens *)
(* reserves are made of.  A symbol stands for a token, that is a contract  *)
(* and a symbol; CodeOf is the symbol code alone, the key the contract     *)
(* uses.  All symbols have the same precision.                             *)
(***************************************************************************)
EXTENDS TokenLedger, BancorFormula

CONSTANTS
  Self,            \* the account of the contract
  Smart,           \* the tokens converters may be created for
  ReserveToken,    \* the tokens reserves may be made of
  Code,            \* symbol codes
  CodeOf,          \* the symbol code of each token
  SystemAccount,   \* eosio.ram, eosio.stake, eosio.rex
  DEFAULT_MAX_SUPPLY,
  InitialShare,    \* 1/MAX_INITIAL_MAXIMUM_SUPPLY_RATIO
  Issuer,          \* the issuer of the tokens that are not smart
  InitialBalance,  \* who holds what of the tokens that are not smart
  Params,          \* the settings the administrator may choose
  Payee, NewOwner, Weight, Fee, Quantity   \* the arguments of transactions

Param == [max_fee : Nat, network : Account, staking : Account \cup {NoAccount}]

ASSUME ConverterAssumption ==
  /\ Self \in Account
  /\ Smart \subseteq Symbol /\ IsFiniteSet(Smart)
  /\ IsFiniteSet(ReserveToken)
  /\ ReserveToken \subseteq Symbol
  /\ CodeOf \in [Symbol -> Code]
  /\ \A c, d \in Smart : CodeOf[c] = CodeOf[d] => c = d
  /\ SystemAccount \subseteq Account \ {Self}
  /\ DEFAULT_MAX_SUPPLY \in 1..MaxAmount
  /\ InitialShare \in Nat \ {0}
  /\ Issuer \in Account
  /\ InitialBalance \in [Symbol -> [Account -> Nat]]
  /\ \A t \in Symbol : InitialBalance[t][Self] = 0
  /\ \A t \in Symbol :
       SumFunctionOnSet(InitialBalance[t], Account) \in 0..MaxAmount
  /\ \A c \in Smart, a \in Account : InitialBalance[c][a] = 0
  /\ Params \subseteq Param
  /\ Payee \subseteq Account
  /\ NewOwner \subseteq Account
  /\ Weight \subseteq Int
  /\ Fee \subseteq Nat
  /\ Quantity \subseteq Int
  /\ MaxReturn = MaxAmount + 1

VARIABLES
  settings,          \* the singleton; network = NoAccount before setsettings
  converters,        \* owner, fee, stake; owner = NoAccount where no row is
  reserve_weights,   \* 0 where there is no reserve
  reserve_balances,
  accounts,          \* the deposits, by converter, account and symbol code
  ledger,            \* the tables of the token contracts
  signer             \* who authorised the last transaction

vars == <<settings, converters, reserve_weights, reserve_balances, accounts,
          ledger, signer>>

NoConverter == [owner |-> NoAccount, fee |-> 0, stake |-> FALSE]

(* The tokens reserves are made of exist, have been handed out, and        *)
(* everybody has opened a row for them.                                    *)
InitialLedger ==
  [issuer     |-> [t \in Symbol |-> IF t \in Smart THEN NoAccount ELSE Issuer],
   max_supply |-> [t \in Symbol |-> IF t \in Smart THEN 0 ELSE MaxAmount],
   supply     |-> [t \in Symbol |->
                     SumFunctionOnSet(InitialBalance[t], Account)],
   rows       |-> [t \in Symbol |-> IF t \in Smart THEN {} ELSE Account],
   balance    |-> InitialBalance]

Init ==
  /\ settings = [max_fee |-> 0, network |-> NoAccount, staking |-> NoAccount]
  /\ converters = [c \in Smart |-> NoConverter]
  /\ reserve_weights = [c \in Smart |-> [t \in ReserveToken |-> 0]]
  /\ reserve_balances = [c \in Smart |-> [t \in ReserveToken |-> 0]]
  /\ accounts = [c \in Smart |-> [a \in Account |-> [k \in Code |-> 0]]]
  /\ ledger = InitialLedger
  /\ signer = NoAccount

----------------------------------------------------------------------------
(* Reading the tables.                                                     *)

IsConverter(c) == converters[c].owner # NoAccount
Reserves(c)    == {t \in ReserveToken : reserve_weights[c][t] > 0}
TotalWeight(c) == SumFunctionOnSet(reserve_weights[c], ReserveToken)
Active(c)      == \A t \in Reserves(c) : reserve_balances[c][t] # 0

----------------------------------------------------------------------------
(* settings.cpp: all but the settings themselves are kept.                 *)

SetSettings(auth, p) ==
  /\ auth = Self
  /\ p.max_fee <= MAX_FEE
  /\ settings.staking # NoAccount => p.staking = settings.staking
  /\ settings' = p
  /\ signer' = auth
  /\ UNCHANGED <<converters, reserve_weights, reserve_balances, accounts, ledger>>

Configure(c, auth, row) ==
  /\ converters' = [converters EXCEPT ![c] = row]
  /\ signer' = auth
  /\ UNCHANGED <<settings, reserve_weights, reserve_balances, accounts, ledger>>

UpdateOwner(auth, c, new_owner) ==
  /\ IsConverter(c)
  /\ auth = converters[c].owner
  /\ new_owner # converters[c].owner
  /\ Configure(c, auth, [converters[c] EXCEPT !.owner = new_owner])

(* Mutant: the staking contract is not asked.                              *)
UpdateFeeByOwner(auth, c, fee) ==
  /\ IsConverter(c)
  /\ auth = converters[c].owner
  /\ fee <= settings.max_fee
  /\ Configure(c, auth, [converters[c] EXCEPT !.fee = fee])

UpdateFee(auth, c, fee) ==
  /\ IsConverter(c)
  /\ auth = IF converters[c].stake THEN settings.staking ELSE converters[c].owner
  /\ fee <= settings.max_fee
  /\ Configure(c, auth, [converters[c] EXCEPT !.fee = fee])

----------------------------------------------------------------------------
(* converters.cpp.                                                         *)

(* issue to the contract, which transfers on: create, fund and purchases.  *)
CanIssueTo(L, a, c, q) ==
  /\ CanIssue(L, Self, c, q)
  /\ CanTransfer(AfterIssue(L, Self, c, q), Self, a, c, q)

AfterIssueTo(L, a, c, q) ==
  AfterTransfer(AfterIssue(L, Self, c, q), Self, a, c, q)

Create(auth, c, q) ==
  LET created == AfterCreate(ledger, Self, c, DEFAULT_MAX_SUPPLY)
  IN  /\ settings.network # NoAccount
      /\ ~ IsConverter(c)
      /\ q > 0
      /\ q * InitialShare <= DEFAULT_MAX_SUPPLY
      /\ CanCreate(ledger, c, DEFAULT_MAX_SUPPLY)
      /\ CanIssueTo(created, auth, c, q)
      /\ converters' = [converters EXCEPT
                          ![c] = [owner |-> auth, fee |-> 0, stake |-> FALSE]]
      /\ ledger' = AfterIssueTo(created, auth, c, q)
      /\ signer' = auth
      /\ UNCHANGED <<settings, reserve_weights, reserve_balances, accounts>>

Activate(auth, c, enabled) ==
  /\ IsConverter(c)
  /\ auth = converters[c].owner
  /\ settings.staking # NoAccount
  /\ converters[c].stake # enabled
  /\ Configure(c, auth, [converters[c] EXCEPT !.stake = enabled])

(* No authority is required, here and in delreserve.                       *)
DelConverter(auth, c) ==
  /\ IsConverter(c)
  /\ Reserves(c) = {}
  /\ Configure(c, auth, NoConverter)

----------------------------------------------------------------------------
(* modify_balance.cpp.                                                     *)

(* Mutant: a reserve may be overdrawn.                                     *)
CanModReserveOverdrawn(c, t, q) ==
  /\ t \in Reserves(c)
  /\ IsAmount(reserve_balances[c][t] + q)

CanModReserve(c, t, q) ==
  /\ t \in Reserves(c)
  /\ IsAmount(reserve_balances[c][t] + q)
  /\ reserve_balances[c][t] + q >= 0

(* Mutants: what leaves the reserve is not booked; the value replaces the  *)
(* balance.                                                                *)
ModReserveUp(balances, c, t, q) ==
  [balances EXCEPT ![c][t] = IF q < 0 THEN @ ELSE @ + q]
ModReserveReplaced(balances, c, t, q) ==
  [balances EXCEPT ![c][t] = IF q < 0 THEN @ + q ELSE q]

ModReserve(balances, c, t, q) == [balances EXCEPT ![c][t] = @ + q]

CanModAccount(a, c, k, q) ==
  /\ IsAmount(accounts[c][a][k] + q)
  /\ q < 0 => accounts[c][a][k] >= -q

(* Deposits and withdrawals of an active converter go through the table    *)
(* "accounts", those of an inactive one move its reserves directly.        *)
ModBalances(a, c, t, q) ==
  /\ IsConverter(c)
  /\ t \in Reserves(c)
  /\ \/ /\ Active(c)
        /\ CanModAccount(a, c, CodeOf[t], q)
        /\ accounts' = [accounts EXCEPT ![c][a][CodeOf[t]] = @ + q]
        /\ UNCHANGED reserve_balances
     \/ /\ ~ Active(c)
        /\ a = converters[c].owner
        /\ CanModReserve(c, t, q)
        /\ reserve_balances' = ModReserve(reserve_balances, c, t, q)
        /\ UNCHANGED accounts

----------------------------------------------------------------------------
(* reserves.cpp.                                                           *)

SetReserve(auth, c, t, ratio) ==
  /\ IsConverter(c)
  /\ auth = converters[c].owner
  /\ ratio > 0
  /\ ratio <= PPM_RESOLUTION
  /\ \A r \in Reserves(c) : CodeOf[r] # CodeOf[t]
  /\ TotalWeight(c) + ratio <= PPM_RESOLUTION
  /\ reserve_weights' = [reserve_weights EXCEPT ![c][t] = ratio]
  /\ reserve_balances' = [reserve_balances EXCEPT ![c][t] = 0]
  /\ signer' = auth
  /\ UNCHANGED <<settings, converters, accounts, ledger>>

DelReserve(auth, c, t) ==
  /\ IsConverter(c)
  /\ ~ Active(c)
  /\ t \in Reserves(c)
  /\ reserve_weights' = [reserve_weights EXCEPT ![c][t] = 0]
  /\ reserve_balances' = [reserve_balances EXCEPT ![c][t] = 0]
  /\ signer' = auth
  /\ UNCHANGED <<settings, converters, accounts, ledger>>

(* Mutant: anybody may withdraw for a depositor.                           *)
WithdrawFor(auth, c, t, q) ==
  \E sender \in Account :
    /\ q > 0
    /\ ModBalances(sender, c, t, -q)
    /\ CanTransfer(ledger, Self, sender, t, q)
    /\ ledger' = AfterTransfer(ledger, Self, sender, t, q)
    /\ signer' = auth
    /\ UNCHANGED <<settings, converters, reserve_weights>>

Withdraw(auth, c, t, q) ==
  /\ q > 0
  /\ ModBalances(auth, c, t, -q)
  /\ CanTransfer(ledger, Self, auth, t, q)
  /\ ledger' = AfterTransfer(ledger, Self, auth, t, q)
  /\ signer' = auth
  /\ UNCHANGED <<settings, converters, reserve_weights>>

(* Each reserve grows by its cost, taken from the sender's deposits.       *)
Costs(c, q) ==
  [t \in ReserveToken |->
     IF t \in Reserves(c)
     THEN FundCost(reserve_balances[c][t], q, ledger.supply[c], TotalWeight(c))
     ELSE 0]

Fund(auth, c, q) ==
  LET cost == Costs(c, q)
  IN  /\ q > 0
      /\ IsConverter(c)
      /\ \A t \in Reserves(c) :
           /\ InFormulaRange(ledger.supply[c], reserve_balances[c][t],
                             TotalWeight(c))
           /\ CanModAccount(auth, c, CodeOf[t], -cost[t])
           /\ CanModReserve(c, t, cost[t])
      /\ CanIssueTo(ledger, auth, c, q)
      /\ accounts' = [accounts EXCEPT ![c][auth] = [k \in Code |->
           @[k] - SumFunctionOnSet(cost, {t \in ReserveToken : CodeOf[t] = k})]]
      /\ reserve_balances' = [reserve_balances EXCEPT ![c] =
                                [t \in ReserveToken |-> @[t] + cost[t]]]
      /\ ledger' = AfterIssueTo(ledger, auth, c, q)
      /\ signer' = auth
      /\ UNCHANGED <<settings, converters, reserve_weights>>

----------------------------------------------------------------------------
(* on_notify.cpp: what a transfer to the contract sets off, by its memo.   *)

(* A transfer that reaches the contract and is not ignored by it.          *)
Receives(a, t, q) ==
  /\ a \notin SystemAccount
  /\ CanTransfer(ledger, a, Self, t, q)

Received(a, t, q) == AfterTransfer(ledger, a, Self, t, q)

(* Memo "fund;<converter>".                                                *)
Deposit(auth, c, t, q) ==
  /\ Receives(auth, t, q)
  /\ ModBalances(auth, c, t, q)
  /\ ledger' = Received(auth, t, q)
  /\ signer' = auth
  /\ UNCHANGED <<settings, converters, reserve_weights>>

(* The transfers of a liquidation concern different tokens, so that their  *)
(* order does not matter.                                                  *)
AfterPayments(L, a, pay, paid) ==
  [L EXCEPT
     !.rows    = [t \in Symbol |-> IF t \in paid THEN @[t] \cup {a} ELSE @[t]],
     !.balance = [t \in Symbol |->
                    IF t \in paid
                    THEN AfterTransfer(L, Self, a, t, pay[t]).balance[t]
                    ELSE @[t]]]

(* Mutant: the supply is read after the retirement.                        *)
ReturnsAfterRetirement(c, q) ==
  [t \in ReserveToken |->
     IF t \in Reserves(c)
     THEN LiquidateReturn(reserve_balances[c][t], q, ledger.supply[c] - q,
                          TotalWeight(c))
     ELSE 0]

Returns(c, q) ==
  [t \in ReserveToken |->
     IF t \in Reserves(c)
     THEN LiquidateReturn(reserve_balances[c][t], q, ledger.supply[c],
                          TotalWeight(c))
     ELSE 0]

(* Memo "liquidate": the retirement is sent last, so that every return is  *)
(* computed from the supply and paid before it falls.                      *)
Liquidate(auth, c, q) ==
  LET pay  == Returns(c, q)
      held == Received(auth, c, q)
      paid == AfterPayments(held, auth, pay, Reserves(c))
  IN  /\ Receives(auth, c, q)
      /\ IsConverter(c)
      /\ \A t \in Reserves(c) :
           /\ InFormulaRange(ledger.supply[c], reserve_balances[c][t],
                             TotalWeight(c))
           /\ q <= ledger.supply[c]
           /\ CanModReserve(c, t, -pay[t])
           /\ CanTransfer(held, Self, auth, t, pay[t])
      /\ CanRetire(paid, c, q)
      /\ reserve_balances' = [reserve_balances EXCEPT ![c] =
                                [t \in ReserveToken |-> @[t] - pay[t]]]
      /\ ledger' = AfterRetire(paid, c, q)
      /\ signer' = auth
      /\ UNCHANGED <<settings, converters, reserve_weights, accounts>>

----------------------------------------------------------------------------
(* convert.cpp: any other memo, accepted from the network contract only.   *)

(* The tokens of a conversion have different symbol codes, and the code of *)
(* the smart token means the smart token only: a reserve of that code from *)
(* another contract is never bought, and tokens of it that are sold would  *)
(* be retired at their contract, which grants that to their issuer alone.  *)
Distinct(t, r) == CodeOf[t] # CodeOf[r]

(* The transfer of the result, once the tables hold what they should.      *)
SendToNetwork(L, t, q) ==
  /\ CanTransfer(L, Self, settings.network, t, q)
  /\ ledger' = AfterTransfer(L, Self, settings.network, t, q)

ConvertFrame(c, t, q) ==
  /\ settings.network # NoAccount
  /\ IsConverter(c)
  /\ Receives(settings.network, t, q)
  /\ signer' = settings.network
  /\ UNCHANGED <<settings, converters, reserve_weights, accounts>>

(* Reserve to smart token.                                                 *)
ConvertToSmart(c, t, q) ==
  LET n    == PurchaseReturn(reserve_balances[c][t], q, ledger.supply[c],
                             reserve_weights[c][t], converters[c].fee)
      held == Received(settings.network, t, q)
  IN  /\ ConvertFrame(c, t, q)
      /\ Distinct(t, c)
      /\ PurchaseFee(reserve_balances[c][t], q, ledger.supply[c],
                     reserve_weights[c][t], converters[c].fee) <= MaxFixed
      /\ CanModReserve(c, t, q)
      /\ CanIssue(held, Self, c, n)
      /\ reserve_balances' = ModReserve(reserve_balances, c, t, q)
      /\ SendToNetwork(AfterIssue(held, Self, c, n), c, n)

(* Smart token to reserve: the retirement precedes the payment.            *)
ConvertToReserve(c, t, q) ==
  LET n    == SaleReturn(reserve_balances[c][t], q, ledger.supply[c],
                         reserve_weights[c][t], converters[c].fee)
      held == Received(settings.network, c, q)
  IN  /\ ConvertFrame(c, c, q)
      /\ Distinct(t, c)
      /\ SaleFee(reserve_balances[c][t], q, ledger.supply[c],
                 reserve_weights[c][t], converters[c].fee) <= MaxFixed
      /\ CanModReserve(c, t, -n)
      /\ CanRetire(held, c, q)
      /\ reserve_balances' = ModReserve(reserve_balances, c, t, -n)
      /\ SendToNetwork(AfterRetire(held, c, q), t, n)

(* Reserve to reserve: with equal weights by quick_convert, which does not *)
(* look at the supply nor mind an empty first reserve.                     *)
ConvertAcross(c, t, r, q) ==
  LET v    == reserve_weights[c][t]
      w    == reserve_weights[c][r]
      n    == CrossReturn(reserve_balances[c][t], v, q,
                          reserve_balances[c][r], w, converters[c].fee)
  IN  /\ ConvertFrame(c, t, q)
      /\ Distinct(t, r) /\ Distinct(t, c) /\ Distinct(r, c)
      /\ CrossFee(reserve_balances[c][t], v, q,
                  reserve_balances[c][r], w, converters[c].fee) <= MaxFixed
      /\ v # w => reserve_balances[c][t] > 0 /\ ledger.supply[c] > 0
      /\ CanModReserve(c, t, q)
      /\ CanModReserve(c, r, -n)
      /\ reserve_balances' =
           ModReserve(ModReserve(reserve_balances, c, t, q), c, r, -n)
      /\ SendToNetwork(Received(settings.network, t, q), r, n)

----------------------------------------------------------------------------
(* Mutant: a transfer with an unknown memo is accepted in silence.         *)
TransferUnnoticed(auth, to, t, q) ==
  /\ auth # Self
  /\ CanTransfer(ledger, auth, to, t, q)
  /\ ledger' = AfterTransfer(ledger, auth, to, t, q)
  /\ signer' = auth
  /\ UNCHANGED <<settings, converters, reserve_weights, reserve_balances, accounts>>

(* Transfers the contract is not told of, or ignores: between others, and  *)
(* to it from the accounts of the system contracts.                        *)
Transfer(auth, to, t, q) ==
  /\ auth # Self
  /\ to = Self => auth \in SystemAccount
  /\ CanTransfer(ledger, auth, to, t, q)
  /\ ledger' = AfterTransfer(ledger, auth, to, t, q)
  /\ signer' = auth
  /\ UNCHANGED <<settings, converters, reserve_weights, reserve_balances, accounts>>

Administer(auth) ==
  \/ \E p \in Params : SetSettings(auth, p)
  \/ \E c \in Smart :
       \/ \E q \in Quantity : Create(auth, c, q)
       \/ \E a \in NewOwner : UpdateOwner(auth, c, a)
       \/ \E f \in Fee : UpdateFee(auth, c, f)
       \/ \E on \in BOOLEAN : Activate(auth, c, on)
       \/ DelConverter(auth, c)
       \/ \E t \in ReserveToken \ {c}, w \in Weight : SetReserve(auth, c, t, w)
       \/ \E t \in ReserveToken : DelReserve(auth, c, t)

Provide(auth) ==
  \E c \in Smart, q \in Quantity :
    \/ Fund(auth, c, q)
    \/ Liquidate(auth, c, q)
    \/ \E t \in ReserveToken :
         \/ Deposit(auth, c, t, q)
         \/ Withdraw(auth, c, t, q)

Trade ==
  \E c \in Smart, t \in ReserveToken, q \in Quantity :
    \/ ConvertToSmart(c, t, q)
    \/ ConvertToReserve(c, t, q)
    \/ \E r \in ReserveToken : ConvertAcross(c, t, r, q)

Next ==
  \/ \E auth \in Account :
       \/ Administer(auth)
       \/ Provide(auth)
       \/ \E to \in Payee, t \in Symbol, q \in Quantity :
            Transfer(auth, to, t, q)
  \/ Trade

Spec == Init /\ [][Next]_vars
----------------------------------------------------------------------------
(* The type of the tables: what exists is counted by natural numbers, and  *)
(* only a reserve has a balance.                                           *)
TypeOK ==
  /\ settings \in [max_fee : 0..MAX_FEE, network : Account \cup {NoAccount},
                   staking : Account \cup {NoAccount}]
  /\ converters \in [Smart -> [owner : Account \cup {NoAccount},
                               fee : 0..MAX_FEE, stake : BOOLEAN]]
  /\ reserve_weights \in [Smart -> [ReserveToken -> 0..PPM_RESOLUTION]]
  /\ reserve_balances \in [Smart -> [ReserveToken -> 0..MaxAmount]]
  /\ accounts \in [Smart -> [Account -> [Code -> 0..MaxAmount]]]
  /\ ledger \in Ledger
  /\ signer \in Account \cup {NoAccount}

(* What the contract owes in a token: the reserves of all its converters   *)
(* and the deposits, which are booked by symbol code.                      *)
Booked(t) ==
  LET reserve == [c \in Smart |-> reserve_balances[c][t]]
      deposit == [p \in Smart \X Account |-> accounts[p[1]][p[2]][CodeOf[t]]]
  IN  SumFunctionOnSet(reserve, Smart)
        + SumFunctionOnSet(deposit, Smart \X Account)

Surplus(t) == ledger.balance[t][Self] - Booked(t)

(* The converters share one account: the tokens it holds cover everything  *)
(* all of them have booked, so that no withdrawal, sale or liquidation can *)
(* be paid with the reserves of another converter.                         *)
Solvent == \A t \in ReserveToken : Surplus(t) >= 0

(* The books follow the coins exactly.  Tokens nobody is credited for come *)
(* only from the accounts on_transfer ignores, or from a deleted reserve.  *)
BooksFollowCoins ==
  [][\A t \in ReserveToken :
       Surplus(t)' # Surplus(t) =>
         /\ Surplus(t)' > Surplus(t)
         /\ \/ signer' \in SystemAccount
            \/ \E c \in Smart : t \in Reserves(c) \ Reserves(c)']_vars

(* The reserves of a converter per smart token, as the weighted product    *)
(* (reserve^weight)... / supply^PPM, without the division.                 *)
Product(c) ==
  ProductOnSet(
    [t \in Reserves(c) |-> Power(reserve_balances[c][t], reserve_weights[c][t])],
    Reserves(c))

(* Whatever is bought, sold, exchanged, funded or liquidated, in whatever  *)
(* order, the value behind one smart token never falls: every truncation   *)
(* and the fee stay in the reserves.  A converter without reserves, and a  *)
(* change of the weights, are outside it.                                  *)
PoolValueNeverFalls ==
  [][\A c \in Smart :
       (IsConverter(c) /\ Reserves(c) # {}
          /\ reserve_weights'[c] = reserve_weights[c])
       => Product(c)' * Power(ledger.supply[c], PPM_RESOLUTION)
            >= Product(c) * Power(ledger'.supply[c], PPM_RESOLUTION)]_vars

(* No trade empties a reserve: an active converter becomes inactive, and   *)
(* its deposits out of reach, only when its owner adds a reserve or the    *)
(* last smart token is sold or liquidated.                                 *)
ActivationIsStable ==
  [][\A c \in Smart :
       (IsConverter(c) /\ Active(c) /\ ~ Active(c)') =>
         \/ Reserves(c) # Reserves(c)' /\ signer' = converters[c].owner
         \/ ledger.supply[c] > 0 /\ ledger'.supply[c] = 0]_vars

(* A deposit shrinks only in a transaction its holder signed, and what it  *)
(* loses goes to the holder's wallet or into the reserves.                 *)
DepositorControls ==
  [][\A c \in Smart, a \in Account, t \in ReserveToken :
       accounts'[c][a][CodeOf[t]] < accounts[c][a][CodeOf[t]] =>
         /\ signer' = a
         /\ \/ ledger'.balance[t][a] > ledger.balance[t][a]
            \/ reserve_balances'[c][t] > reserve_balances[c][t]]_vars

(* The fee belongs to the owner, but while the feature "stake" is on to    *)
(* the staking contract: only it changes the fee then, the owner gets the  *)
(* fee back only by switching the feature off, and no later setsettings    *)
(* replaces the contract under the converters that rely on it.  The        *)
(* documentation knows nothing of this: see OwnerControlsFee.              *)
FeeAuthority ==
  [][\A c \in Smart : IsConverter(c) =>
       /\ converters[c].stake =>
            settings.staking # NoAccount /\ settings'.staking = settings.staking
       /\ converters'[c].fee # converters[c].fee /\ IsConverter(c)' =>
            signer' = IF converters[c].stake THEN settings.staking
                      ELSE converters[c].owner]_vars

----------------------------------------------------------------------------
(* What the documentation and the tests say and the code does not do.      *)

(* "Deletes an empty reserve in the converter", which "can only be called  *)
(* by the converter owner": not even the weaker claim holds, that somebody *)
(* else deletes empty reserves only.  delreserve requires no authority and *)
(* asks for some empty reserve, not for the one it deletes to be empty.    *)
OthersDeleteEmptyReserves ==
  [][\A c \in Smart : \A t \in Reserves(c) \ Reserves(c)' :
       reserve_balances[c][t] = 0 \/ signer' = converters[c].owner]_vars

(* "Can only be called by the converter owner after creation", also said   *)
(* of updatefee: the owner of a converter that is staked may not call it,  *)
(* the staking contract sets the fee.                                      *)
OwnerControlsFee ==
  [][\A c \in Smart :
       IsConverter(c) /\ IsConverter(c)' /\ converters'[c].fee # converters[c].fee
         => signer' = converters[c].owner]_vars

(* The reserves of all converters are there in full.  Deposits are keyed   *)
(* by symbol code: once a reserve is replaced by one of the same code from *)
(* another contract, what was deposited in the old token is paid out in    *)
(* the new one.                                                            *)
ReservesAreBacked ==
  \A t \in ReserveToken :
    LET reserve == [c \in Smart |-> reserve_balances[c][t]]
    IN  ledger.balance[t][Self] >= SumFunctionOnSet(reserve, Smart)
=============================================================================
