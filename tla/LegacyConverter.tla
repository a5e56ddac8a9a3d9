-------------------------- MODULE LegacyConverter --------------------------
(***************************************************************************)
(* The legacy BancorConverter contract: one account per converter, with a  *)
(* smart token and weighted reserves.  It books no balances: what its      *)
(* account holds of a token is its reserve, what the token contract says   *)
(* is the supply.  One function by account holds the tables of all         *)
(* deployments.  A reaction to a transfer is described by the conditions   *)
(* under which it does not fail, on the ledger L the transfer has left,    *)
(* and by the inline actions it sends; Conversions executes them.          *)
(*                                                                         *)
(* The column require_balance, which no code reads, is left out, and so    *)
(* are the events.  The amount of a reserve's currency is always 0.        *)
(***************************************************************************)
EXTENDS Chain, BancorFormula

CONSTANTS
  Converter    \* the accounts the contract is deployed to

ASSUME LegacyAssumption == Converter \subseteq Account \ SystemAccount

VARIABLES
  settings,   \* by converter; network = NoAccount where there is no row
  reserves    \* by converter and token; ratio = 0 where there is no row

legacyVars == <<settings, reserves>>

(* smart_contract and smart_currency are the token smart, whose amount is  *)
(* virtual; max_fee is fixed by init.                                      *)
Settings ==
  [smart : Symbol, virtual : Nat, smart_enabled : BOOLEAN, enabled : BOOLEAN,
   network : Account \cup {NoAccount}, max_fee : 0..MAX_FEE, fee : 0..MAX_FEE]

ReserveRows == [ratio : 0..PPM_RESOLUTION, sale_enabled : BOOLEAN]

NoReserve == [ratio |-> 0, sale_enabled |-> FALSE]

HasSettings(c) == settings[c].network # NoAccount
RatioSum(rows) == SumFunctionOnSet([t \in Symbol |-> rows[t].ratio], Symbol)
Reserves(c)    == {t \in Symbol : reserves[c][t].ratio > 0}

----------------------------------------------------------------------------
(* The actions, all of which require the authority of the account itself.  *)

(* init: may be called once.                                               *)
InitSettings(c, row) ==
  /\ row.fee <= row.max_fee
  /\ ~ HasSettings(c)
  /\ settings' = [settings EXCEPT ![c] = row]
  /\ UNCHANGED reserves

(* Mutant: the maximum is not looked at.                                   *)
UpdateUnchecked(c, smart_enabled, enabled, fee) ==
  /\ HasSettings(c)
  /\ settings' = [settings EXCEPT ![c].smart_enabled = smart_enabled,
                                  ![c].enabled = enabled, ![c].fee = fee]
  /\ UNCHANGED reserves

Update(c, smart_enabled, enabled, fee) ==
  /\ HasSettings(c)
  /\ fee <= settings[c].max_fee
  /\ settings' = [settings EXCEPT ![c].smart_enabled = smart_enabled,
                                  ![c].enabled = enabled, ![c].fee = fee]
  /\ UNCHANGED reserves

(* Creates or changes a reserve; the sum is taken over what it leaves.  It *)
(* then reads the supply of the smart token for an event.                  *)
SetReserve(L, c, t, ratio, sale_enabled) ==
  /\ ratio \in 1..PPM_RESOLUTION
  /\ \A r \in Reserves(c) : CodeOf[r] = CodeOf[t] => r = t
  /\ reserves' = [reserves EXCEPT ![c][t] =
                    [ratio |-> ratio, sale_enabled |-> sale_enabled]]
  /\ RatioSum(reserves'[c]) <= PPM_RESOLUTION
  /\ HasSettings(c)
  /\ Exists(L, settings[c].smart)
  /\ UNCHANGED settings

(* The account must have a row for the token, with nothing in it.          *)
DelReserve(L, c, t) ==
  /\ t \in Reserves(c)
  /\ c \in L.rows[t]
  /\ L.balance[t][c] = 0
  /\ reserves' = [reserves EXCEPT ![c][t] = NoReserve]
  /\ UNCHANGED settings

----------------------------------------------------------------------------
(* get_reserve: the token a symbol code means to a converter, the smart    *)
(* token before any reserve.                                               *)
IsSmart(c, code)  == code = CodeOf[settings[c].smart]
HasToken(c, code) == IsSmart(c, code) \/ \E t \in Reserves(c) : CodeOf[t] = code

TokenOf(c, code) ==
  IF IsSmart(c, code) THEN settings[c].smart
  ELSE CHOOSE t \in Reserves(c) : CodeOf[t] = code

(* Mutant: the smart token can always be bought.                           *)
SaleEnabledOfReserves(c, t) ==
  t = settings[c].smart \/ reserves[c][t].sale_enabled

SaleEnabled(c, t) ==
  IF t = settings[c].smart THEN settings[c].smart_enabled
  ELSE reserves[c][t].sale_enabled

Supply(L, c) == L.supply[settings[c].smart] + settings[c].virtual

(* Mutant: the supply is read as if the retirement had been executed.      *)
ReturnAfterRetirement(L, c, t, u, q) ==
  LET smart   == settings[c].smart
      fee     == settings[c].fee
      balance == L.balance[t][c] - q
  IN  CASE t = smart -> SaleReturn(L.balance[u][c], q, Supply(L, c) - q,
                                   reserves[c][u].ratio, fee)
        [] u = smart -> PurchaseReturn(balance, q, Supply(L, c),
                                       reserves[c][t].ratio, fee)
        [] OTHER     -> CrossReturn(balance, reserves[c][t].ratio, q,
                                    L.balance[u][c], reserves[c][u].ratio, fee)

(* What converting q of t, which the account has received, to u returns.   *)
(* The retirement of smart tokens received is still to come.               *)
Return(L, c, t, u, q) ==
  LET smart   == settings[c].smart
      fee     == settings[c].fee
      balance == L.balance[t][c] - q
  IN  CASE t = smart -> SaleReturn(L.balance[u][c], q, Supply(L, c),
                                   reserves[c][u].ratio, fee)
        [] u = smart -> PurchaseReturn(balance, q, Supply(L, c),
                                       reserves[c][t].ratio, fee)
        [] OTHER     -> CrossReturn(balance, reserves[c][t].ratio, q,
                                    L.balance[u][c], reserves[c][u].ratio, fee)

(* The fee of that conversion, which goes through to_fixed as well.        *)
FeeOf(L, c, t, u, q) ==
  LET smart   == settings[c].smart
      fee     == settings[c].fee
      balance == L.balance[t][c] - q
  IN  CASE t = smart -> SaleFee(L.balance[u][c], q, Supply(L, c),
                                reserves[c][u].ratio, fee)
        [] u = smart -> PurchaseFee(balance, q, Supply(L, c),
                                    reserves[c][t].ratio, fee)
        [] OTHER     -> CrossFee(balance, reserves[c][t].ratio, q,
                                 L.balance[u][c], reserves[c][u].ratio, fee)

(* calculate_purchase_return and the sale after it, where quick_convert    *)
(* does not apply, divide by the balance and by the supply.                *)
Dividable(L, c, t, u, q) ==
  (settings[c].smart \notin {t, u} /\ reserves[c][t].ratio # reserves[c][u].ratio)
    => L.balance[t][c] - q > 0 /\ Supply(L, c) > 0

CanConvert(L, c, from, t, q, text) ==
  LET memo == parse_memo(text)
      u    == TokenOf(c, memo.path[2])
  IN  /\ ValidMemo(text)
      /\ Len(memo.path) > 1
      /\ HasSettings(c)
      /\ settings[c].enabled
      /\ settings[c].network = from
      /\ memo.path[1] = [account |-> c, sym |-> Empty]
      /\ CodeOf[t] # memo.path[2]
      /\ HasToken(c, CodeOf[t]) /\ HasToken(c, memo.path[2])
      /\ SaleEnabled(c, u)
      /\ t = TokenOf(c, CodeOf[t])
      /\ c \in L.rows[u]
      /\ Exists(L, settings[c].smart)
      /\ Dividable(L, c, t, u, q)
      /\ u = settings[c].smart => Len(memo.path) = 2
      /\ FeeOf(L, c, t, u, q) <= MaxFixed
      /\ Return(L, c, t, u, q) \in 1..MaxFixed

Converted(L, c, t, q, text) ==
  LET memo  == parse_memo(text)
      u     == TokenOf(c, memo.path[2])
      n     == Return(L, c, t, u, q)
      smart == settings[c].smart
      rest  == build_memo([memo EXCEPT !.path = SubSeq(@, 3, Len(@))])
  IN  (IF t = smart THEN <<retire(c, t, q)>> ELSE <<>>)
        \o (IF u = smart THEN <<issue(c, u, n)>> ELSE <<>>)
        \o <<transfer(c, settings[c].network, u, n, rest)>>

(* on_transfer.  The memo "setup" leaves the tokens in the reserve; it is  *)
(* not asked which contract they come from.                                *)
ConverterAccepts(L, c, from, t, q, text) ==
  \/ from \in SystemAccount
  \/ /\ from \notin SystemAccount
     /\ text = Plain("setup")
     /\ HasSettings(c)
     /\ HasToken(c, CodeOf[t])
     /\ Exists(L, settings[c].smart)
  \/ /\ from \notin SystemAccount
     /\ text # Plain("setup")
     /\ CanConvert(L, c, from, t, q, text)

ConverterSends(L, c, from, t, q, text) ==
  IF from \in SystemAccount \/ text = Plain("setup") THEN <<>>
  ELSE Converted(L, c, t, q, text)
=============================================================================
