---------------------------- MODULE Conversions ----------------------------
(***************************************************************************)
(* Conversions over several hops: BancorNetwork and the legacy converters  *)
(* at work in one transaction.  A transfer notifies its receiver, whose    *)
(* reaction sends inline actions; they execute in the order sent, each     *)
(* with all it sends itself before the next.  "pending" is the stack of    *)
(* what is still to execute, and a step executes its head.  If an action   *)
(* or a reaction to it fails, the transaction is undone.                   *)
(*                                                                         *)
(* The actions of administrators are transactions of their own.  Accounts  *)
(* other than the contracts have no code.                                  *)
(***************************************************************************)
EXTENDS BancorNetwork, LegacyConverter

CONSTANTS
  InitialSettings, InitialReserves, InitialNetwork, InitialLedger,
  Rows, Ratio, Fee, MaxFees, NetTokens,    \* the arguments of administrators
  Text, Quantity,        \* and of transfers: texts by sender and receiver
  MaxTurns                                 \* how many transactions there are

ASSUME ConversionsAssumption ==
  /\ Network \notin Converter
  /\ IsFiniteSet(Symbol)
  /\ Rows \subseteq Settings
  /\ Fee \cup MaxFees \subseteq Nat
  /\ Quantity \subseteq Nat \ {0}
  /\ NetTokens \subseteq Account
  /\ \A from, to \in Account : \A text \in Text[from][to] : WellFormed(text)

(* The tables the administrators have set up before.                       *)
ASSUME InitialAssumption ==
  /\ InitialSettings \in [Converter -> Settings]
  /\ InitialReserves \in [Converter -> [Symbol -> ReserveRows]]
  /\ InitialNetwork \in NetworkSettings
  /\ \A c \in Converter :
       /\ InitialSettings[c].fee <= InitialSettings[c].max_fee
       /\ RatioSum(InitialReserves[c]) <= PPM_RESOLUTION
  /\ LedgerOK(InitialLedger)

VARIABLES
  ledger,    \* the tables of the token contracts
  pending,   \* the actions of the transaction under way, the next one first
  start,     \* the ledger at its start; the ledger itself between two
  order,     \* <<the transfer it began with and what that is promised>>
  tips,      \* what it has paid to affiliates so far
  turns      \* counts the transactions, up to MaxTurns

transactionVars == <<ledger, pending, start, order, tips>>
vars == <<settings, reserves, network_settings, transactionVars, turns>>

Init ==
  /\ settings = InitialSettings
  /\ reserves = InitialReserves
  /\ network_settings = InitialNetwork
  /\ ledger = InitialLedger
  /\ start = InitialLedger
  /\ pending = <<>>
  /\ order = <<>>
  /\ tips = <<>>
  /\ turns = 0

----------------------------------------------------------------------------
(* Executing one action.                                                   *)

CanExecute(a) ==
  CASE a.action = "transfer" ->
         CanTransfer(ledger, a.from, a.to, a.token, a.quantity)
    [] a.action = "issue" ->
         CanIssue(ledger, a.to, a.token, a.quantity)
    [] a.action = "retire" ->
         /\ CanRetire(ledger, a.token, a.quantity)
         /\ a.from = ledger.issuer[a.token]

Executed(a) ==
  CASE a.action = "transfer" ->
         AfterTransfer(ledger, a.from, a.to, a.token, a.quantity)
    [] a.action = "issue"  -> AfterIssue(ledger, a.to, a.token, a.quantity)
    [] a.action = "retire" -> AfterRetire(ledger, a.token, a.quantity)

(* The receiver of a transfer is notified; the sender is too, but ignores  *)
(* its own transfers if it is one of the contracts.                        *)
Accepts(L, a) ==
  a.action = "transfer" =>
    /\ a.to = Network => NetworkAccepts(L, a.from, a.token, a.quantity, a.memo)
    /\ a.to \in Converter =>
         ConverterAccepts(L, a.to, a.from, a.token, a.quantity, a.memo)

Sends(L, a) ==
  CASE a.action = "transfer" /\ a.to = Network ->
         NetworkSends(L, a.from, a.token, a.quantity, a.memo)
    [] a.action = "transfer" /\ a.to \in Converter ->
         ConverterSends(L, a.to, a.from, a.token, a.quantity, a.memo)
    [] OTHER -> <<>>

Succeeds(a) == CanExecute(a) /\ Accepts(Executed(a), a)

(* What is recorded of a payment to an affiliate.                          *)
Tip(a) ==
  IF a.memo = Plain("affiliate pay")
  THEN <<[token |-> a.token, fee |-> a.quantity, net |-> pending[2].quantity]>>
  ELSE <<>>

----------------------------------------------------------------------------
(* What a transaction that begins with the transfer a promises its trader, *)
(* in the terms of Exchange (see KeepsPromise).                            *)
Holders == Account \ Converter

Elsewhere(path) ==
  {i \in DOMAIN path : i % 2 = 1 /\ path[i].account \notin Converter}

Terms(a) ==
  LET memo  == parse_memo(a.memo)
      stray == Elsewhere(memo.path)
      swaps == a.to = Network /\ a.from \notin SystemAccount /\ ValidMemo(a.memo)
      target == memo.path[Len(memo.path)]
  IN  [payer     |-> a.from,
       pays      |-> a.token,
       amount    |-> a.quantity,
       receiver  |-> IF ~ swaps THEN a.to
                     ELSE IF stray = {} THEN memo.dest_account
                     ELSE memo.path[Min(stray)].account,
       gets      |-> IF ~ swaps \/ memo.path = <<>> THEN {a.token}
                     ELSE IF stray = {} THEN {t \in Symbol : CodeOf[t] = target}
                     ELSE Symbol,
       least     |-> IF ~ swaps THEN a.quantity
                     ELSE IF stray = {} THEN Max({1, MinReturn(memo)})
                     ELSE 1,
       most      |-> IF swaps THEN MaxAmount ELSE a.quantity,
       affiliate |-> IF swaps THEN memo.affiliate_account ELSE Empty,
       feeKinds  |-> {t \in Symbol :
                        /\ CodeOf[t] = BNT
                        /\ ContractOf[t] = network_settings.network_token}]

(* A transaction begins with a transfer somebody signs, of what he has;    *)
(* nobody but the contract has the key of the network's account.           *)
Begin(from, to, t, q, text) ==
  /\ pending = <<>>
  /\ turns < MaxTurns
  /\ from # Network
  /\ CanTransfer(ledger, from, to, t, q)
  /\ LET a == transfer(from, to, t, q, text)
     IN  pending' = <<a>> /\ order' = <<[request |-> a, terms |-> Terms(a)]>>
  /\ turns' = turns + 1
  /\ UNCHANGED <<settings, reserves, network_settings, ledger, start, tips>>

Execute ==
  LET a     == Head(pending)
      after == Executed(a)
  IN  /\ pending # <<>>
      /\ Succeeds(a)
      /\ ledger' = after
      /\ pending' = Sends(after, a) \o Tail(pending)
      /\ IF pending' = <<>>
         THEN start' = after /\ order' = <<>> /\ tips' = <<>>
         ELSE UNCHANGED <<start, order>> /\ tips' = tips \o Tip(a)
      /\ UNCHANGED <<settings, reserves, network_settings, turns>>

Abort ==
  /\ pending # <<>>
  /\ ~ Succeeds(Head(pending))
  /\ ledger' = start
  /\ pending' = <<>>
  /\ order' = <<>>
  /\ tips' = <<>>
  /\ UNCHANGED <<settings, reserves, network_settings, start, turns>>

Administer ==
  /\ pending = <<>>
  /\ turns < MaxTurns
  /\ turns' = turns + 1
  /\ UNCHANGED transactionVars
  /\ \/ /\ UNCHANGED legacyVars
        /\ \/ \E f \in MaxFees : SetMaxFee(f)
           \/ \E a \in NetTokens : SetNetToken(a)
     \/ /\ UNCHANGED network_settings
        /\ \E c \in Converter :
             \/ \E row \in Rows : InitSettings(c, row)
             \/ \E smart, on \in BOOLEAN, f \in Fee : Update(c, smart, on, f)
             \/ \E t \in Symbol :
                  \/ \E r \in Ratio, on \in BOOLEAN :
                       SetReserve(ledger, c, t, r, on)
                  \/ DelReserve(ledger, c, t)

Next ==
  \/ Administer
  \/ \E from, to \in Account, t \in Symbol, q \in Quantity :
       \E text \in Text[from][to] : Begin(from, to, t, q, text)
  \/ Execute
  \/ Abort

Spec == Init /\ [][Next]_vars
----------------------------------------------------------------------------
(* The tables of the token contracts stay consistent at every step of a    *)
(* transaction, no fee exceeds the maximum it was set under, and what is   *)
(* pending is small: the fee and the transfer after it, or a retirement or *)
(* an issue and the transfer after it.                                     *)
TypeOK ==
  /\ settings \in [Converter -> Settings]
  /\ reserves \in [Converter -> [Symbol -> ReserveRows]]
  /\ network_settings \in NetworkSettings
  /\ \A c \in Converter : settings[c].fee <= settings[c].max_fee
  /\ \A c \in Converter : RatioSum(reserves[c]) <= PPM_RESOLUTION
  /\ LedgerOK(ledger)
  /\ pending = <<>> <=> order = <<>>
  /\ pending = <<>> => start = ledger /\ tips = <<>>
  /\ Len(pending) <= 2

(* Every transaction that begins with a transfer of the trader is, to      *)
(* whoever is not a converter, one atomic step: all its hops happen or     *)
(* none does.  Who pays pays what he offered, the receiver he named gets   *)
(* at least his minimum of the last token of the path, his affiliate a     *)
(* share of what is called BNT, and nobody else's tokens move, the         *)
(* network's included.                                                     *)
(*                                                                         *)
(* Two things it does not promise.  If an account on the path is not a     *)
(* converter, that account gets what the hops before it have returned, no  *)
(* minimum asked.  And the minimum is the number stof makes of the text.   *)
Promise ==
  INSTANCE Exchange WITH
    Holder <- Holders, Kind <- Symbol, Amount <- 0..MaxAmount,
    held   <- start.balance,
    order  <- [i \in DOMAIN order |-> order[i].terms]

KeepsPromise == Promise!Spec

(* A step that ends a transaction begun with a transfer.                   *)
Ends == order # <<>> /\ order' = <<>>

(* Nothing stays with the network, whatever it converts, except what the   *)
(* system accounts send it, which it ignores.                              *)
NetworkKeepsNothing ==
  [][Ends => \A t \in Symbol :
       start'.balance[t][Network] # start.balance[t][Network] =>
         order[1].request.from \in SystemAccount]_vars

(* What the trader asked for is in the memo after every hop, although each *)
(* one takes it apart and builds it anew: the minimum, the receiver and    *)
(* the receiver's memo, the trader, what is left of the path; and the      *)
(* affiliate, until it has been paid.  An empty memo becomes "convert".    *)
TermsSurvive ==
  \A i \in DOMAIN pending :
    (pending[i].to = Network /\ pending[i].from \in Converter
       /\ pending[i] # order[1].request) =>
      LET memo  == parse_memo(pending[i].memo)
          asked == parse_memo(order[1].request.memo)
          hops  == Len(asked.path) - Len(memo.path)
      IN  /\ memo.min_return = asked.min_return
          /\ memo.dest_account = asked.dest_account
          /\ memo.receiver_memo = IF asked.receiver_memo = Empty
                                  THEN "convert" ELSE asked.receiver_memo
          /\ memo.trader_account = IF asked.trader_account = Empty
                                   THEN order[1].request.from ELSE asked.trader_account
          /\ memo.path = SubSeq(asked.path, hops + 1, Len(asked.path))
          /\ IF tips = <<>> /\ asked.affiliate_account # Empty
             THEN /\ memo.affiliate_account = asked.affiliate_account
                  /\ memo.affiliate_fee = asked.affiliate_fee
             ELSE memo.affiliate_account = Empty

(* However often a path comes through BNT, the affiliate is paid once, in  *)
(* the network's token, and less than the maximum share.                   *)
AffiliatePaidOnce ==
  /\ Len(tips) <= 1
  /\ \A i \in DOMAIN tips :
       /\ ContractOf[tips[i].token] = network_settings.network_token
       /\ tips[i].fee * MAX_FEE
            < network_settings.max_fee * (tips[i].fee + tips[i].net)

(* The reserves of a converter per smart token, counting the virtual ones, *)
(* as a weighted product without the division.                             *)
Product(L, c) ==
  ProductOnSet([t \in Reserves(c) |-> Power(L.balance[t][c], reserves[c][t].ratio)],
               Reserves(c))

(* No transaction, of however many hops through however many converters,   *)
(* lowers the value behind the smart tokens of any of them; only the       *)
(* account of the converter itself can, with a transfer it signs.          *)
PoolValueNeverFalls ==
  [][Ends => \A c \in Converter :
       (HasSettings(c) /\ order[1].request.from # c) =>
         Product(start', c) * Power(Supply(start, c), PPM_RESOLUTION)
           >= Product(start, c) * Power(Supply(start', c), PPM_RESOLUTION)]_vars

(* A converter whose conversions are disabled loses and issues nothing but *)
(* by its own signature, and a token whose sale is disabled leaves it      *)
(* neither directly nor as an intermediate hop.                            *)
SwitchesHold ==
  [][Ends => \A c \in Converter, t \in Symbol :
       LET smart == HasSettings(c) /\ t = settings[c].smart
       IN  (order[1].request.from # c
              /\ \/ start'.balance[t][c] < start.balance[t][c]
                 \/ /\ smart /\ start.issuer[t] = c
                    /\ start'.supply[t] > start.supply[t])
           => /\ settings[c].enabled
              /\ IF smart THEN settings[c].smart_enabled
                 ELSE reserves[c][t].sale_enabled]_vars
=============================================================================
