------------------------------ MODULE BancorX ------------------------------
(***************************************************************************)
(* The BancorX contract: reporters vouch for transfers made to EOS on      *)
(* another chain, and once enough of them have reported the same data the  *)
(* tokens are issued; tokens sent to the contract are retired for the      *)
(* other chain.  Both directions are metered by a limit that time refills. *)
(* A step is one transaction with its inline actions, or a tick of the     *)
(* clock of the chain (in seconds).  transferbyid of the Token contract,   *)
(* which reads and clears the table "amounts", is an action of this module.*)
(*                                                                         *)
(* The blockchain, memo and data of a report are one value, detail.  The   *)
(* token has a single symbol.  The receivers of tokens are accounts        *)
(* without code of their own.                                              *)
(***************************************************************************)
EXTENDS TokenLedger

CONSTANTS
  Self,           \* the account of the contract, issuer of the token
  x_token_name,   \* the account of the token contract
  XToken,         \* the symbol of the token
  SystemAccount,  \* eosio.ram, eosio.stake, eosio.rex
  InitialBalance, \* who holds what of the token
  Reporter,       \* the names that may be reporters or try to report
  TxId,           \* transactions of the other chain
  NoTransferId,   \* x_transfer_id 0: the transfer has none
  Reports,        \* what may be reported of each transaction
  Params,         \* the limits the administrator may set
  Switch,         \* the values enablerpt and enablext are called with
  Removable,      \* the reporters the administrator may remove
  Quantity,       \* the amounts users transfer
  Word,           \* 2^64, the modulus of the unsigned arithmetic
  MaxTime         \* bound: the last instant of the clock

Report == [x_transfer_id : Int, target : Account \cup {NoAccount},
           quantity : Int, detail : Int]

(* The numbers of the settings are uint64_t.                               *)
Limits == [min_reporters : 0..(Word - 1), min_limit : 0..(Word - 1),
           limit_inc : 0..(Word - 1), max_issue_limit : 0..(Word - 1),
           max_destroy_limit : 0..(Word - 1)]

ASSUME BancorXAssumption ==
  /\ Self \in Account
  /\ x_token_name \in Account
  /\ XToken \in Symbol
  /\ SystemAccount \subseteq Account \ {Self}
  /\ InitialBalance \in [Account -> Nat]
  /\ SumFunctionOnSet(InitialBalance, Account) \in 0..MaxAmount
  /\ IsFiniteSet(Reporter) /\ IsFiniteSet(TxId)
  /\ Reports \in [TxId -> SUBSET Report]
  /\ Params \subseteq Limits
  /\ Switch \subseteq BOOLEAN
  /\ Quantity \subseteq Int
  /\ Word \in Nat /\ Word > 2 * MaxAmount
  /\ MaxTime \in Nat

VARIABLES
  settings,       \* the singleton; min_reporters = 0 before init
  transfers,      \* the rows, by tx_id: [report, reporters]
  amounts,        \* the rows, by x_transfer_id: [target, quantity]
  reporters,
  ledger,         \* the tables of the token contract
  now,            \* current_time_point().sec_since_epoch()
  signer,         \* who authorised the last transaction
  \* what happened, for the properties; no counterpart in the code:
  issued,         \* how many times each transaction has been paid out
  votes,          \* the reports accepted, by round (the value of issued)
  charged         \* what the limits were charged, by instant

tables == <<settings, transfers, amounts, reporters, ledger>>
vars   == <<settings, transfers, amounts, reporters, ledger, now, signer,
            issued, votes, charged>>

Meters == {"issue", "destroy"}

InitialLedger ==
  [issuer     |-> [s \in Symbol |-> IF s = XToken THEN Self ELSE NoAccount],
   max_supply |-> [s \in Symbol |-> IF s = XToken THEN MaxAmount ELSE 0],
   supply     |-> [s \in Symbol |-> IF s = XToken
                     THEN SumFunctionOnSet(InitialBalance, Account) ELSE 0],
   rows       |-> [s \in Symbol |-> IF s = XToken THEN Account ELSE {}],
   balance    |-> [s \in Symbol |-> [a \in Account |->
                     IF s = XToken THEN InitialBalance[a] ELSE 0]]]

Init ==
  /\ settings = [rpt_enabled |-> FALSE, xt_enabled |-> FALSE,
                 min_reporters |-> 0, min_limit |-> 0, limit_inc |-> 0,
                 max_issue_limit |-> 0, max_destroy_limit |-> 0,
                 prev_issue_limit |-> 0, prev_issue_time |-> 0,
                 prev_destroy_limit |-> 0, prev_destroy_time |-> 0]
  /\ transfers = << >>
  /\ amounts = << >>
  /\ reporters = {}
  /\ ledger = InitialLedger
  /\ now = 0
  /\ signer = NoAccount
  /\ issued = [tx \in TxId |-> 0]
  /\ votes = {}
  /\ charged = [m \in Meters |-> [t \in 0..MaxTime |-> 0]]

----------------------------------------------------------------------------
(* Administration, signed by the contract itself.                          *)

(* Rows of a table: emplace or modify, and erase.                          *)
Put(f, k, row) == [x \in DOMAIN f \cup {k} |-> IF x = k THEN row ELSE f[x]]

(* Mutant: the row is not erased.                                          *)
DropNothing(f, k) == f

Drop(f, k) == Restrict(f, DOMAIN f \ {k})

IsSet == settings.min_reporters > 0

ValidLimits(p) ==
  /\ p.min_reporters > 0
  /\ p.min_limit <= p.max_issue_limit
  /\ p.min_limit <= p.max_destroy_limit
  /\ p.limit_inc > 0

Administered ==
  /\ signer' = Self
  /\ UNCHANGED <<transfers, amounts, ledger, now, issued, votes, charged>>

InitSettings(p) ==
  /\ ~ IsSet
  /\ ValidLimits(p)
  /\ settings' = [rpt_enabled |-> FALSE, xt_enabled |-> FALSE,
                  min_reporters |-> p.min_reporters, min_limit |-> p.min_limit,
                  limit_inc |-> p.limit_inc,
                  max_issue_limit |-> p.max_issue_limit,
                  max_destroy_limit |-> p.max_destroy_limit,
                  prev_issue_limit |-> p.max_issue_limit,
                  prev_issue_time |-> now,
                  prev_destroy_limit |-> p.max_destroy_limit,
                  prev_destroy_time |-> now]
  /\ Administered
  /\ UNCHANGED reporters

(* What has been used up, and when, is kept: the new increment applies to  *)
(* the time that has already passed.                                       *)
Update(p) ==
  /\ IsSet
  /\ ValidLimits(p)
  /\ settings' = [f \in DOMAIN settings |->
                    IF f \in DOMAIN p THEN p[f] ELSE settings[f]]
  /\ Administered
  /\ UNCHANGED reporters

EnableRpt(enable) ==
  /\ IsSet
  /\ settings' = [settings EXCEPT !.rpt_enabled = enable]
  /\ Administered
  /\ UNCHANGED reporters

EnableXt(enable) ==
  /\ IsSet
  /\ settings' = [settings EXCEPT !.xt_enabled = enable]
  /\ Administered
  /\ UNCHANGED reporters

AddReporter(r) ==
  /\ r \notin reporters
  /\ reporters' = reporters \cup {r}
  /\ Administered
  /\ UNCHANGED settings

RmReporter(r) ==
  /\ r \in reporters
  /\ reporters' = reporters \ {r}
  /\ Administered
  /\ UNCHANGED settings

----------------------------------------------------------------------------
(* The limits: uint64_t arithmetic, in which a negative amount is huge.    *)

Unsigned(q) == q % Word

(* Mutant: what regrows is not capped.                                     *)
CurrentLimitUncapped(prev_limit, prev_time, max_limit) ==
  (prev_limit + settings.limit_inc * (now - prev_time)) % Word

CurrentLimit(prev_limit, prev_time, max_limit) ==
  LET delta   == IF now > prev_time THEN now - prev_time ELSE 0
      regrown == (prev_limit + settings.limit_inc * delta) % Word
  IN  IF regrown < max_limit THEN regrown ELSE max_limit

IssueLimit ==
  CurrentLimit(settings.prev_issue_limit, settings.prev_issue_time,
               settings.max_issue_limit)

DestroyLimit ==
  CurrentLimit(settings.prev_destroy_limit, settings.prev_destroy_time,
               settings.max_destroy_limit)

Charge(meter, q) ==
  charged' = [charged EXCEPT ![meter][now] = @ + Unsigned(q)]

----------------------------------------------------------------------------
(* reporttx.                                                               *)

(* Mutant: the limit is charged without being checked.                     *)
FirstReportUnchecked(tx, rep) ==
  /\ tx \notin DOMAIN transfers
  /\ settings' = [settings EXCEPT
                    !.prev_issue_limit = IssueLimit - Unsigned(rep.quantity),
                    !.prev_issue_time  = now]
  /\ Charge("issue", rep.quantity)

(* The first report of a transaction charges the limit.                    *)
FirstReport(tx, rep) ==
  /\ tx \notin DOMAIN transfers
  /\ Unsigned(rep.quantity) <= IssueLimit
  /\ settings' = [settings EXCEPT
                    !.prev_issue_limit = IssueLimit - Unsigned(rep.quantity),
                    !.prev_issue_time  = now]
  /\ Charge("issue", rep.quantity)

(* Mutant: what the later reporters say is not compared.                   *)
LaterReportUncompared(r, tx, rep) ==
  /\ tx \in DOMAIN transfers
  /\ r \notin transfers[tx].reporters
  /\ UNCHANGED <<settings, charged>>

LaterReport(r, tx, rep) ==
  /\ tx \in DOMAIN transfers
  /\ r \notin transfers[tx].reporters
  /\ transfers[tx].report = rep
  /\ UNCHANGED <<settings, charged>>

(* Mutant: the reporter replaces the earlier ones.                         *)
ReportedLast(r, tx) == {r}

Reported(r, tx) ==
  {r} \cup (IF tx \in DOMAIN transfers THEN transfers[tx].reporters ELSE {})

(* Not enough reports yet: the row waits for the next one.                 *)
AwaitReports(r, tx, rep) ==
  /\ Cardinality(Reported(r, tx)) < settings.min_reporters
  /\ transfers' = Put(transfers, tx,
                      [report |-> rep, reporters |-> Reported(r, tx)])
  /\ UNCHANGED <<amounts, ledger, issued>>

(* Mutant: an existing row is overwritten.                                 *)
RecordAmountAgain(rep) ==
  amounts' = Put(amounts, rep.x_transfer_id,
                 [target |-> rep.target, quantity |-> rep.quantity])

(* A transfer with an x_transfer_id leaves a row for transferbyid.         *)
RecordAmount(rep) ==
  LET id == rep.x_transfer_id
  IN  \/ id = NoTransferId /\ UNCHANGED amounts
      \/ /\ id # NoTransferId
         /\ id \notin DOMAIN amounts
         /\ amounts' = Put(amounts, id,
                           [target |-> rep.target, quantity |-> rep.quantity])

(* Enough: issue, pay, erase the row and remember the x_transfer_id.  The  *)
(* report fails, and with it the step, when the target is no account.      *)
PayOut(r, tx, rep) ==
  LET minted == AfterIssue(ledger, Self, XToken, rep.quantity)
  IN  /\ Cardinality(Reported(r, tx)) >= settings.min_reporters
      /\ rep.target \in Account
      /\ CanIssue(ledger, Self, XToken, rep.quantity)
      /\ CanTransfer(minted, Self, rep.target, XToken, rep.quantity)
      /\ ledger' = AfterTransfer(minted, Self, rep.target, XToken, rep.quantity)
      /\ transfers' = Drop(transfers, tx)
      /\ RecordAmount(rep)
      /\ issued' = [issued EXCEPT ![tx] = @ + 1]

ReportTx(r, tx, rep) ==
  /\ IsSet
  /\ settings.rpt_enabled
  /\ Unsigned(rep.quantity) >= settings.min_limit
  /\ r \in reporters
  /\ FirstReport(tx, rep) \/ LaterReport(r, tx, rep)
  /\ AwaitReports(r, tx, rep) \/ PayOut(r, tx, rep)
  /\ votes' = votes \cup
       {[tx |-> tx, round |-> issued[tx], reporter |-> r, report |-> rep]}
  /\ signer' = r
  /\ UNCHANGED <<reporters, now>>

----------------------------------------------------------------------------
(* Tokens on their way out, and the tokens of a known x_transfer_id.       *)

ClearAmount(auth, id) ==
  /\ IsSet
  /\ auth \in {x_token_name, Self}
  /\ id \in DOMAIN amounts
  /\ amounts' = Drop(amounts, id)
  /\ signer' = auth
  /\ UNCHANGED <<settings, transfers, reporters, ledger, now, issued, votes, charged>>

(* xtransfer, set off by a transfer of q to the contract: what was         *)
(* received is retired and charged to the limit.                           *)
XTransfer(from, q) ==
  LET received == AfterTransfer(ledger, from, Self, XToken, q)
  IN  /\ IsSet
      /\ settings.xt_enabled
      /\ Unsigned(q) >= settings.min_limit
      /\ Unsigned(q) <= DestroyLimit
      /\ CanRetire(received, XToken, q)
      /\ ledger' = AfterRetire(received, XToken, q)
      /\ settings' = [settings EXCEPT
                        !.prev_destroy_limit = DestroyLimit - Unsigned(q),
                        !.prev_destroy_time  = now]
      /\ Charge("destroy", q)

(* A transfer of the token; on_transfer ignores what the contract itself   *)
(* and the system contracts send.                                          *)
Move(from, to, q) ==
  /\ CanTransfer(ledger, from, to, XToken, q)
  /\ \/ /\ to = Self
        /\ from \notin SystemAccount
        /\ XTransfer(from, q)
     \/ /\ to # Self \/ from \in SystemAccount
        /\ ledger' = AfterTransfer(ledger, from, to, XToken, q)
        /\ UNCHANGED <<settings, charged>>
  /\ signer' = from
  /\ UNCHANGED <<transfers, reporters, now, issued, votes>>

Transfer(from, to, q) ==
  /\ Move(from, to, q)
  /\ UNCHANGED amounts

(* Token::transferbyid: the amount of the row, which is then cleared.      *)
TransferById(from, to, id) ==
  /\ id \in DOMAIN amounts
  /\ from = amounts[id].target
  /\ Move(from, to, amounts[id].quantity)
  /\ amounts' = Drop(amounts, id)

(* The bound on the clock.                                                 *)
Tick ==
  /\ now < MaxTime
  /\ now' = now + 1
  /\ UNCHANGED <<tables, signer, issued, votes, charged>>

Administer ==
  \/ \E p \in Params : InitSettings(p) \/ Update(p)
  \/ \E on \in Switch : EnableRpt(on) \/ EnableXt(on)
  \/ \E r \in Reporter : AddReporter(r)
  \/ \E r \in Removable : RmReporter(r)

Use ==
  \E a \in Account :
    \/ \E id \in DOMAIN amounts :
         \/ ClearAmount(a, id)
         \/ \E to \in Account : TransferById(a, to, id)
    \/ \E to \in Account, q \in Quantity : Transfer(a, to, q)

Next ==
  \/ Administer
  \/ \E r \in Reporter, tx \in TxId : \E rep \in Reports[tx] : ReportTx(r, tx, rep)
  \/ Use
  \/ Tick

Spec == Init /\ [][Next]_vars
----------------------------------------------------------------------------
Settings ==
  [rpt_enabled : BOOLEAN, xt_enabled : BOOLEAN,
   min_reporters : 0..(Word - 1), min_limit : 0..(Word - 1),
   limit_inc : 0..(Word - 1), max_issue_limit : 0..(Word - 1),
   max_destroy_limit : 0..(Word - 1),
   prev_issue_limit : 0..(Word - 1), prev_issue_time : 0..MaxTime,
   prev_destroy_limit : 0..(Word - 1), prev_destroy_time : 0..MaxTime]

(* The type of the tables; the counters of the settings are uint64_t.      *)
TypeOK ==
  /\ settings \in Settings
  /\ DOMAIN transfers \subseteq TxId
  /\ \A tx \in DOMAIN transfers :
       /\ transfers[tx].report \in Reports[tx]
       /\ transfers[tx].reporters \in (SUBSET Reporter) \ {{}}
  /\ \A id \in DOMAIN amounts :
       /\ amounts[id].target \in Account
       /\ amounts[id].quantity \in 1..MaxAmount
  /\ reporters \subseteq Reporter
  /\ ledger \in Ledger
  /\ now \in 0..MaxTime

(* Limits the administrator may have set, or none.                         *)
Chosen ==
  Params \cup {[limit_inc |-> 0, max_issue_limit |-> 0, max_destroy_limit |-> 0]}

Maximum(m, p) == IF m = "issue" THEN p.max_issue_limit ELSE p.max_destroy_limit

(* In no interval is a limit charged more than the maximum and what regrew *)
(* meanwhile, whatever the order of reports, of transfers out and of       *)
(* updates of the limits, and although the unsigned sum may wrap around.   *)
RateLimited ==
  \A m \in Meters : \A t1, t2 \in 0..MaxTime : t1 <= t2 =>
    \E p, i \in Chosen :
      SumFunctionOnSet(charged[m], t1..t2)
        <= Maximum(m, p) + i.limit_inc * (t2 - t1)

(* What the rows that wait for reports have been charged.                  *)
Waiting ==
  SumFunctionOnSet([tx \in DOMAIN transfers |-> Unsigned(transfers[tx].report.quantity)],
                   DOMAIN transfers)

(* The two limits meter the supply to the unit: what was issued is what    *)
(* was charged, less the transfers still waiting for reports; what was     *)
(* destroyed was charged too.                                              *)
LimitsMeterSupply ==
  ledger.supply[XToken]
    = SumFunctionOnSet(InitialBalance, Account)
      + SumFunctionOnSet(charged["issue"], 0..MaxTime)
      - Waiting
      - SumFunctionOnSet(charged["destroy"], 0..MaxTime)

(* Tokens are issued only when min_reporters different reporters have      *)
(* reported one and the same content since the transaction was last paid,  *)
(* and then exactly the reported quantity reaches the reported target.     *)
IssueIsVouched ==
  [][ledger'.supply[XToken] > ledger.supply[XToken] =>
       \E tx \in TxId : \E rep \in Reports[tx] :
         /\ Cardinality({r \in Reporter :
               [tx |-> tx, round |-> issued[tx], reporter |-> r, report |-> rep]
                 \in votes'}) >= settings.min_reporters
         /\ ledger'.supply[XToken] = ledger.supply[XToken] + rep.quantity
         /\ ledger'.balance[XToken][rep.target]
              = ledger.balance[XToken][rep.target] + rep.quantity]_vars

(* A row of "amounts" stands for tokens its target was paid: it appears    *)
(* with them, is never overwritten, and serves one transferbyid.           *)
AmountsArePaid ==
  [][/\ \A id \in DOMAIN amounts \cap DOMAIN amounts' :
          amounts'[id] = amounts[id]
     /\ \A id \in DOMAIN amounts' \ DOMAIN amounts :
          ledger'.supply[XToken] = ledger.supply[XToken] + amounts'[id].quantity
     /\ \A id \in DOMAIN amounts \ DOMAIN amounts' :
          \/ signer' \in {x_token_name, Self}
          \/ /\ signer' = amounts[id].target
             /\ ledger'.balance[XToken][signer']
                  = ledger.balance[XToken][signer'] - amounts[id].quantity]_vars

----------------------------------------------------------------------------
(* What a test says and the code does only until a transaction is paid:    *)
(* "should throw when the same reporter reports a transaction twice".  The *)
(* row with the reporters is erased by the payment, so that every reporter *)
(* may report, and all of them have paid, the same transaction again.      *)
ReportsOnce ==
  \A v, u \in votes :
    v.tx = u.tx /\ v.reporter = u.reporter => v.round = u.round

----------------------------------------------------------------------------
(* Liveness, for reporters that report each transaction once: the programs *)
(* that watch the other chain and retry until their report is accepted.    *)
ReportOnce(r, tx, rep) ==
  /\ \A v \in votes : ~ (v.tx = tx /\ v.reporter = r)
  /\ ReportTx(r, tx, rep)

LiveNext ==
  \/ Administer
  \/ \E r \in Reporter, tx \in TxId : \E rep \in Reports[tx] : ReportOnce(r, tx, rep)
  \/ Use
  \/ Tick

Fairness ==
  /\ \A p \in Params : WF_vars(InitSettings(p))
  /\ WF_vars(EnableRpt(TRUE))
  /\ \A r \in Reporter : WF_vars(AddReporter(r))
  /\ \A r \in Reporter, tx \in TxId :
       \A rep \in Reports[tx] : WF_vars(ReportOnce(r, tx, rep))

LiveSpec == Init /\ [][LiveNext]_vars /\ Fairness

(* Every transfer that all reporters report alike is paid out, although    *)
(* late reports open rows, and charge the limit, for what has been paid.   *)
TransfersArrive == \A tx \in TxId : <>(issued[tx] > 0)
=============================================================================
