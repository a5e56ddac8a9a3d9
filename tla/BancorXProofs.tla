--------------------------- MODULE BancorXProofs ---------------------------
(***************************************************************************)
(* Theorems about BancorX, for every finite set of reporters and           *)
(* transactions, whatever is reported of them, whatever limits the         *)
(* administrator chooses, and any instants of the clock.                   *)
(*                                                                         *)
(* The invariant relates three things the code keeps apart: the rows that  *)
(* wait for reports and the reports that made them (Vouched), the ledger   *)
(* of the token contract (LedgerOK), and the meters of the limits and what *)
(* was charged to them (Metered).                                          *)
(***************************************************************************)
EXTENDS BancorX, TokenLedgerProofs

(* Every name in a row has reported the content of the row since the last  *)
(* payment of its transaction.                                             *)
Vouched ==
  \A tx \in DOMAIN transfers : \A r \in transfers[tx].reporters :
    [tx |-> tx, round |-> issued[tx], reporter |-> r,
     report |-> transfers[tx].report] \in votes

HistoryOK ==
  /\ issued \in [TxId -> Nat]
  /\ charged \in [Meters -> [0..MaxTime -> Nat]]

XInv ==
  /\ TypeOK
  /\ LedgerOK(ledger)
  /\ ledger.issuer[XToken] = Self
  /\ settings.prev_issue_time <= now
  /\ settings.prev_destroy_time <= now
  /\ HistoryOK
  /\ Vouched

----------------------------------------------------------------------------
(* The unsigned reading of an amount, and the limit that is left, are      *)
(* uint64_t; amounts of an asset are read as they are.                     *)
LEMMA UnsignedFacts ==
  /\ \A q \in Int : Unsigned(q) \in 0..(Word - 1)
  /\ \A q \in 0..MaxAmount : Unsigned(q) = q
<1>1. Word \in Nat /\ Word > 0 /\ MaxAmount \in Nat /\ MaxAmount < Word
  BY BancorXAssumption, MaxAmountAssumption
<1> QED
  BY <1>1 DEF Unsigned

LEMMA CurrentLimitFacts ==
  ASSUME NEW prev \in 0..(Word - 1), NEW time \in 0..MaxTime,
         NEW max \in 0..(Word - 1),
         settings.limit_inc \in Nat, now \in 0..MaxTime, time <= now
  PROVE  /\ CurrentLimit(prev, time, max) \in 0..(Word - 1)
         /\ CurrentLimit(prev, time, max) <= max
         /\ CurrentLimit(prev, time, max) <= prev + settings.limit_inc * (now - time)
<1>1. Word \in Nat /\ Word > 0 /\ MaxTime \in Nat
  BY BancorXAssumption, MaxAmountAssumption
<1> DEFINE delta == IF now > time THEN now - time ELSE 0
           sum   == prev + settings.limit_inc * delta
<1>2. delta = now - time /\ delta \in Nat
  BY <1>1
<1> HIDE DEF delta
<1>3. settings.limit_inc * delta \in Nat
  BY <1>2
<1>4. sum \in Nat
  BY <1>1, <1>3
<1>5. sum = prev + settings.limit_inc * (now - time)
  BY <1>2
<1> HIDE DEF sum
<1>6. sum % Word \in 0..(Word - 1) /\ sum % Word <= sum
  BY <1>1, <1>4
<1>7. CurrentLimit(prev, time, max) = IF sum % Word < max THEN sum % Word ELSE max
  BY DEF CurrentLimit, delta, sum
<1> QED
  BY <1>1, <1>4, <1>5, <1>6, <1>7

----------------------------------------------------------------------------
(* The ledger at the beginning.                                            *)
LEMMA InitialLedgerOK ==
  /\ LedgerOK(InitialLedger)
  /\ InitialLedger.issuer[XToken] = Self
<1> USE BancorXAssumption
<1>1. InitialLedger \in Ledger
  <2>1. SumFunctionOnSet(InitialBalance, Account) \in Int
    BY MaxAmountAssumption
  <2> QED
    BY <2>1, MaxAmountAssumption DEF InitialLedger, Ledger
<1>2. Backed(InitialLedger)
  <2> SUFFICES ASSUME NEW s \in Symbol
               PROVE  InitialLedger.supply[s] = TotalBalance(InitialLedger, s)
    BY DEF Backed
  <2>1. CASE s = XToken
    <3>1. InitialLedger.balance[s] = [a \in Account |-> InitialBalance[a]]
      BY <2>1 DEF InitialLedger
    <3>2. InitialLedger.balance[s] = InitialBalance
      BY <3>1
    <3>3. InitialLedger.supply[s] = SumFunctionOnSet(InitialBalance, Account)
      BY <2>1 DEF InitialLedger
    <3> QED
      BY <3>2, <3>3 DEF TotalBalance
  <2>2. CASE s # XToken
    <3> DEFINE f == InitialLedger.balance[s]
    <3>1. (\A a \in Account : f[a] \in Int) /\ (\A a \in Account : f[a] = 0)
      BY <2>2 DEF InitialLedger
    <3> HIDE DEF f
    <3>2. SumFunctionOnSet(f, Account) = 0
      BY <3>1, AccountAssumption, SumZero
    <3>3. InitialLedger.supply[s] = 0
      BY <2>2 DEF InitialLedger
    <3> QED
      BY <3>2, <3>3 DEF TotalBalance, f
  <2> QED
    BY <2>1, <2>2
<1>3. Bounded(InitialLedger)
  BY MaxAmountAssumption DEF InitialLedger, Bounded
<1>4. InRows(InitialLedger)
  BY NoAccountAssumption DEF InitialLedger, InRows, Exists
<1>5. InitialLedger.issuer[XToken] = Self
  BY DEF InitialLedger
<1> QED
  BY <1>1, <1>2, <1>3, <1>4, <1>5 DEF LedgerOK

LEMMA InitXInv == Init => XInv
<1> SUFFICES ASSUME Init PROVE XInv
  OBVIOUS
<1>1. LedgerOK(ledger) /\ ledger.issuer[XToken] = Self
  BY InitialLedgerOK DEF Init
<1>2. MaxTime \in Nat /\ Word \in Nat /\ Word > 0
  BY BancorXAssumption, MaxAmountAssumption
<1>3. /\ settings \in Settings
      /\ settings.prev_issue_time <= now /\ settings.prev_destroy_time <= now
  BY <1>2 DEF Init, Settings
<1>4. DOMAIN transfers = {} /\ DOMAIN amounts = {}
  BY DEF Init
<1>5. TypeOK
  BY <1>1, <1>2, <1>3, <1>4 DEF Init, TypeOK, LedgerOK
<1>6. HistoryOK
  BY <1>2 DEF Init, HistoryOK
<1> QED
  BY <1>1, <1>3, <1>4, <1>5, <1>6 DEF XInv, Vouched
----------------------------------------------------------------------------
(* What is left of the two limits.                                         *)
LEMMA LimitFacts ==
  ASSUME XInv
  PROVE  /\ IssueLimit \in 0..(Word - 1)
         /\ IssueLimit <= settings.max_issue_limit
         /\ IssueLimit <= settings.prev_issue_limit
                            + settings.limit_inc * (now - settings.prev_issue_time)
         /\ DestroyLimit \in 0..(Word - 1)
         /\ DestroyLimit <= settings.max_destroy_limit
         /\ DestroyLimit <= settings.prev_destroy_limit
                            + settings.limit_inc * (now - settings.prev_destroy_time)
<1>1. /\ settings.prev_issue_limit \in 0..(Word - 1)
      /\ settings.prev_issue_time \in 0..MaxTime
      /\ settings.max_issue_limit \in 0..(Word - 1)
      /\ settings.prev_destroy_limit \in 0..(Word - 1)
      /\ settings.prev_destroy_time \in 0..MaxTime
      /\ settings.max_destroy_limit \in 0..(Word - 1)
      /\ settings.limit_inc \in Nat /\ now \in 0..MaxTime
      /\ settings.prev_issue_time <= now /\ settings.prev_destroy_time <= now
  BY DEF XInv, TypeOK, Settings
<1>2. /\ IssueLimit \in 0..(Word - 1)
      /\ IssueLimit <= settings.max_issue_limit
      /\ IssueLimit <= settings.prev_issue_limit
                         + settings.limit_inc * (now - settings.prev_issue_time)
  BY <1>1, CurrentLimitFacts DEF IssueLimit
<1>3. /\ DestroyLimit \in 0..(Word - 1)
      /\ DestroyLimit <= settings.max_destroy_limit
      /\ DestroyLimit <= settings.prev_destroy_limit
                         + settings.limit_inc * (now - settings.prev_destroy_time)
  BY <1>1, CurrentLimitFacts DEF DestroyLimit
<1> QED
  BY <1>2, <1>3

(* Charging a meter adds to it at this instant.                            *)
LEMMA ChargeFacts ==
  ASSUME XInv, NEW m \in Meters, NEW q \in Int, Charge(m, q)
  PROVE  /\ charged' \in [Meters -> [0..MaxTime -> Nat]]
         /\ charged'[m][now] = charged[m][now] + Unsigned(q)
         /\ \A t \in 0..MaxTime : t # now => charged'[m][t] = charged[m][t]
         /\ \A n \in Meters : n # m => charged'[n] = charged[n]
<1>1. charged \in [Meters -> [0..MaxTime -> Nat]] /\ now \in 0..MaxTime
  BY DEF XInv, HistoryOK, TypeOK
<1>2. Unsigned(q) \in Nat
  BY UnsignedFacts
<1>3. charged' = [charged EXCEPT ![m][now] = @ + Unsigned(q)]
  BY DEF Charge
<1> DEFINE u == Unsigned(q)
<1> HIDE DEF u
<1>4. charged[m][now] \in Nat /\ u \in Nat
  BY <1>1, <1>2 DEF u
<1>5. charged[m][now] + u \in Nat
  BY <1>4
<1> QED
  BY <1>1, <1>3, <1>5 DEF u
----------------------------------------------------------------------------
(* The administrator changes the settings, and nothing else but the names. *)
LEMMA AdministerFacts ==
  ASSUME XInv, Administer
  PROVE  /\ settings' \in Settings
         /\ settings'.prev_issue_time <= now
         /\ settings'.prev_destroy_time <= now
         /\ reporters' \subseteq Reporter
         /\ Administered
<1>0. /\ settings \in Settings /\ now \in 0..MaxTime /\ reporters \subseteq Reporter
      /\ settings.prev_issue_time <= now /\ settings.prev_destroy_time <= now
  BY DEF XInv, TypeOK
<1>1. ASSUME NEW p \in Params, InitSettings(p)
      PROVE  /\ settings' \in Settings
             /\ settings'.prev_issue_time <= now
             /\ settings'.prev_destroy_time <= now
  <2>1. p \in Limits
    BY BancorXAssumption
  <2> QED
    BY <1>0, <1>1, <2>1 DEF InitSettings, Limits, Settings
<1>2. ASSUME NEW p \in Params, Update(p)
      PROVE  /\ settings' \in Settings
             /\ settings'.prev_issue_time <= now
             /\ settings'.prev_destroy_time <= now
  <2>1. p \in Limits
    BY BancorXAssumption
  <2>2. settings' = [rpt_enabled |-> settings.rpt_enabled,
                     xt_enabled |-> settings.xt_enabled,
                     min_reporters |-> p.min_reporters, min_limit |-> p.min_limit,
                     limit_inc |-> p.limit_inc,
                     max_issue_limit |-> p.max_issue_limit,
                     max_destroy_limit |-> p.max_destroy_limit,
                     prev_issue_limit |-> settings.prev_issue_limit,
                     prev_issue_time |-> settings.prev_issue_time,
                     prev_destroy_limit |-> settings.prev_destroy_limit,
                     prev_destroy_time |-> settings.prev_destroy_time]
    BY <1>0, <1>2, <2>1 DEF Update, Limits, Settings
  <2> QED
    BY <1>0, <2>1, <2>2 DEF Limits, Settings
<1>3. ASSUME NEW on \in Switch, EnableRpt(on) \/ EnableXt(on)
      PROVE  /\ settings' \in Settings
             /\ settings'.prev_issue_time <= now
             /\ settings'.prev_destroy_time <= now
  <2>1. on \in BOOLEAN
    BY BancorXAssumption
  <2> QED
    BY <1>0, <1>3, <2>1 DEF EnableRpt, EnableXt, Settings
<1> QED
  BY <1>0, <1>1, <1>2, <1>3
  DEF Administer, InitSettings, Update, EnableRpt, EnableXt, AddReporter, RmReporter

LEMMA AdministerKeepsXInv == XInv /\ Administer => XInv'
<1> SUFFICES ASSUME XInv, Administer PROVE XInv'
  OBVIOUS
<1>1. /\ settings' \in Settings
      /\ settings'.prev_issue_time <= now
      /\ settings'.prev_destroy_time <= now
      /\ reporters' \subseteq Reporter
      /\ UNCHANGED <<transfers, amounts, ledger, now, issued, votes, charged>>
  BY AdministerFacts DEF Administered
<1> QED
  BY <1>1 DEF XInv, TypeOK, HistoryOK, Vouched

LEMMA TickKeepsXInv == XInv /\ Tick => XInv'
<1> SUFFICES ASSUME XInv, Tick PROVE XInv'
  OBVIOUS
<1>1. now \in 0..MaxTime /\ now' = now + 1 /\ now' \in 0..MaxTime
  BY BancorXAssumption DEF XInv, TypeOK, Tick
<1>2. /\ settings \in Settings
      /\ settings.prev_issue_time <= now' /\ settings.prev_destroy_time <= now'
  BY <1>1 DEF XInv, TypeOK, Settings
<1> QED
  BY <1>1, <1>2 DEF Tick, tables, XInv, TypeOK, HistoryOK, Vouched
----------------------------------------------------------------------------
(* A report.  The names it leaves in the row have all reported its content *)
(* in this round, whether the row was there before or not.                 *)
LEMMA ReportVouches ==
  ASSUME XInv, NEW r \in Reporter, NEW tx \in TxId, NEW rep \in Reports[tx],
         ReportTx(r, tx, rep)
  PROVE  /\ Reported(r, tx) \in (SUBSET Reporter) \ {{}}
         /\ \A x \in Reported(r, tx) :
              [tx |-> tx, round |-> issued[tx], reporter |-> x, report |-> rep] \in votes'
         /\ votes \subseteq votes'
<1>1. votes' = votes \cup
        {[tx |-> tx, round |-> issued[tx], reporter |-> r, report |-> rep]}
  BY DEF ReportTx
<1>2. CASE tx \notin DOMAIN transfers
  <2>1. Reported(r, tx) = {r}
    BY <1>2 DEF Reported
  <2>2. Reported(r, tx) \in (SUBSET Reporter) \ {{}}
    BY <2>1
  <2>3. [tx |-> tx, round |-> issued[tx], reporter |-> r, report |-> rep] \in votes'
    BY <1>1
  <2> QED
    BY <1>1, <2>1, <2>2, <2>3
<1>3. CASE tx \in DOMAIN transfers
  <2>1. transfers[tx].report = rep
    BY <1>3 DEF ReportTx, FirstReport, LaterReport
  <2>2. transfers[tx].reporters \subseteq Reporter
    BY <1>3 DEF XInv, TypeOK
  <2>3. \A x \in transfers[tx].reporters :
          [tx |-> tx, round |-> issued[tx], reporter |-> x, report |-> rep] \in votes
    BY <1>3, <2>1 DEF XInv, Vouched
  <2>4. Reported(r, tx) = {r} \cup transfers[tx].reporters
    BY <1>3 DEF Reported
  <2>5. Reported(r, tx) \in (SUBSET Reporter) \ {{}}
    BY <2>2, <2>4
  <2>6. [tx |-> tx, round |-> issued[tx], reporter |-> r, report |-> rep] \in votes'
    BY <1>1
  <2> QED
    BY <1>1, <2>3, <2>4, <2>5, <2>6
<1> QED
  BY <1>2, <1>3

(* What the first report, or a later one, does to the settings and the     *)
(* meters.                                                                 *)
LEMMA ReportCharges ==
  ASSUME XInv, NEW r \in Reporter, NEW tx \in TxId, NEW rep \in Reports[tx],
         ReportTx(r, tx, rep)
  PROVE  /\ rep.quantity \in Int /\ rep \in Report
         /\ settings' \in Settings
         /\ settings'.prev_issue_time <= now
         /\ settings'.prev_destroy_time <= now
         /\ charged' \in [Meters -> [0..MaxTime -> Nat]]
<1>1. rep \in Report /\ rep.quantity \in Int
  BY BancorXAssumption DEF Report
<1>2. /\ settings \in Settings /\ now \in 0..MaxTime
      /\ settings.prev_issue_time <= now /\ settings.prev_destroy_time <= now
      /\ charged \in [Meters -> [0..MaxTime -> Nat]]
  BY DEF XInv, TypeOK, HistoryOK
<1>3. CASE FirstReport(tx, rep)
  <2>1. IssueLimit - Unsigned(rep.quantity) \in 0..(Word - 1)
    <3>1. IssueLimit \in 0..(Word - 1) /\ Unsigned(rep.quantity) \in 0..(Word - 1)
      BY <1>1, LimitFacts, UnsignedFacts
    <3>2. Unsigned(rep.quantity) <= IssueLimit
      BY <1>3 DEF FirstReport
    <3> QED
      BY <3>1, <3>2, BancorXAssumption
  <2> DEFINE left == IssueLimit - Unsigned(rep.quantity)
  <2>2. settings' = [settings EXCEPT !.prev_issue_limit = left, !.prev_issue_time = now]
    BY <1>3 DEF FirstReport
  <2> HIDE DEF left
  <2>3. left \in 0..(Word - 1)
    BY <2>1 DEF left
  <2>4. /\ settings' \in Settings
        /\ settings'.prev_issue_time <= now
        /\ settings'.prev_destroy_time <= now
    <3>1. settings' = [rpt_enabled |-> settings.rpt_enabled,
                       xt_enabled |-> settings.xt_enabled,
                       min_reporters |-> settings.min_reporters,
                       min_limit |-> settings.min_limit,
                       limit_inc |-> settings.limit_inc,
                       max_issue_limit |-> settings.max_issue_limit,
                       max_destroy_limit |-> settings.max_destroy_limit,
                       prev_issue_limit |-> left,
                       prev_issue_time |-> now,
                       prev_destroy_limit |-> settings.prev_destroy_limit,
                       prev_destroy_time |-> settings.prev_destroy_time]
      BY <1>2, <2>2 DEF Settings
    <3> QED
      BY <1>2, <2>3, <3>1 DEF Settings
  <2>5. Charge("issue", rep.quantity)
    BY <1>3 DEF FirstReport
  <2>6. charged' \in [Meters -> [0..MaxTime -> Nat]]
    BY <1>1, <2>5, ChargeFacts DEF Meters
  <2> QED
    BY <1>1, <2>4, <2>6
<1>4. CASE LaterReport(r, tx, rep)
  BY <1>1, <1>2, <1>4 DEF LaterReport
<1> QED
  BY <1>3, <1>4 DEF ReportTx

(* A payment issues the quantity reported and moves it to the target.      *)
LEMMA PayOutFacts ==
  ASSUME XInv, NEW r \in Reporter, NEW tx \in TxId, NEW rep \in Report,
         PayOut(r, tx, rep)
  PROVE  /\ rep.quantity \in 1..MaxAmount
         /\ rep.target \in Account \ {Self}
         /\ LedgerOK(ledger')
         /\ ledger'.issuer = ledger.issuer
         /\ ledger'.supply[XToken] = ledger.supply[XToken] + rep.quantity
         /\ ledger'.balance[XToken][rep.target]
              = ledger.balance[XToken][rep.target] + rep.quantity
<1> DEFINE q == rep.quantity
           to == rep.target
           minted == AfterIssue(ledger, Self, XToken, q)
<1>1. q \in Int /\ Self \in Account /\ XToken \in Symbol /\ LedgerOK(ledger)
  BY BancorXAssumption DEF Report, XInv
<1>2. /\ to \in Account
      /\ CanIssue(ledger, Self, XToken, q)
      /\ CanTransfer(minted, Self, to, XToken, q)
      /\ ledger' = AfterTransfer(minted, Self, to, XToken, q)
  BY DEF PayOut
<1>3. q \in 1..MaxAmount
  BY <1>1, <1>2, MaxAmountAssumption DEF CanIssue, IsAmount
<1>4. to # Self /\ to \in Account
  BY <1>2 DEF CanTransfer
<1>5. /\ ledger \in Ledger
      /\ minted \in Ledger
      /\ minted.issuer = ledger.issuer
      /\ minted.supply = [ledger.supply EXCEPT ![XToken] = ledger.supply[XToken] + q]
      /\ minted.balance = Credited(ledger.balance, Self, XToken, q)
  BY <1>1, IssueFacts DEF LedgerOK
<1>6. LedgerOK(minted)
  BY <1>1, <1>2, IssueKeepsLedgerOK
<1> HIDE DEF minted, q, to
<1>7. /\ ledger' \in Ledger
      /\ ledger'.issuer = minted.issuer
      /\ ledger'.supply = minted.supply
      /\ ledger'.balance = Credited(Credited(minted.balance, Self, XToken, -q),
                                    to, XToken, q)
  <2>1. /\ AfterTransfer(minted, Self, to, XToken, q) \in Ledger
        /\ AfterTransfer(minted, Self, to, XToken, q) =
             [issuer     |-> minted.issuer,
              max_supply |-> minted.max_supply,
              supply     |-> minted.supply,
              rows       |-> [minted.rows EXCEPT ![XToken] = @ \cup {to}],
              balance    |-> Credited(Credited(minted.balance, Self, XToken, -q),
                                      to, XToken, q)]
    BY <1>1, <1>4, <1>5, TransferFacts
  <2> QED
    BY <1>2, <2>1
<1>8. LedgerOK(ledger')
  BY <1>1, <1>2, <1>6, TransferKeepsLedgerOK
<1>9. ledger'.supply[XToken] = ledger.supply[XToken] + q
  BY <1>1, <1>5, <1>7 DEF Ledger
<1>10. ledger'.balance[XToken][to] = ledger.balance[XToken][to] + q
  <2>1. ledger.balance \in [Symbol -> [Account -> Int]]
    BY <1>5 DEF Ledger
  <2>2. minted.balance \in [Symbol -> [Account -> Int]]
    BY <1>5 DEF Ledger
  <2>3. minted.balance[XToken][to] = ledger.balance[XToken][to]
    BY <1>1, <1>2, <1>4, <1>5, <2>1 DEF Credited
  <2>4. ledger'.balance[XToken][to] = minted.balance[XToken][to] + q
    BY <1>1, <1>2, <1>4, <1>7, <2>2 DEF Credited
  <2> QED
    BY <2>3, <2>4
<1> QED
  BY <1>2, <1>3, <1>4, <1>5, <1>7, <1>8, <1>9, <1>10 DEF q, to
(* The rows and the amounts a report leaves.                               *)
LEMMA ReportKeepsXInv ==
  ASSUME XInv, NEW r \in Reporter, NEW tx \in TxId, NEW rep \in Reports[tx],
         ReportTx(r, tx, rep)
  PROVE  XInv'
<1>1. /\ rep.quantity \in Int /\ rep \in Report
      /\ settings' \in Settings
      /\ settings'.prev_issue_time <= now
      /\ settings'.prev_destroy_time <= now
      /\ charged' \in [Meters -> [0..MaxTime -> Nat]]
  BY ReportCharges
<1>2. /\ Reported(r, tx) \in (SUBSET Reporter) \ {{}}
      /\ \A x \in Reported(r, tx) :
           [tx |-> tx, round |-> issued[tx], reporter |-> x, report |-> rep] \in votes'
      /\ votes \subseteq votes'
  BY ReportVouches
<1>3. /\ reporters' \subseteq Reporter /\ now' = now /\ now' \in 0..MaxTime
  BY DEF XInv, TypeOK, ReportTx
<1>4. /\ DOMAIN transfers \subseteq TxId
      /\ \A t \in DOMAIN transfers :
           /\ transfers[t].report \in Reports[t]
           /\ transfers[t].reporters \in (SUBSET Reporter) \ {{}}
           /\ \A x \in transfers[t].reporters :
                [tx |-> t, round |-> issued[t], reporter |-> x,
                 report |-> transfers[t].report] \in votes
  BY DEF XInv, TypeOK, Vouched
<1>5. CASE AwaitReports(r, tx, rep)
  <2> DEFINE row == [report |-> rep, reporters |-> Reported(r, tx)]
  <2>1. /\ DOMAIN transfers' = DOMAIN transfers \cup {tx}
        /\ transfers'[tx] = row
        /\ \A t \in DOMAIN transfers : t # tx => transfers'[t] = transfers[t]
        /\ UNCHANGED <<amounts, ledger, issued>>
    BY <1>5 DEF AwaitReports, Put
  <2>2. row.report = rep /\ row.reporters = Reported(r, tx)
    OBVIOUS
  <2> HIDE DEF row
  <2>3. \A t \in DOMAIN transfers' :
          /\ transfers'[t].report \in Reports[t]
          /\ transfers'[t].reporters \in (SUBSET Reporter) \ {{}}
    BY <1>2, <1>4, <2>1, <2>2
  <2>4. TypeOK'
    BY <1>1, <1>3, <1>4, <2>1, <2>3 DEF XInv, TypeOK
  <2>5. Vouched'
    BY <1>2, <1>4, <2>1, <2>2 DEF Vouched
  <2> QED
    BY <1>1, <1>3, <2>1, <2>4, <2>5 DEF XInv, HistoryOK
<1>6. CASE PayOut(r, tx, rep)
  <2>1. /\ rep.quantity \in 1..MaxAmount /\ rep.target \in Account
        /\ LedgerOK(ledger') /\ ledger'.issuer = ledger.issuer
    BY <1>1, <1>6, PayOutFacts
  <2>2. /\ DOMAIN transfers' = DOMAIN transfers \ {tx}
        /\ \A t \in DOMAIN transfers' : transfers'[t] = transfers[t]
    BY <1>6 DEF PayOut, Drop, Restrict
  <2>3. /\ issued' \in [TxId -> Nat]
        /\ \A t \in TxId : t # tx => issued'[t] = issued[t]
    <3>1. issued \in [TxId -> Nat]
      BY DEF XInv, HistoryOK
    <3>2. issued' = [issued EXCEPT ![tx] = issued[tx] + 1]
      BY <1>6 DEF PayOut
    <3>3. issued[tx] + 1 \in Nat
      BY <3>1
    <3> QED
      BY <3>1, <3>2, <3>3
  <2>4. \A id \in DOMAIN amounts' :
          /\ amounts'[id].target \in Account
          /\ amounts'[id].quantity \in 1..MaxAmount
    <3>1. \A id \in DOMAIN amounts :
            amounts[id].target \in Account /\ amounts[id].quantity \in 1..MaxAmount
      BY DEF XInv, TypeOK
    <3>2. CASE UNCHANGED amounts
      BY <3>1, <3>2
    <3>3. CASE amounts' = Put(amounts, rep.x_transfer_id,
                              [target |-> rep.target, quantity |-> rep.quantity])
      BY <2>1, <3>1, <3>3 DEF Put
    <3> QED
      BY <1>6, <3>2, <3>3 DEF PayOut, RecordAmount
  <2>5. TypeOK'
    BY <1>1, <1>3, <1>4, <2>1, <2>2, <2>4 DEF TypeOK, LedgerOK
  <2>6. Vouched'
    BY <1>2, <1>4, <2>2, <2>3 DEF Vouched
  <2>7. ledger'.issuer[XToken] = Self
    BY <2>1 DEF XInv
  <2> QED
    BY <1>1, <1>3, <2>1, <2>3, <2>5, <2>6, <2>7 DEF XInv, HistoryOK
<1> QED
  BY <1>5, <1>6 DEF ReportTx

----------------------------------------------------------------------------
(* A transfer of q by from: what is sent to the contract is destroyed and  *)
(* charged, everything else only moves.                                    *)
LEMMA MoveFacts ==
  ASSUME XInv, NEW from \in Account, NEW to \in Account, NEW q \in Int,
         Move(from, to, q)
  PROVE  /\ q \in 1..MaxAmount
         /\ LedgerOK(ledger')
         /\ ledger'.issuer = ledger.issuer
         /\ from # to
         /\ ledger'.balance[XToken][from] = ledger.balance[XToken][from] - q
         /\ \/ /\ ledger'.supply[XToken] = ledger.supply[XToken]
               /\ UNCHANGED <<settings, charged>>
            \/ /\ ledger'.supply[XToken] = ledger.supply[XToken] - q
               /\ XTransfer(from, q)
<1> DEFINE K == AfterTransfer(ledger, from, to, XToken, q)
<1>1. XToken \in Symbol /\ Self \in Account
  BY BancorXAssumption
<1>2. /\ LedgerOK(ledger) /\ ledger \in Ledger /\ ledger.issuer[XToken] = Self
      /\ ledger.balance \in [Symbol -> [Account -> Int]]
  BY DEF XInv, LedgerOK, Ledger
<1>3. CanTransfer(ledger, from, to, XToken, q)
  BY DEF Move
<1>4. q \in 1..MaxAmount /\ from # to
  BY <1>3, MaxAmountAssumption DEF CanTransfer, IsAmount
<1>5. LedgerOK(K)
  BY <1>1, <1>2, <1>3, TransferKeepsLedgerOK
<1>6. /\ K \in Ledger
      /\ K.issuer = ledger.issuer
      /\ K.supply = ledger.supply
      /\ K.balance = Credited(Credited(ledger.balance, from, XToken, -q), to, XToken, q)
  <2>1. /\ K \in Ledger
        /\ K = [issuer     |-> ledger.issuer,
                max_supply |-> ledger.max_supply,
                supply     |-> ledger.supply,
                rows       |-> [ledger.rows EXCEPT ![XToken] = @ \cup {to}],
                balance    |-> Credited(Credited(ledger.balance, from, XToken, -q),
                                        to, XToken, q)]
    BY <1>1, <1>2, TransferFacts
  <2> HIDE DEF K
  <2> QED
    BY <2>1
<1> HIDE DEF K
<1>7. K.balance[XToken][from] = ledger.balance[XToken][from] - q
  <2> DEFINE b == Credited(ledger.balance, from, XToken, -q)
  <2>1. /\ b \in [Symbol -> [Account -> Int]]
        /\ b[XToken][from] = ledger.balance[XToken][from] - q
    BY <1>1, <1>2 DEF Credited
  <2> HIDE DEF b
  <2>2. K.balance = Credited(b, to, XToken, q)
    BY <1>6 DEF b
  <2>3. K.balance[XToken][from] = b[XToken][from]
    BY <1>1, <1>4, <2>1, <2>2 DEF Credited
  <2> QED
    BY <2>1, <2>3
<1>8. CASE /\ ledger' = K
           /\ UNCHANGED <<settings, charged>>
  BY <1>4, <1>5, <1>6, <1>7, <1>8
<1>9. CASE to = Self /\ XTransfer(from, q)
  <2>1. CanRetire(K, XToken, q) /\ ledger' = AfterRetire(K, XToken, q)
    BY <1>9 DEF XTransfer, K
  <2>2. LedgerOK(ledger')
    BY <1>1, <1>5, <2>1, RetireKeepsLedgerOK
  <2>3. K.issuer[XToken] = Self
    BY <1>2, <1>6
  <2>4. /\ ledger'.issuer = K.issuer
        /\ ledger'.supply = [K.supply EXCEPT ![XToken] = K.supply[XToken] - q]
        /\ ledger'.balance = Credited(K.balance, Self, XToken, -q)
    BY <1>1, <1>6, <2>1, <2>3, RetireFacts
  <2>5. K.balance \in [Symbol -> [Account -> Int]] /\ K.supply \in [Symbol -> Int]
    BY <1>6 DEF Ledger
  <2>6. ledger'.supply[XToken] = ledger.supply[XToken] - q
    BY <1>1, <1>6, <2>4, <2>5
  <2>7. ledger'.balance[XToken][from] = K.balance[XToken][from]
    BY <1>1, <1>4, <1>9, <2>4, <2>5 DEF Credited
  <2> QED
    BY <1>4, <1>6, <1>7, <1>9, <2>2, <2>4, <2>6, <2>7
<1> QED
  BY <1>8, <1>9 DEF Move, K
LEMMA XTransferCharges ==
  ASSUME XInv, NEW from \in Account, NEW q \in Int, XTransfer(from, q)
  PROVE  /\ settings' \in Settings
         /\ settings'.prev_issue_time <= now
         /\ settings'.prev_destroy_time <= now
         /\ charged' \in [Meters -> [0..MaxTime -> Nat]]
<1> DEFINE left == DestroyLimit - Unsigned(q)
<1>1. /\ settings \in Settings /\ now \in 0..MaxTime
      /\ settings.prev_issue_time <= now /\ settings.prev_destroy_time <= now
  BY DEF XInv, TypeOK
<1>2. left \in 0..(Word - 1)
  <2>1. DestroyLimit \in 0..(Word - 1) /\ Unsigned(q) \in 0..(Word - 1)
    BY LimitFacts, UnsignedFacts
  <2>2. Unsigned(q) <= DestroyLimit
    BY DEF XTransfer
  <2> QED
    BY <2>1, <2>2, BancorXAssumption
<1>3. settings' = [settings EXCEPT !.prev_destroy_limit = left, !.prev_destroy_time = now]
  BY DEF XTransfer
<1> HIDE DEF left
<1>4. settings' = [rpt_enabled |-> settings.rpt_enabled,
                   xt_enabled |-> settings.xt_enabled,
                   min_reporters |-> settings.min_reporters,
                   min_limit |-> settings.min_limit,
                   limit_inc |-> settings.limit_inc,
                   max_issue_limit |-> settings.max_issue_limit,
                   max_destroy_limit |-> settings.max_destroy_limit,
                   prev_issue_limit |-> settings.prev_issue_limit,
                   prev_issue_time |-> settings.prev_issue_time,
                   prev_destroy_limit |-> left,
                   prev_destroy_time |-> now]
  BY <1>1, <1>3 DEF Settings
<1>5. Charge("destroy", q)
  BY DEF XTransfer
<1>6. charged' \in [Meters -> [0..MaxTime -> Nat]]
  BY <1>5, ChargeFacts DEF Meters
<1> QED
  BY <1>1, <1>2, <1>4, <1>6 DEF Settings

LEMMA MoveKeepsXInv ==
  ASSUME XInv, NEW from \in Account, NEW to \in Account, NEW q \in Int,
         Move(from, to, q),
         DOMAIN amounts' \subseteq DOMAIN amounts,
         \A id \in DOMAIN amounts' : amounts'[id] = amounts[id]
  PROVE  XInv'
<1>1. UNCHANGED <<transfers, reporters, now, issued, votes>>
  BY DEF Move
<1>2. /\ settings' \in Settings
      /\ settings'.prev_issue_time <= now
      /\ settings'.prev_destroy_time <= now
      /\ charged' \in [Meters -> [0..MaxTime -> Nat]]
  <2>1. CASE UNCHANGED <<settings, charged>>
    BY <2>1 DEF XInv, TypeOK, HistoryOK
  <2>2. CASE XTransfer(from, q)
    BY <2>2, XTransferCharges
  <2> QED
    BY <2>1, <2>2, MoveFacts
<1>3. LedgerOK(ledger') /\ ledger'.issuer[XToken] = Self
  BY MoveFacts DEF XInv
<1> QED
  BY <1>1, <1>2, <1>3 DEF XInv, TypeOK, HistoryOK, Vouched, LedgerOK

LEMMA UseKeepsXInv == XInv /\ Use => XInv'
<1> SUFFICES ASSUME XInv, Use PROVE XInv'
  OBVIOUS
<1>1. ASSUME NEW a \in Account, NEW id \in DOMAIN amounts, ClearAmount(a, id)
      PROVE  XInv'
  BY <1>1 DEF ClearAmount, Drop, Restrict, XInv, TypeOK, HistoryOK, Vouched
<1>2. ASSUME NEW a \in Account, NEW id \in DOMAIN amounts, NEW to \in Account,
             TransferById(a, to, id)
      PROVE  XInv'
  <2>1. amounts[id].quantity \in Int
    BY DEF XInv, TypeOK
  <2>2. /\ DOMAIN amounts' \subseteq DOMAIN amounts
        /\ \A i \in DOMAIN amounts' : amounts'[i] = amounts[i]
    BY <1>2 DEF TransferById, Drop, Restrict
  <2>3. Move(a, to, amounts[id].quantity)
    BY <1>2 DEF TransferById
  <2> QED
    BY <2>1, <2>2, <2>3, MoveKeepsXInv
<1>3. ASSUME NEW a \in Account, NEW to \in Account, NEW q \in Quantity, Transfer(a, to, q)
      PROVE  XInv'
  <2>1. q \in Int /\ Move(a, to, q) /\ UNCHANGED amounts
    BY <1>3, BancorXAssumption DEF Transfer
  <2> QED
    BY <2>1, MoveKeepsXInv
<1> QED
  BY <1>1, <1>2, <1>3 DEF Use

LEMMA NextXInv == XInv /\ [Next]_vars => XInv'
<1> SUFFICES ASSUME XInv, [Next]_vars PROVE XInv'
  OBVIOUS
<1>1. CASE Administer
  BY <1>1, AdministerKeepsXInv
<1>2. ASSUME NEW r \in Reporter, NEW tx \in TxId, NEW rep \in Reports[tx],
             ReportTx(r, tx, rep)
      PROVE  XInv'
  BY <1>2, ReportKeepsXInv
<1>3. CASE Use
  BY <1>3, UseKeepsXInv
<1>4. CASE Tick
  BY <1>4, TickKeepsXInv
<1>5. CASE UNCHANGED vars
  BY <1>5 DEF vars, XInv, TypeOK, HistoryOK, Vouched
<1> QED
  BY <1>1, <1>2, <1>3, <1>4, <1>5 DEF Next

(* The invariant holds in every reachable state: among other things, the   *)
(* supply of the token stays the sum of its balances under everything      *)
(* BancorX issues and retires.                                             *)
THEOREM BancorXInvariant == Spec => []XInv
BY InitXInv, NextXInv, PTL DEF Spec

(* The tables of BancorX keep their types; the meters stay uint64_t        *)
(* although amounts are subtracted from them without a check of the type.  *)
THEOREM BancorXTypeCorrect == Spec => []TypeOK
<1>1. XInv => TypeOK
  BY DEF XInv
<1> QED
  BY <1>1, BancorXInvariant, PTL
----------------------------------------------------------------------------
(* Tokens are issued only on enough equal reports of the current round,    *)
(* and the quantity reported reaches the target reported.                  *)
THEOREM BancorXIssueIsVouched == Spec => IssueIsVouched
<1> DEFINE Voters(tx, rep) ==
             {r \in Reporter :
               [tx |-> tx, round |-> issued[tx], reporter |-> r, report |-> rep]
                 \in votes'}
           Vouch == ledger'.supply[XToken] > ledger.supply[XToken] =>
             \E tx \in TxId : \E rep \in Reports[tx] :
               /\ Cardinality({r \in Reporter :
                    [tx |-> tx, round |-> issued[tx], reporter |-> r, report |-> rep]
                      \in votes'}) >= settings.min_reporters
               /\ ledger'.supply[XToken] = ledger.supply[XToken] + rep.quantity
               /\ ledger'.balance[XToken][rep.target]
                    = ledger.balance[XToken][rep.target] + rep.quantity
<1>1. ASSUME XInv, [Next]_vars PROVE [Vouch]_vars
  <2> SUFFICES ASSUME Next, ledger'.supply[XToken] > ledger.supply[XToken] PROVE Vouch
    BY <1>1
  <2>0. ledger.supply[XToken] \in Int
    BY <1>1, BancorXAssumption DEF XInv, TypeOK, Ledger
  <2>1. ASSUME UNCHANGED ledger PROVE FALSE
    BY <2>0, <2>1
  <2>2. ASSUME NEW from \in Account, NEW to \in Account, NEW q \in Int, Move(from, to, q)
        PROVE  FALSE
    <3>1. q \in 1..MaxAmount
      BY <1>1, <2>2, MoveFacts
    <3>2. \/ ledger'.supply[XToken] = ledger.supply[XToken]
          \/ ledger'.supply[XToken] = ledger.supply[XToken] - q
      BY <1>1, <2>2, MoveFacts
    <3> QED
      BY <2>0, <3>1, <3>2
  <2>3. ~ Use
    <3> SUFFICES ASSUME Use PROVE FALSE
      OBVIOUS
    <3>1. PICK a \in Account :
            \/ \E id \in DOMAIN amounts :
                 ClearAmount(a, id) \/ \E to \in Account : TransferById(a, to, id)
            \/ \E to \in Account, q \in Quantity : Transfer(a, to, q)
      BY DEF Use
    <3>2. \A id \in DOMAIN amounts : amounts[id].quantity \in Int
      BY <1>1 DEF XInv, TypeOK
    <3>3. \A q \in Quantity : q \in Int
      BY BancorXAssumption
    <3>4. CASE \E id \in DOMAIN amounts : ClearAmount(a, id)
      BY <2>1, <3>4 DEF ClearAmount
    <3>5. CASE \E id \in DOMAIN amounts, to \in Account : TransferById(a, to, id)
      BY <2>2, <3>2, <3>5 DEF TransferById
    <3>6. CASE \E to \in Account, q \in Quantity : Transfer(a, to, q)
      BY <2>2, <3>3, <3>6 DEF Transfer
    <3> QED
      BY <3>1, <3>4, <3>5, <3>6
  <2>4. ~ Administer /\ ~ Tick
    BY <1>1, <2>1, AdministerFacts DEF Administered, Tick, tables
  <2>a. PICK r \in Reporter, tx \in TxId : \E rep \in Reports[tx] : ReportTx(r, tx, rep)
    BY <2>3, <2>4 DEF Next
  <2>5. PICK rep \in Reports[tx] : ReportTx(r, tx, rep)
    BY <2>a
  <2>6. PayOut(r, tx, rep)
    BY <2>1, <2>5 DEF ReportTx, AwaitReports
  <2>7. rep \in Report
    BY <1>1, <2>5, ReportCharges
  <2>8. Cardinality(Reported(r, tx)) >= settings.min_reporters
    BY <2>6 DEF PayOut
  <2>9. Cardinality(Reported(r, tx)) <= Cardinality(Voters(tx, rep))
    <3>1. Reported(r, tx) \subseteq Voters(tx, rep)
      BY <1>1, <2>5, ReportVouches
    <3>2. Voters(tx, rep) \subseteq Reporter
      OBVIOUS
    <3> HIDE DEF Voters
    <3>3. IsFiniteSet(Voters(tx, rep))
      BY <3>2, BancorXAssumption, FS_Subset
    <3> QED
      BY <3>1, <3>3, FS_Subset
  <2>10. Cardinality(Voters(tx, rep)) >= settings.min_reporters
    <3>1. Voters(tx, rep) \subseteq Reporter
      OBVIOUS
    <3> HIDE DEF Voters
    <3>2. IsFiniteSet(Reported(r, tx)) /\ IsFiniteSet(Voters(tx, rep))
      BY <1>1, <2>5, <3>1, BancorXAssumption, ReportVouches, FS_Subset
    <3>3. /\ Cardinality(Reported(r, tx)) \in Nat
          /\ Cardinality(Voters(tx, rep)) \in Nat
      BY <3>2, FS_CardinalityType
    <3>4. settings.min_reporters \in Nat
      BY <1>1 DEF XInv, TypeOK, Settings
    <3> QED
      BY <2>8, <2>9, <3>3, <3>4
  <2>11. /\ ledger'.supply[XToken] = ledger.supply[XToken] + rep.quantity
         /\ ledger'.balance[XToken][rep.target]
              = ledger.balance[XToken][rep.target] + rep.quantity
    BY <1>1, <2>6, <2>7, PayOutFacts
  <2> QED
    BY <2>5, <2>10, <2>11
<1> QED
  BY <1>1, BancorXInvariant, PTL DEF Spec, IssueIsVouched

(* An amount appears with the tokens it stands for, is not overwritten,    *)
(* and is given up to its target's transfer or to the contracts.           *)
THEOREM BancorXAmountsArePaid == Spec => AmountsArePaid
<1> DEFINE Paid ==
      /\ \A id \in DOMAIN amounts \cap DOMAIN amounts' : amounts'[id] = amounts[id]
      /\ \A id \in DOMAIN amounts' \ DOMAIN amounts :
           ledger'.supply[XToken] = ledger.supply[XToken] + amounts'[id].quantity
      /\ \A id \in DOMAIN amounts \ DOMAIN amounts' :
           \/ signer' \in {x_token_name, Self}
           \/ /\ signer' = amounts[id].target
              /\ ledger'.balance[XToken][signer']
                   = ledger.balance[XToken][signer'] - amounts[id].quantity
<1>1. ASSUME XInv, [Next]_vars PROVE [Paid]_vars
  <2> SUFFICES ASSUME Next PROVE Paid
    BY <1>1
  <2>1. CASE UNCHANGED amounts
    BY <2>1
  <2>2. ASSUME NEW r \in Reporter, NEW tx \in TxId, NEW rep \in Reports[tx],
               ReportTx(r, tx, rep)
        PROVE  Paid
    <3>1. CASE AwaitReports(r, tx, rep)
      BY <2>1, <3>1 DEF AwaitReports
    <3>2. CASE PayOut(r, tx, rep)
      <4>1. rep \in Report
        BY <1>1, <2>2, ReportCharges
      <4>2. ledger'.supply[XToken] = ledger.supply[XToken] + rep.quantity
        BY <1>1, <3>2, <4>1, PayOutFacts
      <4>3. CASE UNCHANGED amounts
        BY <2>1, <4>3
      <4>4. CASE /\ rep.x_transfer_id \notin DOMAIN amounts
                 /\ amounts' = Put(amounts, rep.x_transfer_id,
                                   [target |-> rep.target, quantity |-> rep.quantity])
        BY <4>2, <4>4 DEF Put
      <4> QED
        BY <3>2, <4>3, <4>4 DEF PayOut, RecordAmount
    <3> QED
      BY <2>2, <3>1, <3>2 DEF ReportTx
  <2>3. ASSUME NEW a \in Account, NEW id \in DOMAIN amounts, ClearAmount(a, id)
        PROVE  Paid
    BY <2>3 DEF ClearAmount, Drop, Restrict
  <2>4. ASSUME NEW a \in Account, NEW id \in DOMAIN amounts, NEW to \in Account,
               TransferById(a, to, id)
        PROVE  Paid
    <3>1. amounts[id].quantity \in Int
      BY <1>1 DEF XInv, TypeOK
    <3>2. Move(a, to, amounts[id].quantity) /\ amounts' = Drop(amounts, id)
      BY <2>4 DEF TransferById
    <3>3. signer' = a /\ a = amounts[id].target
      BY <2>4, <3>2 DEF TransferById, Move
    <3>4. ledger'.balance[XToken][a] = ledger.balance[XToken][a] - amounts[id].quantity
      BY <1>1, <3>1, <3>2, MoveFacts
    <3> QED
      BY <3>2, <3>3, <3>4 DEF Drop, Restrict
  <2>5. ASSUME NEW a \in Account, NEW to \in Account, NEW q \in Quantity, Transfer(a, to, q)
        PROVE  Paid
    BY <2>1, <2>5 DEF Transfer
  <2>6. CASE Administer
    BY <1>1, <2>1, <2>6, AdministerFacts DEF Administered
  <2>7. CASE Tick
    BY <2>1, <2>7 DEF Tick, tables
  <2> HIDE DEF Paid
  <2> QED
    BY <2>2, <2>3, <2>4, <2>5, <2>6, <2>7 DEF Next, Use
<1>2. Spec => [][Paid]_vars
  BY <1>1, BancorXInvariant, PTL DEF Spec
<1> QED
  BY <1>2 DEF AmountsArePaid

----------------------------------------------------------------------------
(* The limits: they meter the supply to the unit (LimitsMeterSupply), and  *)
(* in no interval are they charged more than a maximum and what regrew     *)
(* (RateLimited), for every set of limits the administrator may choose     *)
(* from, in any order, at any times.                                       *)

(* What one charge does to the sums over intervals.                        *)
LEMMA ChargedSums ==
  ASSUME XInv, NEW m \in Meters, NEW t1 \in 0..MaxTime, NEW t2 \in 0..MaxTime
  PROVE  /\ IsFiniteSet(t1..t2)
         /\ \A t \in t1..t2 : t \in 0..MaxTime /\ charged[m][t] \in Nat
         /\ SumFunctionOnSet(charged[m], t1..t2) \in Nat
<1>1. MaxTime \in Nat /\ charged \in [Meters -> [0..MaxTime -> Nat]]
  BY BancorXAssumption DEF XInv, HistoryOK
<1>2. IsFiniteSet(t1..t2)
  BY <1>1, FS_Interval
<1>3. \A t \in t1..t2 : t \in 0..MaxTime /\ charged[m][t] \in Nat
  BY <1>1
<1> DEFINE S == t1..t2
           f == charged[m]
<1>4. IsFiniteSet(S) /\ (\A t \in S : f[t] \in Int) /\ (\A t \in S : f[t] >= 0)
  BY <1>2, <1>3
<1> HIDE DEF S, f
<1>5. SumFunctionOnSet(f, S) \in Int /\ SumFunctionOnSet(f, S) >= 0
  BY <1>4, SumType, SumBound
<1> QED
  BY <1>2, <1>3, <1>5 DEF S, f

LEMMA ChargeChangesSums ==
  ASSUME XInv, NEW m \in Meters, NEW q \in Int, Charge(m, q),
         NEW t1 \in 0..MaxTime, NEW t2 \in 0..MaxTime
  PROVE  /\ SumFunctionOnSet(charged'[m], t1..t2)
              = SumFunctionOnSet(charged[m], t1..t2)
                + (IF now \in t1..t2 THEN Unsigned(q) ELSE 0)
         /\ \A n \in Meters : n # m => charged'[n] = charged[n]
<1> DEFINE S == t1..t2
           f == charged[m]
           g == charged'[m]
           u == Unsigned(q)
<1>1. IsFiniteSet(S) /\ \A t \in S : t \in 0..MaxTime /\ f[t] \in Int
  BY ChargedSums
<1>2. charged' \in [Meters -> [0..MaxTime -> Nat]]
  BY ChargeFacts
<1>3. \A t \in S : g[t] \in Int
  <2>1. g \in [0..MaxTime -> Nat]
    BY <1>2
  <2> HIDE DEF S, f, g
  <2> QED
    BY <1>1, <2>1
<1>4. /\ g[now] = f[now] + u
      /\ \A t \in 0..MaxTime : t # now => g[t] = f[t]
      /\ \A n \in Meters : n # m => charged'[n] = charged[n]
  BY ChargeFacts
<1>5. u \in Int
  BY UnsignedFacts
<1> HIDE DEF S, f, g, u
<1>6. SumFunctionOnSet(f, S) \in Int
  BY <1>1, SumType
<1>7. CASE now \in S
  <2>1. \A t \in S : t # now => g[t] = f[t]
    BY <1>1, <1>4
  <2>2. SumFunctionOnSet(g, S) = SumFunctionOnSet(f, S) + g[now] - f[now]
    BY <1>1, <1>3, <1>7, <2>1, SumExcept
  <2>3. f[now] \in Int
    BY <1>1, <1>7
  <2>4. SumFunctionOnSet(g, S) = SumFunctionOnSet(f, S) + u
    BY <1>4, <1>5, <1>6, <2>2, <2>3
  <2> QED
    BY <1>4, <1>7, <2>4 DEF S, f, g, u
<1>8. CASE now \notin S
  <2>1. \A t \in S : g[t] \in Int /\ g[t] - f[t] = 0
    BY <1>1, <1>3, <1>4, <1>8
  <2>2. SumFunctionOnSet(g, S) = SumFunctionOnSet(f, S)
    BY <1>1, <2>1, SumSame
  <2>3. SumFunctionOnSet(g, S) = SumFunctionOnSet(f, S) + 0
    BY <1>6, <2>2
  <2> QED
    BY <1>4, <1>8, <2>3 DEF S, f, g, u
<1> QED
  BY <1>7, <1>8

----------------------------------------------------------------------------
(* What the waiting rows have been charged, when a row comes and goes.     *)
Table(T) == /\ DOMAIN T \subseteq TxId
            /\ \A tx \in DOMAIN T : T[tx].report \in Reports[tx]

Charges(T) == [tx \in DOMAIN T |-> Unsigned(T[tx].report.quantity)]

WaitingIn(T) == SumFunctionOnSet(Charges(T), DOMAIN T)

LEMMA ReportUnsigned ==
  ASSUME NEW tx \in TxId, NEW rep \in Reports[tx]
  PROVE  Unsigned(rep.quantity) \in Int
<1>1. rep.quantity \in Int
  BY BancorXAssumption DEF Report
<1> QED
  BY <1>1, UnsignedFacts

LEMMA ChargesFacts ==
  ASSUME NEW T, Table(T)
  PROVE  /\ IsFiniteSet(DOMAIN T)
         /\ \A tx \in DOMAIN T : Charges(T)[tx] = Unsigned(T[tx].report.quantity)
         /\ \A tx \in DOMAIN T : Charges(T)[tx] \in Int
         /\ WaitingIn(T) \in Int
<1>1. IsFiniteSet(DOMAIN T)
  BY BancorXAssumption, FS_Subset DEF Table
<1>2. ASSUME NEW tx \in DOMAIN T
      PROVE  Charges(T)[tx] = Unsigned(T[tx].report.quantity) /\ Charges(T)[tx] \in Int
  BY ReportUnsigned DEF Table, Charges
<1> QED
  BY <1>1, <1>2, SumType DEF WaitingIn

LEMMA WaitingPut ==
  ASSUME NEW T, Table(T), NEW tx \in TxId, NEW row, row.report \in Reports[tx]
  PROVE  /\ tx \notin DOMAIN T =>
              WaitingIn(Put(T, tx, row)) = WaitingIn(T) + Unsigned(row.report.quantity)
         /\ tx \in DOMAIN T /\ T[tx].report = row.report =>
              WaitingIn(Put(T, tx, row)) = WaitingIn(T)
<1> DEFINE P == Put(T, tx, row)
           f == Charges(T)
           g == Charges(P)
           D == DOMAIN T
           u == Unsigned(row.report.quantity)
<1>1. /\ DOMAIN P = D \cup {tx}
      /\ P[tx] = row
      /\ \A t \in D : t # tx => P[t] = T[t]
  BY DEF Put
<1> HIDE DEF P
<1>2. Table(P)
  BY <1>1 DEF Table
<1>3. /\ IsFiniteSet(D) /\ (\A t \in D : f[t] \in Int)
      /\ (\A t \in D : f[t] = Unsigned(T[t].report.quantity))
      /\ WaitingIn(T) \in Int
  BY ChargesFacts
<1>4. /\ IsFiniteSet(D \cup {tx}) /\ (\A t \in D \cup {tx} : g[t] \in Int)
      /\ (\A t \in D \cup {tx} : g[t] = Unsigned(P[t].report.quantity))
  BY <1>1, <1>2, ChargesFacts
<1>5. /\ WaitingIn(T) = SumFunctionOnSet(f, D)
      /\ WaitingIn(P) = SumFunctionOnSet(g, D \cup {tx})
  BY <1>1 DEF WaitingIn
<1>6. g[tx] = u /\ u \in Int
  BY <1>1, <1>4
<1>7. ASSUME NEW t \in D, t # tx PROVE g[t] = f[t]
  BY <1>1, <1>3, <1>4, <1>7
<1> HIDE DEF f, g, D, u
<1>8. ASSUME tx \notin D PROVE WaitingIn(P) = WaitingIn(T) + u
  <2>1. (D \cup {tx}) \ {tx} = D
    BY <1>8
  <2>2. SumFunctionOnSet(g, D \cup {tx})
          = g[tx] + SumFunctionOnSet(g, (D \cup {tx}) \ {tx})
    BY <1>4, SumWithout
  <2>3. \A t \in D : g[t] \in Int /\ g[t] - f[t] = 0
    BY <1>3, <1>4, <1>7, <1>8
  <2>4. SumFunctionOnSet(g, D) = SumFunctionOnSet(f, D)
    BY <1>3, <2>3, SumSame
  <2>5. SumFunctionOnSet(g, D \cup {tx}) = g[tx] + SumFunctionOnSet(g, D)
    BY <2>1, <2>2
  <2>6. WaitingIn(P) = u + WaitingIn(T)
    BY <1>5, <1>6, <2>4, <2>5
  <2> QED
    BY <1>3, <1>6, <2>6
<1>9. ASSUME tx \in D, T[tx].report = row.report PROVE WaitingIn(P) = WaitingIn(T)
  <2>1. D \cup {tx} = D
    BY <1>9
  <2>2. f[tx] = u
    BY <1>3, <1>9 DEF u
  <2>3. \A t \in D : g[t] \in Int /\ g[t] - f[t] = 0
    BY <1>3, <1>4, <1>6, <1>7, <2>2
  <2>4. SumFunctionOnSet(g, D) = SumFunctionOnSet(f, D)
    BY <1>3, <2>3, SumSame
  <2> QED
    BY <1>5, <2>1, <2>4
<1> QED
  BY <1>8, <1>9 DEF P, D, u

LEMMA WaitingDrop ==
  ASSUME NEW T, Table(T), NEW tx \in TxId
  PROVE  /\ tx \in DOMAIN T =>
              WaitingIn(Drop(T, tx)) = WaitingIn(T) - Unsigned(T[tx].report.quantity)
         /\ tx \notin DOMAIN T => WaitingIn(Drop(T, tx)) = WaitingIn(T)
<1> DEFINE P == Drop(T, tx)
           f == Charges(T)
           g == Charges(P)
           D == DOMAIN T
<1>1. DOMAIN P = D \ {tx} /\ \A t \in D \ {tx} : P[t] = T[t]
  BY DEF Drop, Restrict
<1> HIDE DEF P
<1>2. Table(P)
  BY <1>1 DEF Table
<1>3. /\ IsFiniteSet(D) /\ (\A t \in D : f[t] \in Int)
      /\ (\A t \in D : f[t] = Unsigned(T[t].report.quantity))
      /\ WaitingIn(T) \in Int
  BY ChargesFacts
<1>4. /\ IsFiniteSet(D \ {tx}) /\ (\A t \in D \ {tx} : g[t] \in Int)
      /\ (\A t \in D \ {tx} : g[t] = Unsigned(P[t].report.quantity))
      /\ WaitingIn(P) \in Int
  BY <1>1, <1>2, ChargesFacts
<1>5. /\ WaitingIn(T) = SumFunctionOnSet(f, D)
      /\ WaitingIn(P) = SumFunctionOnSet(g, D \ {tx})
  BY <1>1 DEF WaitingIn
<1>6. ASSUME NEW t \in D \ {tx} PROVE g[t] = f[t]
  BY <1>1, <1>3, <1>4
<1> HIDE DEF f, g, D
<1>7. (\A t \in D \ {tx} : f[t] \in Int) /\ \A t \in D \ {tx} : g[t] \in Int /\ g[t] - f[t] = 0
  BY <1>3, <1>4, <1>6
<1>8. SumFunctionOnSet(g, D \ {tx}) = SumFunctionOnSet(f, D \ {tx})
  BY <1>4, <1>7, SumSame
<1>9. ASSUME tx \in D
      PROVE  WaitingIn(P) = WaitingIn(T) - Unsigned(T[tx].report.quantity)
  <2>1. SumFunctionOnSet(f, D) = f[tx] + SumFunctionOnSet(f, D \ {tx})
    BY <1>3, <1>9, SumWithout
  <2>2. f[tx] \in Int /\ f[tx] = Unsigned(T[tx].report.quantity)
    BY <1>3, <1>9
  <2> QED
    BY <1>4, <1>5, <1>8, <2>1, <2>2
<1>10. ASSUME tx \notin D PROVE WaitingIn(P) = WaitingIn(T)
  <2>1. D \ {tx} = D
    BY <1>10
  <2> QED
    BY <1>5, <1>8, <2>1
<1> QED
  BY <1>9, <1>10 DEF P, D

LEMMA TransfersAreTable ==
  ASSUME XInv
  PROVE  Table(transfers) /\ Waiting = WaitingIn(transfers) /\ Waiting \in Int
<1>1. Table(transfers)
  BY DEF XInv, TypeOK, Table
<1>2. Waiting = WaitingIn(transfers)
  BY DEF Waiting, WaitingIn, Charges
<1> QED
  BY <1>1, <1>2, ChargesFacts

Total(m) == SumFunctionOnSet(charged[m], 0..MaxTime)

(* Everything in the balance of LimitsMeterSupply is an integer.           *)
LEMMA BalanceTypes ==
  ASSUME XInv
  PROVE  /\ ledger.supply[XToken] \in Int /\ Waiting \in Int
         /\ Total("issue") \in Int /\ Total("destroy") \in Int
         /\ SumFunctionOnSet(InitialBalance, Account) \in Int
<1>1. ledger.supply[XToken] \in Int
  BY BancorXAssumption DEF XInv, TypeOK, Ledger
<1>2. 0 \in 0..MaxTime /\ MaxTime \in 0..MaxTime
  BY BancorXAssumption
<1>3. Total("issue") \in Int /\ Total("destroy") \in Int
  BY <1>2, ChargedSums DEF Total, Meters
<1>4. SumFunctionOnSet(InitialBalance, Account) \in Int
  BY BancorXAssumption, MaxAmountAssumption
<1> QED
  BY <1>1, <1>3, <1>4, TransfersAreTable

LEMMA ChargeTotals ==
  ASSUME XInv, NEW m \in Meters, NEW q \in Int, Charge(m, q)
  PROVE  /\ Total(m)' = Total(m) + Unsigned(q)
         /\ \A n \in Meters : n # m => Total(n)' = Total(n)
<1>1. 0 \in 0..MaxTime /\ MaxTime \in 0..MaxTime /\ now \in 0..MaxTime
  BY BancorXAssumption DEF XInv, TypeOK
<1>2. /\ SumFunctionOnSet(charged'[m], 0..MaxTime)
           = SumFunctionOnSet(charged[m], 0..MaxTime) + Unsigned(q)
      /\ \A n \in Meters : n # m => charged'[n] = charged[n]
  BY <1>1, ChargeChangesSums
<1> QED
  BY <1>2 DEF Total

LEMMA ReportMeters ==
  ASSUME XInv, LimitsMeterSupply, NEW r \in Reporter, NEW tx \in TxId,
         NEW rep \in Reports[tx], ReportTx(r, tx, rep)
  PROVE  LimitsMeterSupply'
<1> DEFINE u == Unsigned(rep.quantity)
           first == tx \notin DOMAIN transfers
           Balance == SumFunctionOnSet(InitialBalance, Account)
<1>1. /\ rep.quantity \in Int /\ rep \in Report /\ u \in Int
      /\ Table(transfers) /\ Waiting = WaitingIn(transfers)
      /\ Waiting' = WaitingIn(transfers')
  BY ReportCharges, ReportUnsigned, TransfersAreTable
  DEF Waiting, WaitingIn, Charges
<1>2. /\ Total("issue")' = Total("issue") + (IF first THEN u ELSE 0)
      /\ Total("destroy")' = Total("destroy")
      /\ ~ first => transfers[tx].report = rep
  <2>1. CASE FirstReport(tx, rep)
    <3>1. Charge("issue", rep.quantity) /\ first
      BY <2>1 DEF FirstReport
    <3> QED
      BY <1>1, <3>1, ChargeTotals DEF Meters
  <2>2. CASE LaterReport(r, tx, rep)
    <3>1. UNCHANGED charged /\ ~ first /\ transfers[tx].report = rep
      BY <2>2 DEF LaterReport
    <3> QED
      BY <3>1, BalanceTypes DEF Total
  <2> QED
    BY <2>1, <2>2 DEF ReportTx
<1>3. ledger.supply[XToken] = Balance + Total("issue") - Waiting - Total("destroy")
  BY DEF LimitsMeterSupply, Total
<1>4. /\ ledger.supply[XToken] \in Int /\ Waiting \in Int /\ Balance \in Int
      /\ Total("issue") \in Int /\ Total("destroy") \in Int
  BY BalanceTypes
<1>5. ledger'.supply[XToken] - ledger.supply[XToken] + Waiting' - Waiting
        = IF first THEN u ELSE 0
  <2>1. CASE AwaitReports(r, tx, rep)
    <3> DEFINE row == [report |-> rep, reporters |-> Reported(r, tx)]
    <3>1. transfers' = Put(transfers, tx, row) /\ UNCHANGED ledger
      BY <2>1 DEF AwaitReports
    <3>2. row.report = rep
      OBVIOUS
    <3> HIDE DEF row
    <3>3. Waiting' = Waiting + (IF first THEN u ELSE 0)
      BY <1>1, <1>2, <1>4, <3>1, <3>2, WaitingPut
    <3> QED
      BY <1>1, <1>4, <3>1, <3>3
  <2>2. CASE PayOut(r, tx, rep)
    <3>1. transfers' = Drop(transfers, tx)
      BY <2>2 DEF PayOut
    <3>2. /\ rep.quantity \in 1..MaxAmount
          /\ ledger'.supply[XToken] = ledger.supply[XToken] + rep.quantity
      BY <1>1, <2>2, PayOutFacts
    <3>3. u = rep.quantity
      BY <3>2, UnsignedFacts, MaxAmountAssumption
    <3>4. Waiting' = Waiting - (IF first THEN 0 ELSE u)
      BY <1>1, <1>2, <1>4, <3>1, WaitingDrop
    <3> QED
      BY <1>1, <1>4, <3>2, <3>3, <3>4
  <2> QED
    BY <2>1, <2>2 DEF ReportTx
<1>6. ledger'.supply[XToken] \in Int /\ Waiting' \in Int
  <2>1. XInv'
    BY ReportKeepsXInv
  <2>2. ledger'.supply[XToken] \in Int
    BY <2>1, BancorXAssumption DEF XInv, TypeOK, Ledger
  <2>3. Table(transfers')
    BY <2>1 DEF XInv, TypeOK, Table
  <2> QED
    BY <1>1, <2>2, <2>3, ChargesFacts
<1>7. ledger'.supply[XToken] = Balance + Total("issue")' - Waiting' - Total("destroy")'
  <2> HIDE DEF u, first, Balance
  <2> QED
    BY <1>1, <1>2, <1>3, <1>4, <1>5, <1>6
<1> QED
  BY <1>7 DEF LimitsMeterSupply, Total

LEMMA MoveMeters ==
  ASSUME XInv, LimitsMeterSupply, NEW from \in Account, NEW to \in Account,
         NEW q \in Int, Move(from, to, q)
  PROVE  LimitsMeterSupply'
<1> DEFINE Balance == SumFunctionOnSet(InitialBalance, Account)
<1>1. Waiting' = Waiting
  BY DEF Move, Waiting
<1>2. ledger.supply[XToken] = Balance + Total("issue") - Waiting - Total("destroy")
  BY DEF LimitsMeterSupply, Total
<1>3. /\ ledger.supply[XToken] \in Int /\ Waiting \in Int /\ Balance \in Int
      /\ Total("issue") \in Int /\ Total("destroy") \in Int
  BY BalanceTypes
<1> HIDE DEF Balance
<1>4. CASE /\ ledger'.supply[XToken] = ledger.supply[XToken]
           /\ UNCHANGED charged
  <2>1. Total("issue")' = Total("issue") /\ Total("destroy")' = Total("destroy")
    BY <1>4 DEF Total
  <2> QED
    BY <1>1, <1>2, <1>4, <2>1 DEF LimitsMeterSupply, Total, Balance
<1>5. CASE /\ ledger'.supply[XToken] = ledger.supply[XToken] - q
           /\ XTransfer(from, q)
  <2>1. q \in 1..MaxAmount
    BY MoveFacts
  <2>2. Unsigned(q) = q
    BY <2>1, UnsignedFacts, MaxAmountAssumption
  <2>3. Charge("destroy", q)
    BY <1>5 DEF XTransfer
  <2>4. Total("issue")' = Total("issue") /\ Total("destroy")' = Total("destroy") + q
    BY <2>2, <2>3, ChargeTotals DEF Meters
  <2>5. ledger'.supply[XToken] = Balance + Total("issue")' - Waiting' - Total("destroy")'
    BY <1>1, <1>2, <1>3, <1>5, <2>1, <2>4
  <2> QED
    BY <2>5 DEF LimitsMeterSupply, Total, Balance
<1> QED
  BY <1>4, <1>5, MoveFacts

LEMMA NextMeters == XInv /\ LimitsMeterSupply /\ [Next]_vars => LimitsMeterSupply'
<1> SUFFICES ASSUME XInv, LimitsMeterSupply, [Next]_vars PROVE LimitsMeterSupply'
  OBVIOUS
<1>1. ASSUME UNCHANGED <<transfers, ledger, charged>> PROVE LimitsMeterSupply'
  BY <1>1 DEF LimitsMeterSupply, Waiting
<1>2. ASSUME NEW r \in Reporter, NEW tx \in TxId, NEW rep \in Reports[tx],
             ReportTx(r, tx, rep)
      PROVE  LimitsMeterSupply'
  BY <1>2, ReportMeters
<1>3. ASSUME NEW a \in Account, NEW id \in DOMAIN amounts, ClearAmount(a, id)
      PROVE  LimitsMeterSupply'
  BY <1>1, <1>3 DEF ClearAmount
<1>4. ASSUME NEW a \in Account, NEW id \in DOMAIN amounts, NEW to \in Account,
             TransferById(a, to, id)
      PROVE  LimitsMeterSupply'
  <2>1. amounts[id].quantity \in Int
    BY DEF XInv, TypeOK
  <2> QED
    BY <1>4, <2>1, MoveMeters DEF TransferById
<1>5. ASSUME NEW a \in Account, NEW to \in Account, NEW q \in Quantity, Transfer(a, to, q)
      PROVE  LimitsMeterSupply'
  BY <1>5, BancorXAssumption, MoveMeters DEF Transfer
<1>6. CASE Administer
  BY <1>1, <1>6, AdministerFacts DEF Administered
<1>7. CASE Tick
  BY <1>1, <1>7 DEF Tick, tables
<1>8. CASE UNCHANGED vars
  BY <1>1, <1>8 DEF vars
<1> QED
  BY <1>2, <1>3, <1>4, <1>5, <1>6, <1>7, <1>8 DEF Next, Use

LEMMA InitMeters == Init => LimitsMeterSupply
<1> SUFFICES ASSUME Init PROVE LimitsMeterSupply
  OBVIOUS
<1>0. XInv
  BY InitXInv
<1>1. ledger.supply[XToken] = SumFunctionOnSet(InitialBalance, Account)
  BY BancorXAssumption DEF Init, InitialLedger
<1>2. Waiting = 0
  <2>1. DOMAIN transfers = {}
    BY DEF Init
  <2>2. \A f : SumFunctionOnSet(f, {}) = 0
    BY SumZero, FS_EmptySet
  <2> QED
    BY <2>1, <2>2 DEF Waiting
<1>3. ASSUME NEW m \in Meters PROVE Total(m) = 0
  <2> DEFINE S == 0..MaxTime
             f == charged[m]
  <2>1. IsFiniteSet(S) /\ (\A t \in S : f[t] \in Int) /\ (\A t \in S : f[t] = 0)
    BY BancorXAssumption, FS_Interval DEF Init
  <2> HIDE DEF S, f
  <2> QED
    BY <2>1, SumZero DEF Total, S, f
<1>4. Total("issue") = 0 /\ Total("destroy") = 0
  BY <1>3 DEF Meters
<1> QED
  BY <1>0, <1>1, <1>2, <1>4, BalanceTypes DEF LimitsMeterSupply, Total

(* The limits meter the supply to the unit, whatever is reported, in any   *)
(* order, and whatever is sent out.                                        *)
THEOREM BancorXLimitsMeterSupply == Spec => []LimitsMeterSupply
BY InitMeters, NextMeters, BancorXInvariant, PTL DEF Spec

----------------------------------------------------------------------------
(* The rate.  What was charged up to the last charge, together with what   *)
(* that charge left of the limit, is covered by some maximum and what      *)
(* regrew; and nothing has been charged since.                             *)
PrevLimit(m) == IF m = "issue" THEN settings.prev_issue_limit
                               ELSE settings.prev_destroy_limit
PrevTime(m)  == IF m = "issue" THEN settings.prev_issue_time
                               ELSE settings.prev_destroy_time
MaxLimit(m)  == IF m = "issue" THEN settings.max_issue_limit
                               ELSE settings.max_destroy_limit
Left(m)      == IF m = "issue" THEN IssueLimit ELSE DestroyLimit

ChargedIn(c, m, t1, t2) == SumFunctionOnSet(c[m], t1..t2)

Covers(m, n, d) ==
  \E p, i \in Chosen : n <= Maximum(m, p) + i.limit_inc * d

QuietSince ==
  \A m \in Meters : \A t \in 0..MaxTime : t > PrevTime(m) => charged[m][t] = 0

Unused ==
  ~ IsSet => \A m \in Meters : \A t \in 0..MaxTime : charged[m][t] = 0

CurrentIsChosen ==
  \E p \in Chosen : /\ settings.limit_inc = p.limit_inc
                    /\ \A m \in Meters : MaxLimit(m) = Maximum(m, p)

Covered ==
  \A m \in Meters : \A t1 \in 0..MaxTime : t1 <= PrevTime(m) =>
    Covers(m, ChargedIn(charged, m, t1, PrevTime(m)) + PrevLimit(m), PrevTime(m) - t1)

RateInv == QuietSince /\ Unused /\ CurrentIsChosen /\ Covered /\ RateLimited

LEMMA ChosenTypes ==
  ASSUME NEW p \in Chosen, NEW m \in Meters
  PROVE  p.limit_inc \in Nat /\ Maximum(m, p) \in Nat
<1>1. Word \in Nat
  BY BancorXAssumption
<1>2. CASE p \in Params
  BY <1>1, <1>2, BancorXAssumption DEF Limits, Maximum
<1>3. CASE p = [limit_inc |-> 0, max_issue_limit |-> 0, max_destroy_limit |-> 0]
  BY <1>3 DEF Maximum
<1> QED
  BY <1>2, <1>3 DEF Chosen

(* A longer interval is covered as well.                                   *)
LEMMA CoversLonger ==
  ASSUME NEW m \in Meters, NEW n \in Int, NEW d \in Nat, NEW e \in Nat,
         Covers(m, n, d), d <= e
  PROVE  Covers(m, n, e)
<1>1. PICK p \in Chosen, i \in Chosen : n <= Maximum(m, p) + i.limit_inc * d
  BY DEF Covers
<1> DEFINE c == i.limit_inc
           max == Maximum(m, p)
<1>2. c \in Nat /\ max \in Nat
  BY ChosenTypes
<1>3. n <= max + c * d
  BY <1>1
<1> HIDE DEF c, max
<1>4. c * d <= c * e /\ c * d \in Nat /\ c * e \in Nat
  <2>1. c * d \in Nat /\ c * e \in Nat
    BY <1>2
  <2>2. c * e = c * d + c * (e - d) /\ c * (e - d) \in Nat
    BY <1>2
  <2> QED
    BY <2>1, <2>2
<1>5. n <= max + c * e
  BY <1>2, <1>3, <1>4
<1> QED
  BY <1>5 DEF Covers, c, max

(* So is one in which one more of the increments regrows meanwhile.        *)
LEMMA CoversRegrown ==
  ASSUME NEW m \in Meters, NEW n \in Int, NEW d \in Nat, NEW e \in Nat,
         Covers(m, n, d), NEW k \in Chosen
  PROVE  Covers(m, n + k.limit_inc * e, d + e)
<1>1. PICK p \in Chosen, i \in Chosen : n <= Maximum(m, p) + i.limit_inc * d
  BY DEF Covers
<1> DEFINE a == i.limit_inc
           b == k.limit_inc
           max == Maximum(m, p)
<1>2. a \in Nat /\ b \in Nat /\ max \in Nat
  BY ChosenTypes
<1>3. n <= max + a * d
  BY <1>1
<1> HIDE DEF a, b, max
<1>4. /\ a * d \in Nat /\ a * e \in Nat /\ b * d \in Nat /\ b * e \in Nat
      /\ a * (d + e) = a * d + a * e /\ b * (d + e) = b * d + b * e
  BY <1>2
<1>5. CASE a >= b
  <2>1. b * e <= a * e
    BY <1>2, <1>5
  <2>2. n + b * e <= max + a * (d + e)
    BY <1>2, <1>3, <1>4, <2>1
  <2> QED
    BY <2>2 DEF Covers, a, b, max
<1>6. CASE b >= a
  <2>1. a * d <= b * d
    BY <1>2, <1>6
  <2>2. n + b * e <= max + b * (d + e)
    BY <1>2, <1>3, <1>4, <2>1
  <2> QED
    BY <2>2 DEF Covers, b, max
<1> QED
  BY <1>2, <1>5, <1>6

(* After the last charge nothing is added to a sum.                        *)
LEMMA ChargedTail ==
  ASSUME XInv, QuietSince, NEW m \in Meters,
         NEW t1 \in 0..MaxTime, NEW s \in 0..MaxTime, NEW t2 \in 0..MaxTime,
         PrevTime(m) <= s, s <= t2
  PROVE  ChargedIn(charged, m, t1, t2) = ChargedIn(charged, m, t1, s)
<1> DEFINE S == t1..t2
           R == t1..s
           f == charged[m]
<1>1. IsFiniteSet(S) /\ (\A t \in S : f[t] \in Int)
  <2>1. IsFiniteSet(S) /\ \A t \in S : f[t] \in Nat
    BY ChargedSums, Zenon
  <2> QED
    BY <2>1
<1>2. R \in SUBSET S
  <2>1. t1 \in Int /\ s \in Int /\ t2 \in Int /\ s <= t2
    BY BancorXAssumption
  <2>2. \A t \in R : t \in S
    BY <2>1
  <2> QED
    BY <2>2
<1>3. PrevTime(m) \in 0..MaxTime
  BY DEF PrevTime, XInv, TypeOK, Settings
<1>4. ASSUME NEW t \in S \ R PROVE f[t] = 0
  <2>1. t \in 0..MaxTime /\ t > PrevTime(m)
    BY <1>3, BancorXAssumption
  <2> QED
    BY <2>1 DEF QuietSince
<1> HIDE DEF S, R, f
<1>5. SumFunctionOnSet(f, S) = SumFunctionOnSet(f, R)
  BY <1>1, <1>2, <1>4, SumZeroOutside
<1> QED
  BY <1>5 DEF ChargedIn, S, R, f

(* A charge of what is left keeps the rate.                                *)
LEMMA ChargeKeepsRate ==
  ASSUME XInv, RateInv, NEW m \in Meters, NEW q \in Int, Charge(m, q), IsSet,
         Unsigned(q) <= Left(m),
         PrevLimit(m)' = Left(m) - Unsigned(q), PrevTime(m)' = now,
         \A n \in Meters : n # m =>
           PrevLimit(n)' = PrevLimit(n) /\ PrevTime(n)' = PrevTime(n),
         \A n \in Meters : MaxLimit(n)' = MaxLimit(n),
         settings'.limit_inc = settings.limit_inc,
         IsSet'
  PROVE  RateInv'
<1> DEFINE u == Unsigned(q)
           T == PrevTime(m)
           inc == settings.limit_inc
<1>1. /\ MaxTime \in Nat /\ now \in 0..MaxTime /\ T \in 0..MaxTime /\ T <= now
      /\ inc \in Nat /\ PrevLimit(m) \in Nat
  BY BancorXAssumption DEF XInv, TypeOK, Settings, PrevTime, PrevLimit
<1>2. /\ Left(m) \in Nat /\ Left(m) <= MaxLimit(m)
      /\ Left(m) <= PrevLimit(m) + inc * (now - T)
  <2>1. CASE m = "issue"
    BY <2>1, LimitFacts DEF Left, PrevLimit, PrevTime, MaxLimit
  <2>2. CASE m = "destroy"
    BY <2>2, LimitFacts DEF Left, PrevLimit, PrevTime, MaxLimit
  <2> QED
    BY <2>1, <2>2 DEF Meters
<1>3. u \in Nat
  BY UnsignedFacts
<1>4. ASSUME NEW t1 \in 0..MaxTime, NEW t2 \in 0..MaxTime
      PROVE  /\ ChargedIn(charged, m, t1, t2) \in Nat
             /\ ChargedIn(charged', m, t1, t2) =
                  ChargedIn(charged, m, t1, t2) + (IF now \in t1..t2 THEN u ELSE 0)
  BY ChargedSums, ChargeChangesSums DEF ChargedIn
<1>5. \A n \in Meters : n # m => charged'[n] = charged[n]
  BY ChargeFacts
<1> HIDE DEF u, inc, T
<1>6. QuietSince'
  <2> SUFFICES ASSUME NEW n \in Meters, NEW t \in 0..MaxTime, t > PrevTime(n)'
               PROVE  charged'[n][t] = 0
    BY DEF QuietSince
  <2>1. CASE n = m
    <3>1. t > T /\ t # now
      BY <1>1, <2>1
    <3>2. charged[m][t] = 0
      BY <3>1 DEF RateInv, QuietSince, T
    <3> QED
      BY <2>1, <3>1, <3>2, ChargeFacts
  <2>2. CASE n # m
    BY <1>5, <2>2 DEF RateInv, QuietSince
  <2> QED
    BY <2>1, <2>2
<1>7. Unused'
  BY DEF Unused
<1>8. CurrentIsChosen'
  BY DEF RateInv, CurrentIsChosen, Maximum
<1>9. ASSUME NEW t1 \in 0..MaxTime, t1 <= now
      PROVE  Covers(m, ChargedIn(charged', m, t1, now) + (Left(m) - u), now - t1)
  <2>1. ChargedIn(charged', m, t1, now) + (Left(m) - u) = ChargedIn(charged, m, t1, now) + Left(m)
    BY <1>1, <1>2, <1>3, <1>4, <1>9
  <2>2. PICK k \in Chosen : inc = k.limit_inc /\ MaxLimit(m) = Maximum(m, k)
    BY DEF RateInv, CurrentIsChosen, inc
  <2>3. CASE t1 > T
    <3>1. ChargedIn(charged, m, t1, now) = 0
      <4> DEFINE S == t1..now
                 f == charged[m]
      <4>1. IsFiniteSet(S) /\ (\A t \in S : f[t] \in Nat)
        BY <1>1, ChargedSums
      <4>2. ASSUME NEW t \in S PROVE f[t] = 0
        <5>1. t \in 0..MaxTime /\ t > T
          BY <1>1, <2>3
        <5> QED
          BY <5>1 DEF RateInv, QuietSince, T
      <4> HIDE DEF S, f
      <4>3. SumFunctionOnSet(f, S) = 0
        BY <4>1, <4>2, SumZero
      <4> QED
        BY <4>3 DEF ChargedIn, S, f
    <3>2. Maximum(m, k) \in Nat /\ k.limit_inc \in Nat
      BY ChosenTypes
    <3>3. k.limit_inc * (now - t1) \in Nat
      BY <1>1, <1>9, <3>2
    <3>4. ChargedIn(charged, m, t1, now) + Left(m) <= Maximum(m, k) + k.limit_inc * (now - t1)
      BY <1>2, <2>2, <3>1, <3>2, <3>3
    <3> QED
      BY <2>1, <3>4 DEF Covers
  <2>4. CASE t1 <= T
    <3>1. ChargedIn(charged, m, t1, now) = ChargedIn(charged, m, t1, T)
      BY <1>1, ChargedTail DEF RateInv, T
    <3>2. Covers(m, ChargedIn(charged, m, t1, T) + PrevLimit(m), T - t1)
      BY <2>4 DEF RateInv, Covered, T
    <3>3. T - t1 \in Nat /\ now - T \in Nat /\ (T - t1) + (now - T) = now - t1
      BY <1>1, <2>4
    <3>4. ChargedIn(charged, m, t1, T) \in Nat /\ ChargedIn(charged, m, t1, T) + PrevLimit(m) \in Int
      BY <1>1, <1>4
    <3>5. Covers(m, ChargedIn(charged, m, t1, T) + PrevLimit(m) + k.limit_inc * (now - T), now - t1)
      BY <3>2, <3>3, <3>4, CoversRegrown
    <3>6. inc * (now - T) \in Nat
      BY <1>1, <3>3
    <3>7. ChargedIn(charged, m, t1, now) + Left(m)
            <= ChargedIn(charged, m, t1, T) + PrevLimit(m) + k.limit_inc * (now - T)
      BY <1>1, <1>2, <2>2, <3>1, <3>4, <3>6
    <3>8. PICK p \in Chosen, i \in Chosen :
            ChargedIn(charged, m, t1, T) + PrevLimit(m) + k.limit_inc * (now - T)
              <= Maximum(m, p) + i.limit_inc * (now - t1)
      BY <3>5 DEF Covers
    <3>9. Maximum(m, p) \in Nat /\ i.limit_inc \in Nat /\ now - t1 \in Nat
      BY <1>1, <1>9, ChosenTypes
    <3>10. i.limit_inc * (now - t1) \in Nat
      BY <3>9
    <3>11. ChargedIn(charged, m, t1, now) + Left(m) <= Maximum(m, p) + i.limit_inc * (now - t1)
      BY <1>2, <2>2, <3>1, <3>4, <3>6, <3>7, <3>8, <3>9, <3>10, <1>1
    <3> QED
      BY <2>1, <3>11 DEF Covers
  <2> QED
    BY <1>1, <2>3, <2>4
<1>10. Covered'
  <2> SUFFICES ASSUME NEW n \in Meters, NEW t1 \in 0..MaxTime, t1 <= PrevTime(n)'
               PROVE  Covers(n, ChargedIn(charged', n, t1, PrevTime(n)') + PrevLimit(n)',
                             PrevTime(n)' - t1)
    BY DEF Covered, Covers, Maximum
  <2>1. CASE n = m
    <3>1. ChargedIn(charged', n, t1, PrevTime(n)') = ChargedIn(charged', m, t1, now)
      BY <2>1 DEF ChargedIn
    <3> QED
      BY <1>9, <2>1, <3>1 DEF u
  <2>2. CASE n # m
    <3>1. /\ PrevTime(n)' = PrevTime(n) /\ PrevLimit(n)' = PrevLimit(n)
          /\ ChargedIn(charged', n, t1, PrevTime(n)') = ChargedIn(charged, n, t1, PrevTime(n))
      BY <1>5, <2>2 DEF ChargedIn
    <3> QED
      BY <2>2, <3>1 DEF RateInv, Covered
  <2> QED
    BY <2>1, <2>2
<1>11. RateLimited'
  <2> SUFFICES ASSUME NEW n \in Meters, NEW t1 \in 0..MaxTime, NEW t2 \in 0..MaxTime,
                      t1 <= t2
               PROVE  Covers(n, ChargedIn(charged', n, t1, t2), t2 - t1)
    BY DEF RateLimited, Covers, ChargedIn, Maximum
  <2>0. Covers(n, ChargedIn(charged, n, t1, t2), t2 - t1)
    BY DEF RateInv, RateLimited, Covers, ChargedIn
  <2>1. CASE n # m
    BY <1>5, <2>0, <2>1 DEF ChargedIn
  <2>2. CASE n = m /\ now \notin t1..t2
    BY <1>4, <2>0, <2>2
  <2>3. CASE n = m /\ now \in t1..t2
    <3>1. t1 <= now /\ now <= t2
      BY <2>3
    <3>2. ChargedIn(charged, m, t1, t2) = ChargedIn(charged, m, t1, now)
      BY <1>1, <3>1, ChargedTail DEF RateInv, T
    <3>3. ChargedIn(charged', m, t1, t2) = ChargedIn(charged', m, t1, now)
      BY <1>1, <1>4, <2>3, <3>1, <3>2
    <3>4. ChargedIn(charged', m, t1, now) \in Nat
      BY <1>1, <1>3, <1>4
    <3>5. PICK p \in Chosen, i \in Chosen :
            ChargedIn(charged', m, t1, now) + (Left(m) - u) <= Maximum(m, p) + i.limit_inc * (now - t1)
      BY <1>9, <3>1 DEF Covers
    <3>6. Maximum(m, p) \in Nat /\ i.limit_inc \in Nat /\ now - t1 \in Nat
      BY <1>1, <3>1, ChosenTypes
    <3>7. i.limit_inc * (now - t1) \in Nat
      BY <3>6
    <3>8. u <= Left(m)
      BY DEF u
    <3>9. ChargedIn(charged', m, t1, now) <= Maximum(m, p) + i.limit_inc * (now - t1)
      BY <1>2, <1>3, <3>4, <3>5, <3>6, <3>7, <3>8
    <3>10. Covers(m, ChargedIn(charged', m, t1, now), now - t1)
      BY <3>9 DEF Covers
    <3>11. t2 - t1 \in Nat /\ now - t1 <= t2 - t1
      BY <1>1, <3>1
    <3> QED
      BY <2>3, <3>3, <3>4, <3>6, <3>10, <3>11, CoversLonger
  <2> QED
    BY <2>1, <2>2, <2>3
<1> QED
  BY <1>6, <1>7, <1>8, <1>10, <1>11 DEF RateInv

LEMMA ReportKeepsRate ==
  ASSUME XInv, RateInv, NEW r \in Reporter, NEW tx \in TxId,
         NEW rep \in Reports[tx], ReportTx(r, tx, rep)
  PROVE  RateInv'
<1>1. rep.quantity \in Int /\ IsSet
  BY ReportCharges DEF ReportTx
<1>2. CASE FirstReport(tx, rep)
  <2> DEFINE left == IssueLimit - Unsigned(rep.quantity)
  <2>1. settings \in Settings
    BY DEF XInv, TypeOK
  <2>2. settings' = [settings EXCEPT !.prev_issue_limit = left, !.prev_issue_time = now]
    BY <1>2 DEF FirstReport
  <2> HIDE DEF left
  <2>3. settings' = [rpt_enabled |-> settings.rpt_enabled,
                     xt_enabled |-> settings.xt_enabled,
                     min_reporters |-> settings.min_reporters,
                     min_limit |-> settings.min_limit,
                     limit_inc |-> settings.limit_inc,
                     max_issue_limit |-> settings.max_issue_limit,
                     max_destroy_limit |-> settings.max_destroy_limit,
                     prev_issue_limit |-> left,
                     prev_issue_time |-> now,
                     prev_destroy_limit |-> settings.prev_destroy_limit,
                     prev_destroy_time |-> settings.prev_destroy_time]
    BY <2>1, <2>2 DEF Settings
  <2>4. /\ PrevLimit("issue")' = left /\ PrevTime("issue")' = now
        /\ \A n \in Meters : n # "issue" =>
             PrevLimit(n)' = PrevLimit(n) /\ PrevTime(n)' = PrevTime(n)
        /\ \A n \in Meters : MaxLimit(n)' = MaxLimit(n)
        /\ settings'.limit_inc = settings.limit_inc
        /\ IsSet'
    BY <1>1, <2>3 DEF PrevLimit, PrevTime, MaxLimit, IsSet
  <2>5. /\ Charge("issue", rep.quantity)
        /\ Unsigned(rep.quantity) <= Left("issue")
        /\ left = Left("issue") - Unsigned(rep.quantity)
    BY <1>2 DEF FirstReport, Left, left
  <2>6. "issue" \in Meters
    BY DEF Meters
  <2> QED
    BY <1>1, <2>4, <2>5, <2>6, ChargeKeepsRate
<1>3. CASE LaterReport(r, tx, rep)
  BY <1>3 DEF LaterReport, RateInv, QuietSince, Unused, IsSet, CurrentIsChosen,
     Covered, RateLimited, PrevLimit, PrevTime, MaxLimit
<1> QED
  BY <1>2, <1>3 DEF ReportTx

LEMMA MoveKeepsRate ==
  ASSUME XInv, RateInv, NEW from \in Account, NEW to \in Account,
         NEW q \in Int, Move(from, to, q)
  PROVE  RateInv'
<1>1. CASE XTransfer(from, q)
  <2> DEFINE left == DestroyLimit - Unsigned(q)
  <2>1. settings \in Settings /\ IsSet
    BY <1>1 DEF XInv, TypeOK, XTransfer
  <2>2. settings' = [settings EXCEPT !.prev_destroy_limit = left, !.prev_destroy_time = now]
    BY <1>1 DEF XTransfer
  <2> HIDE DEF left
  <2>3. settings' = [rpt_enabled |-> settings.rpt_enabled,
                     xt_enabled |-> settings.xt_enabled,
                     min_reporters |-> settings.min_reporters,
                     min_limit |-> settings.min_limit,
                     limit_inc |-> settings.limit_inc,
                     max_issue_limit |-> settings.max_issue_limit,
                     max_destroy_limit |-> settings.max_destroy_limit,
                     prev_issue_limit |-> settings.prev_issue_limit,
                     prev_issue_time |-> settings.prev_issue_time,
                     prev_destroy_limit |-> left,
                     prev_destroy_time |-> now]
    BY <2>1, <2>2 DEF Settings
  <2>4. /\ PrevLimit("destroy")' = left /\ PrevTime("destroy")' = now
        /\ \A n \in Meters : n # "destroy" =>
             PrevLimit(n)' = PrevLimit(n) /\ PrevTime(n)' = PrevTime(n)
        /\ \A n \in Meters : MaxLimit(n)' = MaxLimit(n)
        /\ settings'.limit_inc = settings.limit_inc
        /\ IsSet'
    BY <2>1, <2>3 DEF PrevLimit, PrevTime, MaxLimit, IsSet, Meters
  <2>5. /\ Charge("destroy", q)
        /\ Unsigned(q) <= Left("destroy")
        /\ left = Left("destroy") - Unsigned(q)
    BY <1>1 DEF XTransfer, Left, left
  <2>6. "destroy" \in Meters
    BY DEF Meters
  <2> QED
    BY <2>1, <2>4, <2>5, <2>6, ChargeKeepsRate
<1>2. CASE UNCHANGED <<settings, charged>>
  BY <1>2 DEF RateInv, QuietSince, Unused, IsSet, CurrentIsChosen,
     Covered, RateLimited, PrevLimit, PrevTime, MaxLimit
<1> QED
  BY <1>1, <1>2, MoveFacts

LEMMA AdministerKeepsRate ==
  ASSUME XInv, RateInv, Administer
  PROVE  RateInv'
<1>0. /\ settings \in Settings /\ charged' = charged
      /\ MaxTime \in Nat /\ now \in 0..MaxTime
  BY AdministerFacts, BancorXAssumption DEF Administered, XInv, TypeOK
<1>1. ASSUME NEW p \in Params, InitSettings(p) PROVE RateInv'
  <2>1. p \in Limits /\ p \in Chosen
    BY BancorXAssumption DEF Chosen
  <2>2. \A m \in Meters : \A t \in 0..MaxTime : charged[m][t] = 0
    BY <1>1 DEF RateInv, Unused, InitSettings
  <2>3. /\ \A m \in Meters : /\ PrevLimit(m)' = Maximum(m, p)
                            /\ PrevTime(m)' = now
                            /\ MaxLimit(m)' = Maximum(m, p)
        /\ settings'.limit_inc = p.limit_inc
        /\ settings'.min_reporters = p.min_reporters
    BY <1>1 DEF InitSettings, PrevLimit, PrevTime, MaxLimit, Maximum
  <2>4. QuietSince'
    BY <1>0, <2>2 DEF QuietSince
  <2>5. Unused'
    BY <1>0, <2>2 DEF Unused
  <2>6. CurrentIsChosen'
    BY <2>1, <2>3 DEF CurrentIsChosen, Maximum
  <2>7. Covered'
    <3> SUFFICES ASSUME NEW m \in Meters, NEW t1 \in 0..MaxTime, t1 <= now
                 PROVE  Covers(m, ChargedIn(charged, m, t1, now) + Maximum(m, p), now - t1)
      BY <1>0, <2>3 DEF Covered, Covers, Maximum
    <3> DEFINE S == t1..now
               f == charged[m]
    <3>1. IsFiniteSet(S) /\ (\A t \in S : t \in 0..MaxTime /\ f[t] \in Nat)
      BY <1>0, ChargedSums
    <3>2. \A t \in S : f[t] = 0
      BY <2>2, <3>1
    <3> HIDE DEF S, f
    <3>3. SumFunctionOnSet(f, S) = 0
      BY <3>1, <3>2, SumZero
    <3>4. Maximum(m, p) \in Nat /\ p.limit_inc \in Nat /\ now - t1 \in Nat
      BY <1>0, <2>1, ChosenTypes
    <3>5. p.limit_inc * (now - t1) \in Nat
      BY <3>4
    <3>6. ChargedIn(charged, m, t1, now) + Maximum(m, p)
            <= Maximum(m, p) + p.limit_inc * (now - t1)
      BY <3>3, <3>4, <3>5 DEF ChargedIn, S, f
    <3> QED
      BY <2>1, <3>6 DEF Covers
  <2>8. RateLimited'
    BY <1>0 DEF RateInv, RateLimited
  <2> QED
    BY <2>4, <2>5, <2>6, <2>7, <2>8 DEF RateInv
<1>2. ASSUME NEW p \in Params, Update(p) PROVE RateInv'
  <2>1. p \in Limits /\ p \in Chosen
    BY BancorXAssumption DEF Chosen
  <2>2. settings' = [rpt_enabled |-> settings.rpt_enabled,
                     xt_enabled |-> settings.xt_enabled,
                     min_reporters |-> p.min_reporters, min_limit |-> p.min_limit,
                     limit_inc |-> p.limit_inc,
                     max_issue_limit |-> p.max_issue_limit,
                     max_destroy_limit |-> p.max_destroy_limit,
                     prev_issue_limit |-> settings.prev_issue_limit,
                     prev_issue_time |-> settings.prev_issue_time,
                     prev_destroy_limit |-> settings.prev_destroy_limit,
                     prev_destroy_time |-> settings.prev_destroy_time]
    BY <1>0, <1>2, <2>1 DEF Update, Limits, Settings
  <2>3. /\ \A m \in Meters : /\ PrevLimit(m)' = PrevLimit(m)
                            /\ PrevTime(m)' = PrevTime(m)
                            /\ MaxLimit(m)' = Maximum(m, p)
        /\ settings'.limit_inc = p.limit_inc
        /\ settings'.min_reporters > 0
    BY <1>2, <2>2 DEF PrevLimit, PrevTime, MaxLimit, Maximum, Update, ValidLimits
  <2>4. QuietSince' /\ Covered' /\ RateLimited'
    BY <1>0, <2>3 DEF RateInv, QuietSince, Covered, RateLimited, Covers, Maximum
  <2>5. Unused'
    BY <2>3 DEF Unused, IsSet
  <2>6. CurrentIsChosen'
    BY <2>1, <2>3 DEF CurrentIsChosen, Maximum
  <2> QED
    BY <2>4, <2>5, <2>6 DEF RateInv
<1>3. ASSUME NEW on \in Switch, EnableRpt(on) \/ EnableXt(on) PROVE RateInv'
  <2>1. /\ \A m \in Meters : /\ PrevLimit(m)' = PrevLimit(m)
                            /\ PrevTime(m)' = PrevTime(m)
                            /\ MaxLimit(m)' = MaxLimit(m)
        /\ settings'.limit_inc = settings.limit_inc
        /\ settings'.min_reporters = settings.min_reporters
    BY <1>0, <1>3 DEF EnableRpt, EnableXt, Settings, PrevLimit, PrevTime, MaxLimit
  <2> QED
    BY <1>0, <2>1 DEF RateInv, QuietSince, Unused, IsSet, CurrentIsChosen,
       Covered, RateLimited, Covers, Maximum
<1>4. ASSUME UNCHANGED settings PROVE RateInv'
  BY <1>0, <1>4 DEF RateInv, QuietSince, Unused, IsSet, CurrentIsChosen,
     Covered, RateLimited, PrevLimit, PrevTime, MaxLimit
<1> QED
  BY <1>1, <1>2, <1>3, <1>4 DEF Administer, AddReporter, RmReporter

LEMMA NextRate == XInv /\ RateInv /\ [Next]_vars => RateInv'
<1> SUFFICES ASSUME XInv, RateInv, [Next]_vars PROVE RateInv'
  OBVIOUS
<1>1. ASSUME UNCHANGED <<settings, charged>> PROVE RateInv'
  BY <1>1 DEF RateInv, QuietSince, Unused, IsSet, CurrentIsChosen,
     Covered, RateLimited, PrevLimit, PrevTime, MaxLimit
<1>2. ASSUME NEW r \in Reporter, NEW tx \in TxId, NEW rep \in Reports[tx],
             ReportTx(r, tx, rep)
      PROVE  RateInv'
  BY <1>2, ReportKeepsRate
<1>3. ASSUME NEW a \in Account, NEW id \in DOMAIN amounts, ClearAmount(a, id)
      PROVE  RateInv'
  BY <1>1, <1>3 DEF ClearAmount
<1>4. ASSUME NEW a \in Account, NEW id \in DOMAIN amounts, NEW to \in Account,
             TransferById(a, to, id)
      PROVE  RateInv'
  <2>1. amounts[id].quantity \in Int
    BY DEF XInv, TypeOK
  <2> QED
    BY <1>4, <2>1, MoveKeepsRate DEF TransferById
<1>5. ASSUME NEW a \in Account, NEW to \in Account, NEW q \in Quantity, Transfer(a, to, q)
      PROVE  RateInv'
  BY <1>5, BancorXAssumption, MoveKeepsRate DEF Transfer
<1>6. CASE Administer
  BY <1>6, AdministerKeepsRate
<1>7. CASE Tick
  BY <1>1, <1>7 DEF Tick, tables
<1>8. CASE UNCHANGED vars
  BY <1>1, <1>8 DEF vars
<1> QED
  BY <1>2, <1>3, <1>4, <1>5, <1>6, <1>7, <1>8 DEF Next, Use

LEMMA InitRate == Init => RateInv
<1> SUFFICES ASSUME Init PROVE RateInv
  OBVIOUS
<1> DEFINE none == [limit_inc |-> 0, max_issue_limit |-> 0, max_destroy_limit |-> 0]
<1>0. XInv /\ MaxTime \in Nat
  BY InitXInv, BancorXAssumption
<1>1. \A m \in Meters : \A t \in 0..MaxTime : charged[m][t] = 0
  BY DEF Init
<1>2. /\ none \in Chosen /\ none.limit_inc = 0
      /\ \A m \in Meters : Maximum(m, none) = 0
  BY DEF Chosen, Maximum
<1>3. /\ settings.limit_inc = 0
      /\ \A m \in Meters : PrevLimit(m) = 0 /\ PrevTime(m) = 0 /\ MaxLimit(m) = 0
  BY DEF Init, PrevLimit, PrevTime, MaxLimit
<1> HIDE DEF none
<1>4. ASSUME NEW m \in Meters, NEW t1 \in 0..MaxTime, NEW t2 \in 0..MaxTime, t1 <= t2
      PROVE  ChargedIn(charged, m, t1, t2) = 0 /\ Covers(m, 0, t2 - t1)
  <2> DEFINE S == t1..t2
             f == charged[m]
  <2>1. IsFiniteSet(S) /\ (\A t \in S : t \in 0..MaxTime /\ f[t] \in Nat)
    BY <1>0, ChargedSums
  <2>2. \A t \in S : f[t] = 0
    BY <1>1, <2>1
  <2> HIDE DEF S, f
  <2>3. SumFunctionOnSet(f, S) = 0
    BY <2>1, <2>2, SumZero
  <2>4. t2 - t1 \in Int
    BY <1>0
  <2>5. 0 <= Maximum(m, none) + none.limit_inc * (t2 - t1)
    BY <1>2, <2>4
  <2> QED
    BY <1>2, <2>3, <2>5 DEF ChargedIn, Covers, S, f
<1>5. QuietSince /\ Unused
  BY <1>1 DEF QuietSince, Unused
<1>6. CurrentIsChosen
  BY <1>2, <1>3 DEF CurrentIsChosen
<1>7. Covered
  <2> SUFFICES ASSUME NEW m \in Meters, NEW t1 \in 0..MaxTime, t1 <= PrevTime(m)
               PROVE  Covers(m, ChargedIn(charged, m, t1, PrevTime(m)) + PrevLimit(m),
                             PrevTime(m) - t1)
    BY DEF Covered
  <2>1. PrevTime(m) \in 0..MaxTime /\ PrevTime(m) = 0 /\ PrevLimit(m) = 0
    BY <1>0, <1>3
  <2> QED
    BY <1>4, <2>1
<1>8. RateLimited
  BY <1>4 DEF RateLimited, ChargedIn, Covers
<1> QED
  BY <1>5, <1>6, <1>7, <1>8 DEF RateInv

(* In no interval is a limit charged more than a maximum and what regrew:  *)
(* for every clock, every set of limits and every order of updates.        *)
THEOREM BancorXRateLimited == Spec => []RateLimited
<1>1. XInv /\ RateInv => RateLimited
  BY DEF RateInv
<1> QED
  BY <1>1, InitRate, NextRate, BancorXInvariant, PTL DEF Spec
=============================================================================
