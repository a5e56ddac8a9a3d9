------------------------- MODULE TokenLedgerProofs -------------------------
(***************************************************************************)
(* Every token action keeps a ledger in order (LedgerOK).  These lemmas    *)
(* are about the operators of TokenLedger, so they serve Token and every   *)
(* contract that sends token actions inline.                               *)
(***************************************************************************)
EXTENDS TokenLedger, SumLemmas, TLAPS

LEMMA TotalBalanceType ==
  ASSUME NEW L \in Ledger, NEW s \in Symbol
  PROVE  TotalBalance(L, s) \in Int
<1>1. L.balance[s] \in [Account -> Int]
  BY DEF Ledger
<1> QED
  BY <1>1, AccountAssumption, SumType DEF TotalBalance

(* Adding q (of either sign) to one balance adds q to the total of that    *)
(* symbol and to no other.                                                 *)
LEMMA TotalBalanceChange ==
  ASSUME NEW L \in Ledger, NEW M \in Ledger,
         NEW a \in Account, NEW s \in Symbol, NEW q \in Int,
         M.balance = Credited(L.balance, a, s, q)
  PROVE  \A t \in Symbol :
           TotalBalance(M, t) = TotalBalance(L, t) + (IF t = s THEN q ELSE 0)
<1> SUFFICES ASSUME NEW t \in Symbol
             PROVE  TotalBalance(M, t) = TotalBalance(L, t) + (IF t = s THEN q ELSE 0)
  OBVIOUS
<1>1. L.balance \in [Symbol -> [Account -> Int]] /\ M.balance \in [Symbol -> [Account -> Int]]
  BY DEF Ledger
<1>2. TotalBalance(L, t) \in Int
  BY TotalBalanceType
<1>3. CASE t = s
  <2> DEFINE f == L.balance[s]
             g == M.balance[s]
  <2>1. (\A x \in Account : f[x] \in Int) /\ (\A x \in Account : g[x] \in Int)
    BY <1>1
  <2>2. g[a] = f[a] + q /\ \A x \in Account : x # a => g[x] = f[x]
    BY <1>1 DEF Credited
  <2> HIDE DEF f, g
  <2>3. SumFunctionOnSet(g, Account) = SumFunctionOnSet(f, Account) + g[a] - f[a]
    BY <2>1, <2>2, AccountAssumption, SumExcept
  <2>4. SumFunctionOnSet(f, Account) \in Int /\ f[a] \in Int
    BY <2>1, AccountAssumption, SumType
  <2>5. SumFunctionOnSet(g, Account) = SumFunctionOnSet(f, Account) + q
    BY <2>2, <2>3, <2>4
  <2> QED
    BY <1>3, <2>5 DEF TotalBalance, f, g
<1>4. CASE t # s
  <2>1. M.balance[t] = L.balance[t]
    BY <1>1, <1>4 DEF Credited
  <2> QED
    BY <1>2, <1>4, <2>1 DEF TotalBalance
<1> QED
  BY <1>3, <1>4

(* What add_balance, sub_balance and a change of supply do, field by field.*)
LEMMA LedgerIsRecord ==
  ASSUME NEW L \in Ledger
  PROVE  L = [issuer     |-> L.issuer,
              max_supply |-> L.max_supply,
              supply     |-> L.supply,
              rows       |-> L.rows,
              balance    |-> L.balance]
BY DEF Ledger

LEMMA AddBalanceFacts ==
  ASSUME NEW L \in Ledger, NEW a \in Account, NEW s \in Symbol, NEW q \in Int
  PROVE  /\ AddBalance(L, a, s, q) \in Ledger
         /\ AddBalance(L, a, s, q) =
              [issuer     |-> L.issuer,
               max_supply |-> L.max_supply,
               supply     |-> L.supply,
               rows       |-> [L.rows EXCEPT ![s] = @ \cup {a}],
               balance    |-> Credited(L.balance, a, s, q)]
<1> DEFINE b == Credited(L.balance, a, s, q)
           r == [L.rows EXCEPT ![s] = @ \cup {a}]
<1>1. b \in [Symbol -> [Account -> Int]] /\ r \in [Symbol -> SUBSET Account]
  BY DEF Ledger, Credited
<1>2. AddBalance(L, a, s, q) = [L EXCEPT !.balance = b, !.rows = r]
  BY DEF AddBalance, Ledger
<1> DEFINE M == AddBalance(L, a, s, q)
<1> HIDE DEF b, r, M
<1>3. /\ M \in Ledger /\ M.balance = b /\ M.rows = r
      /\ M.issuer = L.issuer /\ M.max_supply = L.max_supply /\ M.supply = L.supply
  BY <1>1, <1>2 DEF Ledger, M
<1> QED
  BY <1>3, LedgerIsRecord DEF b, r, M

LEMMA SubBalanceFacts ==
  ASSUME NEW L \in Ledger, NEW a \in Account, NEW s \in Symbol, NEW q \in Int
  PROVE  /\ SubBalance(L, a, s, q) \in Ledger
         /\ SubBalance(L, a, s, q) =
              [issuer     |-> L.issuer,
               max_supply |-> L.max_supply,
               supply     |-> L.supply,
               rows       |-> L.rows,
               balance    |-> Credited(L.balance, a, s, -q)]
<1> DEFINE b == Credited(L.balance, a, s, -q)
<1>1. b \in [Symbol -> [Account -> Int]]
  BY DEF Ledger, Credited
<1>2. SubBalance(L, a, s, q) = [L EXCEPT !.balance = b]
  BY DEF SubBalance, Ledger
<1> HIDE DEF b
<1>3. [L EXCEPT !.balance = b] =
        [issuer |-> L.issuer, max_supply |-> L.max_supply, supply |-> L.supply,
         rows |-> L.rows, balance |-> b]
  BY DEF Ledger
<1>4. SubBalance(L, a, s, q) \in Ledger
  BY <1>1, <1>2, <1>3 DEF Ledger
<1> QED
  BY <1>2, <1>3, <1>4 DEF b

LEMMA SupplyFacts ==
  ASSUME NEW L \in Ledger, NEW s \in Symbol, NEW n \in Int
  PROVE  /\ [L EXCEPT !.supply[s] = n] \in Ledger
         /\ [L EXCEPT !.supply[s] = n] =
              [issuer     |-> L.issuer,
               max_supply |-> L.max_supply,
               supply     |-> [L.supply EXCEPT ![s] = n],
               rows       |-> L.rows,
               balance    |-> L.balance]
<1> DEFINE u == [L.supply EXCEPT ![s] = n]
<1>1. u \in [Symbol -> Int]
  BY DEF Ledger
<1>2. [L EXCEPT !.supply[s] = n] = [L EXCEPT !.supply = u]
  BY DEF Ledger
<1> HIDE DEF u
<1>3. [L EXCEPT !.supply = u] =
        [issuer |-> L.issuer, max_supply |-> L.max_supply, supply |-> u,
         rows |-> L.rows, balance |-> L.balance]
  BY DEF Ledger
<1>4. [L EXCEPT !.supply[s] = n] \in Ledger
  BY <1>1, <1>2, <1>3 DEF Ledger
<1> QED
  BY <1>2, <1>3, <1>4 DEF u

(* No balance exceeds the total of its symbol, nor do two together.        *)
LEMMA BalanceBound ==
  ASSUME NEW L \in Ledger, Backed(L), Bounded(L), NEW s \in Symbol
  PROVE  /\ \A a \in Account : L.balance[s][a] <= L.supply[s]
         /\ \A a, b \in Account : a # b =>
              L.balance[s][a] + L.balance[s][b] <= L.supply[s]
<1> DEFINE f == L.balance[s]
<1>1. f \in [Account -> Int] /\ \A a \in Account : f[a] >= 0
  BY DEF Ledger, Bounded
<1>2. L.supply[s] = SumFunctionOnSet(f, Account)
  BY DEF Backed, TotalBalance
<1> HIDE DEF f
<1>3. /\ \A a \in Account : f[a] <= SumFunctionOnSet(f, Account)
      /\ \A a, b \in Account : a # b => f[a] + f[b] <= SumFunctionOnSet(f, Account)
  BY <1>1, AccountAssumption, SumBound
<1> QED
  BY <1>2, <1>3 DEF f

----------------------------------------------------------------------------
(* How each action changes the tables.                                     *)

LEMMA CreateFacts ==
  ASSUME NEW L \in Ledger, NEW iss \in Account, NEW s \in Symbol, NEW max \in Int
  PROVE  /\ AfterCreate(L, iss, s, max) \in Ledger
         /\ AfterCreate(L, iss, s, max) =
              [issuer     |-> [L.issuer EXCEPT ![s] = iss],
               max_supply |-> [L.max_supply EXCEPT ![s] = max],
               supply     |-> [L.supply EXCEPT ![s] = 0],
               rows       |-> L.rows,
               balance    |-> L.balance]
<1> DEFINE M == AfterCreate(L, iss, s, max)
           i == [L.issuer EXCEPT ![s] = iss]
           x == [L.max_supply EXCEPT ![s] = max]
           u == [L.supply EXCEPT ![s] = 0]
<1>1. /\ i \in [Symbol -> Account \cup {NoAccount}]
      /\ x \in [Symbol -> Int]
      /\ u \in [Symbol -> Int]
  BY DEF Ledger
<1>2. M = [L EXCEPT !.issuer = i, !.max_supply = x, !.supply = u]
  BY DEF AfterCreate, Ledger
<1> HIDE DEF M, i, x, u
<1>3. /\ M \in Ledger /\ M.issuer = i /\ M.max_supply = x /\ M.supply = u
      /\ M.balance = L.balance /\ M.rows = L.rows
  BY <1>1, <1>2 DEF Ledger
<1> QED
  BY <1>3, LedgerIsRecord DEF M, i, x, u

LEMMA CreateKeepsBalance ==
  ASSUME NEW L \in Ledger, NEW iss \in Account, NEW s \in Symbol, NEW max \in Int
  PROVE  AfterCreate(L, iss, s, max).balance = L.balance
BY DEF AfterCreate, Ledger

LEMMA IssueFacts ==
  ASSUME NEW L \in Ledger, NEW to \in Account, NEW s \in Symbol, NEW q \in Int
  PROVE  /\ AfterIssue(L, to, s, q) \in Ledger
         /\ AfterIssue(L, to, s, q) =
              [issuer     |-> L.issuer,
               max_supply |-> L.max_supply,
               supply     |-> [L.supply EXCEPT ![s] = L.supply[s] + q],
               rows       |-> [L.rows EXCEPT ![s] = @ \cup {to}],
               balance    |-> Credited(L.balance, to, s, q)]
<1> DEFINE n == L.supply[s] + q
           K == [L EXCEPT !.supply[s] = n]
<1>1. n \in Int
  BY DEF Ledger
<1>2. AfterIssue(L, to, s, q) = AddBalance(K, to, s, q)
  BY DEF AfterIssue
<1> HIDE DEF n
<1>3. K \in Ledger /\ K = [issuer     |-> L.issuer,
                           max_supply |-> L.max_supply,
                           supply     |-> [L.supply EXCEPT ![s] = n],
                           rows       |-> L.rows,
                           balance    |-> L.balance]
  BY <1>1, SupplyFacts
<1> HIDE DEF K
<1>4. /\ AddBalance(K, to, s, q) \in Ledger
      /\ AddBalance(K, to, s, q) =
           [issuer     |-> K.issuer,
            max_supply |-> K.max_supply,
            supply     |-> K.supply,
            rows       |-> [K.rows EXCEPT ![s] = @ \cup {to}],
            balance    |-> Credited(K.balance, to, s, q)]
  BY <1>3, AddBalanceFacts
<1>5. /\ K.issuer = L.issuer /\ K.max_supply = L.max_supply
      /\ K.supply = [L.supply EXCEPT ![s] = n]
      /\ K.rows = L.rows /\ K.balance = L.balance
  BY <1>3
<1> QED
  BY <1>2, <1>4, <1>5 DEF n

LEMMA RetireFacts ==
  ASSUME NEW L \in Ledger, NEW s \in Symbol, NEW q \in Int, L.issuer[s] \in Account
  PROVE  /\ AfterRetire(L, s, q) \in Ledger
         /\ AfterRetire(L, s, q) =
              [issuer     |-> L.issuer,
               max_supply |-> L.max_supply,
               supply     |-> [L.supply EXCEPT ![s] = L.supply[s] - q],
               rows       |-> L.rows,
               balance    |-> Credited(L.balance, L.issuer[s], s, -q)]
<1> DEFINE n == L.supply[s] - q
           K == [L EXCEPT !.supply[s] = n]
<1>1. n \in Int
  BY DEF Ledger
<1>2. AfterRetire(L, s, q) = SubBalance(K, L.issuer[s], s, q)
  BY DEF AfterRetire
<1> HIDE DEF n
<1>3. K \in Ledger /\ K = [issuer     |-> L.issuer,
                           max_supply |-> L.max_supply,
                           supply     |-> [L.supply EXCEPT ![s] = n],
                           rows       |-> L.rows,
                           balance    |-> L.balance]
  BY <1>1, SupplyFacts
<1> HIDE DEF K
<1>4. /\ SubBalance(K, L.issuer[s], s, q) \in Ledger
      /\ SubBalance(K, L.issuer[s], s, q) =
           [issuer     |-> K.issuer,
            max_supply |-> K.max_supply,
            supply     |-> K.supply,
            rows       |-> K.rows,
            balance    |-> Credited(K.balance, L.issuer[s], s, -q)]
  BY <1>3, SubBalanceFacts
<1>5. /\ K.issuer = L.issuer /\ K.max_supply = L.max_supply
      /\ K.supply = [L.supply EXCEPT ![s] = n]
      /\ K.rows = L.rows /\ K.balance = L.balance
  BY <1>3
<1> QED
  BY <1>2, <1>4, <1>5 DEF n

LEMMA TransferFacts ==
  ASSUME NEW L \in Ledger, NEW from \in Account, NEW to \in Account,
         NEW s \in Symbol, NEW q \in Int
  PROVE  /\ AfterTransfer(L, from, to, s, q) \in Ledger
         /\ AfterTransfer(L, from, to, s, q) =
              [issuer     |-> L.issuer,
               max_supply |-> L.max_supply,
               supply     |-> L.supply,
               rows       |-> [L.rows EXCEPT ![s] = @ \cup {to}],
               balance    |-> Credited(Credited(L.balance, from, s, -q), to, s, q)]
<1> DEFINE K == SubBalance(L, from, s, q)
<1>1. K \in Ledger /\ K = [issuer     |-> L.issuer,
                           max_supply |-> L.max_supply,
                           supply     |-> L.supply,
                           rows       |-> L.rows,
                           balance    |-> Credited(L.balance, from, s, -q)]
  BY SubBalanceFacts
<1>2. AfterTransfer(L, from, to, s, q) = AddBalance(K, to, s, q)
  BY DEF AfterTransfer
<1> HIDE DEF K
<1>3. /\ AddBalance(K, to, s, q) \in Ledger
      /\ AddBalance(K, to, s, q) =
           [issuer     |-> K.issuer,
            max_supply |-> K.max_supply,
            supply     |-> K.supply,
            rows       |-> [K.rows EXCEPT ![s] = @ \cup {to}],
            balance    |-> Credited(K.balance, to, s, q)]
  BY <1>1, AddBalanceFacts
<1>4. /\ K.issuer = L.issuer /\ K.max_supply = L.max_supply /\ K.supply = L.supply
      /\ K.rows = L.rows /\ K.balance = Credited(L.balance, from, s, -q)
  BY <1>1
<1> QED
  BY <1>2, <1>3, <1>4

LEMMA RowFacts ==
  ASSUME NEW L \in Ledger, NEW a \in Account, NEW s \in Symbol,
         NEW M \in {AfterOpen(L, a, s), AfterClose(L, a, s)}
  PROVE  /\ M \in Ledger
         /\ M.balance = L.balance
         /\ M.supply = L.supply
         /\ M.max_supply = L.max_supply
         /\ M.issuer = L.issuer
<1> DEFINE r == IF M = AfterOpen(L, a, s) THEN [L.rows EXCEPT ![s] = @ \cup {a}]
                                          ELSE [L.rows EXCEPT ![s] = @ \ {a}]
<1>1. r \in [Symbol -> SUBSET Account]
  BY DEF Ledger
<1>2. M = [L EXCEPT !.rows = r]
  BY DEF AfterOpen, AfterClose, Ledger
<1> HIDE DEF r
<1> QED
  BY <1>1, <1>2 DEF Ledger

(* Nothing is in circulation of a symbol that was never created.           *)
LEMMA UncreatedIsEmpty ==
  ASSUME NEW L, LedgerOK(L), NEW s \in Symbol, ~ Exists(L, s)
  PROVE  L.supply[s] = 0
<1> DEFINE f == L.balance[s]
<1>1. f \in [Account -> Int] /\ \A a \in Account : f[a] = 0
  BY DEF LedgerOK, Ledger, InRows
<1>2. SumFunctionOnSet(f, Account) = 0
  <2> HIDE DEF f
  <2> QED
    BY <1>1, AccountAssumption, SumZero
<1> QED
  BY <1>2 DEF LedgerOK, Backed, TotalBalance

----------------------------------------------------------------------------
LEMMA EmptyLedgerOK == LedgerOK(EmptyLedger)
<1>1. EmptyLedger \in Ledger
  BY DEF EmptyLedger, Ledger
<1>2. Backed(EmptyLedger)
  <2> SUFFICES ASSUME NEW s \in Symbol
               PROVE  EmptyLedger.supply[s] = TotalBalance(EmptyLedger, s)
    BY DEF Backed
  <2> DEFINE f == EmptyLedger.balance[s]
  <2>1. f \in [Account -> Int] /\ \A a \in Account : f[a] = 0
    BY DEF EmptyLedger
  <2> HIDE DEF f
  <2>2. SumFunctionOnSet(f, Account) = 0
    BY <2>1, AccountAssumption, SumZero
  <2>3. EmptyLedger.supply[s] = 0
    BY DEF EmptyLedger
  <2> QED
    BY <2>2, <2>3 DEF TotalBalance, f
<1>3. Bounded(EmptyLedger)
  BY MaxAmountAssumption DEF EmptyLedger, Bounded
<1>4. InRows(EmptyLedger)
  BY DEF EmptyLedger, InRows
<1> QED
  BY <1>1, <1>2, <1>3, <1>4 DEF LedgerOK

LEMMA CreateKeepsLedgerOK ==
  ASSUME NEW L, LedgerOK(L), NEW iss \in Account, NEW s \in Symbol, NEW max \in Int,
         CanCreate(L, s, max)
  PROVE  LedgerOK(AfterCreate(L, iss, s, max))
<1> DEFINE M == AfterCreate(L, iss, s, max)
<1> USE DEF LedgerOK
<1>2. /\ M \in Ledger
      /\ M.issuer = [L.issuer EXCEPT ![s] = iss]
      /\ M.max_supply = [L.max_supply EXCEPT ![s] = max]
      /\ M.supply = [L.supply EXCEPT ![s] = 0]
      /\ M.balance = L.balance
      /\ M.rows = L.rows
  BY CreateFacts
<1> HIDE DEF M
<1>3. L.balance[s] \in [Account -> Int] /\ \A a \in Account : L.balance[s][a] = 0
  BY DEF Ledger, InRows, CanCreate
<1>4. TotalBalance(L, s) = 0
  BY <1>3, AccountAssumption, SumZero DEF TotalBalance
<1>5. Backed(M)
  <2> SUFFICES ASSUME NEW t \in Symbol PROVE M.supply[t] = TotalBalance(M, t)
    BY DEF Backed
  <2>1. TotalBalance(M, t) = TotalBalance(L, t)
    BY <1>2 DEF TotalBalance
  <2>2. L.supply[t] = TotalBalance(L, t)
    BY DEF Backed
  <2>3. M.supply[t] = IF t = s THEN 0 ELSE L.supply[t]
    BY <1>2 DEF Ledger
  <2> QED
    BY <1>4, <2>1, <2>2, <2>3
<1>6. Bounded(M)
  BY <1>2 DEF Ledger, Bounded, CanCreate, IsAmount
<1>7. InRows(M)
  <2>1. \A t \in Symbol : M.issuer[t] = IF t = s THEN iss ELSE L.issuer[t]
    BY <1>2 DEF Ledger
  <2>2. \A t \in Symbol : Exists(L, t) => Exists(M, t)
    BY <2>1, NoAccountAssumption DEF Exists
  <2> QED
    BY <1>2, <2>2 DEF InRows
<1> QED
  BY <1>2, <1>5, <1>6, <1>7 DEF M

LEMMA IssueKeepsLedgerOK ==
  ASSUME NEW L, LedgerOK(L), NEW to \in Account, NEW s \in Symbol, NEW q \in Int,
         CanIssue(L, to, s, q)
  PROVE  LedgerOK(AfterIssue(L, to, s, q))
<1> DEFINE M == AfterIssue(L, to, s, q)
<1> USE DEF LedgerOK
<1>2. /\ M \in Ledger
      /\ M.balance = Credited(L.balance, to, s, q)
      /\ M.supply = [L.supply EXCEPT ![s] = @ + q]
      /\ M.max_supply = L.max_supply
      /\ M.issuer = L.issuer
      /\ M.rows = [L.rows EXCEPT ![s] = @ \cup {to}]
  <2>1. M \in Ledger /\ M = [issuer     |-> L.issuer,
                           max_supply |-> L.max_supply,
                           supply     |-> [L.supply EXCEPT ![s] = L.supply[s] + q],
                           rows       |-> [L.rows EXCEPT ![s] = @ \cup {to}],
                           balance    |-> Credited(L.balance, to, s, q)]
    BY IssueFacts
  <2> HIDE DEF M
  <2> QED
    BY <2>1
<1> HIDE DEF M
<1>3. Backed(M)
  <2> SUFFICES ASSUME NEW t \in Symbol PROVE M.supply[t] = TotalBalance(M, t)
    BY DEF Backed
  <2>1. TotalBalance(M, t) = TotalBalance(L, t) + (IF t = s THEN q ELSE 0)
    BY <1>2, TotalBalanceChange
  <2>2. L.supply[t] = TotalBalance(L, t)
    BY DEF Backed
  <2>3. M.supply[t] = L.supply[t] + (IF t = s THEN q ELSE 0)
    BY <1>2 DEF Ledger
  <2> QED
    BY <2>1, <2>2, <2>3
<1>4. Bounded(M)
  BY <1>2 DEF Credited, Ledger, Bounded, CanIssue
<1>5. InRows(M)
  BY <1>2 DEF Credited, Ledger, InRows, CanIssue, Exists
<1> QED
  BY <1>2, <1>3, <1>4, <1>5 DEF M

(* The supply stays non-negative although retire does not check it: the    *)
(* issuer cannot hold more than there is.                                  *)
LEMMA RetireKeepsLedgerOK ==
  ASSUME NEW L, LedgerOK(L), NEW s \in Symbol, NEW q \in Int, CanRetire(L, s, q)
  PROVE  LedgerOK(AfterRetire(L, s, q))
<1> DEFINE a == L.issuer[s]
           M == AfterRetire(L, s, q)
<1> USE DEF LedgerOK
<1>1. a \in Account
  BY DEF Ledger, CanRetire, Exists
<1>3. /\ M \in Ledger
      /\ M.balance = Credited(L.balance, a, s, -q)
      /\ M.supply = [L.supply EXCEPT ![s] = @ - q]
      /\ M.max_supply = L.max_supply
      /\ M.issuer = L.issuer
      /\ M.rows = L.rows
  BY <1>1, RetireFacts
<1> HIDE DEF M
<1>4. q > 0 /\ L.balance[s][a] >= q /\ L.balance[s][a] <= L.supply[s]
  BY <1>1, BalanceBound DEF CanRetire, CanSub
<1> HIDE DEF a
<1>5. Backed(M)
  <2> SUFFICES ASSUME NEW t \in Symbol PROVE M.supply[t] = TotalBalance(M, t)
    BY DEF Backed
  <2>1. TotalBalance(M, t) = TotalBalance(L, t) + (IF t = s THEN -q ELSE 0)
    <3> DEFINE d == -q
    <3>1. d \in Int /\ L \in Ledger /\ M.balance = Credited(L.balance, a, s, d)
      BY <1>3
    <3> HIDE DEF d
    <3>2. \A r \in Symbol : TotalBalance(M, r) = TotalBalance(L, r) + (IF r = s THEN d ELSE 0)
      BY <1>1, <1>3, <3>1, TotalBalanceChange
    <3> QED
      BY <3>2 DEF d
  <2>2. L.supply[t] = TotalBalance(L, t)
    BY DEF Backed
  <2>3. M.supply[t] = L.supply[t] + (IF t = s THEN -q ELSE 0)
    BY <1>3 DEF Ledger
  <2> QED
    BY <2>1, <2>2, <2>3
<1>6. Bounded(M)
  BY <1>1, <1>3, <1>4 DEF Credited, Ledger, Bounded
<1>7. InRows(M)
  <2>1. a \in L.rows[s]
    BY DEF CanRetire, CanSub, a
  <2> QED
    BY <1>1, <1>3, <2>1 DEF Credited, Ledger, InRows, Exists
<1> QED
  BY <1>3, <1>5, <1>6, <1>7 DEF M

LEMMA TransferKeepsLedgerOK ==
  ASSUME NEW L, LedgerOK(L), NEW from \in Account, NEW to \in Account,
         NEW s \in Symbol, NEW q \in Int, CanTransfer(L, from, to, s, q)
  PROVE  LedgerOK(AfterTransfer(L, from, to, s, q))
<1> DEFINE K == SubBalance(L, from, s, q)
           M == AfterTransfer(L, from, to, s, q)
<1> USE DEF LedgerOK
<1>1. K \in Ledger /\ K.balance = Credited(L.balance, from, s, -q)
  BY SubBalanceFacts
<1>2. /\ M \in Ledger
      /\ M.balance = Credited(Credited(L.balance, from, s, -q), to, s, q)
      /\ M.supply = L.supply
      /\ M.max_supply = L.max_supply
      /\ M.issuer = L.issuer
      /\ M.rows = [L.rows EXCEPT ![s] = @ \cup {to}]
  <2>1. M \in Ledger /\ M = [issuer     |-> L.issuer,
                           max_supply |-> L.max_supply,
                           supply     |-> L.supply,
                           rows       |-> [L.rows EXCEPT ![s] = @ \cup {to}],
                           balance    |-> Credited(Credited(L.balance, from, s, -q), to, s, q)]
    BY TransferFacts
  <2> HIDE DEF M
  <2> QED
    BY <2>1
<1>m. M.balance = Credited(K.balance, to, s, q)
  BY <1>1, <1>2
<1> HIDE DEF K, M
<1>3. Backed(M)
  <2> SUFFICES ASSUME NEW t \in Symbol PROVE M.supply[t] = TotalBalance(M, t)
    BY DEF Backed
  <2>1. TotalBalance(K, t) = TotalBalance(L, t) + (IF t = s THEN -q ELSE 0)
    BY <1>1, TotalBalanceChange
  <2>2. TotalBalance(M, t) = TotalBalance(K, t) + (IF t = s THEN q ELSE 0)
    BY <1>1, <1>2, <1>m, TotalBalanceChange
  <2>3. L.supply[t] = TotalBalance(L, t) /\ L.supply[t] \in Int
    BY DEF Backed, Ledger
  <2> QED
    BY <1>2, <2>1, <2>2, <2>3
<1>4. Bounded(M)
  <2>1. \A t \in Symbol, a \in Account : M.balance[t][a] >= 0
    BY <1>2 DEF Credited, Ledger, Bounded, CanTransfer, CanSub
  <2> QED
    BY <1>2, <2>1 DEF Bounded
<1>5. InRows(M)
  <2>1. from \in L.rows[s] /\ Exists(L, s)
    BY DEF CanTransfer, CanSub
  <2> QED
    BY <1>2, <2>1 DEF Credited, Ledger, InRows, Exists
<1> QED
  BY <1>2, <1>3, <1>4, <1>5 DEF M

LEMMA OpenKeepsLedgerOK ==
  ASSUME NEW L, LedgerOK(L), NEW a \in Account, NEW s \in Symbol, Exists(L, s)
  PROVE  LedgerOK(AfterOpen(L, a, s))
BY DEF LedgerOK, AfterOpen, Ledger, Backed, TotalBalance, Bounded, InRows, Exists

LEMMA CloseKeepsLedgerOK ==
  ASSUME NEW L, LedgerOK(L), NEW a \in Account, NEW s \in Symbol, CanClose(L, a, s)
  PROVE  LedgerOK(AfterClose(L, a, s))
BY DEF LedgerOK, AfterClose, CanClose, Ledger, Backed, TotalBalance, Bounded,
       InRows, Exists
=============================================================================
