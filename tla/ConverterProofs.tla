-------------------------- MODULE ConverterProofs --------------------------
(***************************************************************************)
(* Theorems about BancorConverter, for any converters, tokens, accounts    *)
(* and arguments of transactions: who may change the fee of a converter;   *)
(* that what the account of the contract holds covers what all converters  *)
(* have booked, whatever the formulas return; and, with what the formulas  *)
(* promise, that the value behind a smart token never falls and that no    *)
(* trade empties a reserve.                                                *)
(*                                                                         *)
(* Deposits are booked by symbol code; where two tokens share a code the   *)
(* books do fail (ReservesAreBacked), so that the theorems about them      *)
(* suppose CodesDiffer.                                                    *)
(***************************************************************************)
EXTENDS BancorConverter, TokenLedgerProofs, FormulaProofs

----------------------------------------------------------------------------
(* The fee.                                                                *)

(* A converter gets the feature "stake" only when a staking contract has   *)
(* been set: activate looks for it, and setsettings never takes it away.   *)
FeeInv ==
  /\ settings \in [max_fee : Nat, network : Account \cup {NoAccount},
                   staking : Account \cup {NoAccount}]
  /\ converters \in [Smart -> [owner : Account \cup {NoAccount}, fee : Nat,
                               stake : BOOLEAN]]
  /\ \A c \in Smart : converters[c].stake => settings.staking # NoAccount

FeeHolder(c) ==
  IF converters[c].stake THEN settings.staking ELSE converters[c].owner

FeeStep ==
  \A c \in Smart : IsConverter(c) =>
    /\ converters[c].stake =>
         settings.staking # NoAccount /\ settings'.staking = settings.staking
    /\ converters'[c].fee # converters[c].fee /\ IsConverter(c)' =>
         signer' = FeeHolder(c)

LEMMA InitFeeInv == Init => FeeInv
BY DEF Init, FeeInv, NoConverter

(* Actions that leave both tables alone.                                   *)
LEMMA FeeUntouched ==
  ASSUME FeeInv, UNCHANGED <<settings, converters>>
  PROVE  FeeInv' /\ FeeStep
BY DEF FeeInv, FeeStep, IsConverter

(* An action that writes the row of one converter.                         *)
LEMMA FeeConfigured ==
  ASSUME FeeInv, UNCHANGED settings, NEW c \in Smart,
         NEW row \in [owner : Account \cup {NoAccount}, fee : Nat, stake : BOOLEAN],
         converters' = [converters EXCEPT ![c] = row],
         row.stake => settings.staking # NoAccount,
         IsConverter(c) =>
           \/ row.fee = converters[c].fee
           \/ row.owner = NoAccount
           \/ signer' = FeeHolder(c)
  PROVE  FeeInv' /\ FeeStep
<1>1. FeeInv'
  BY DEF FeeInv
<1>2. FeeStep
  BY DEF FeeInv, FeeStep, IsConverter
<1> QED
  BY <1>1, <1>2

LEMMA NextFee == FeeInv /\ Next => FeeInv' /\ FeeStep
<1> SUFFICES ASSUME FeeInv, Next PROVE FeeInv' /\ FeeStep
  OBVIOUS
<1>1. ASSUME NEW auth \in Account, NEW p \in Params, SetSettings(auth, p)
      PROVE  FeeInv' /\ FeeStep
  <2>1. p \in Param
    BY ConverterAssumption
  <2>2. /\ settings' = p /\ UNCHANGED converters
        /\ settings.staking # NoAccount => p.staking = settings.staking
    BY <1>1 DEF SetSettings
  <2> QED
    BY <2>1, <2>2 DEF Param, FeeInv, FeeStep, IsConverter
<1>2. ASSUME NEW auth \in Account, NEW c \in Smart, NEW q \in Quantity,
             Create(auth, c, q)
      PROVE  FeeInv' /\ FeeStep
  <2>1. /\ converters' = [converters EXCEPT
                            ![c] = [owner |-> auth, fee |-> 0, stake |-> FALSE]]
        /\ UNCHANGED settings
        /\ ~ IsConverter(c)
    BY <1>2 DEF Create
  <2> QED
    BY <2>1, FeeConfigured
<1>3. ASSUME NEW auth \in Account, NEW c \in Smart, NEW a \in NewOwner,
             UpdateOwner(auth, c, a)
      PROVE  FeeInv' /\ FeeStep
  <2> DEFINE row == [converters[c] EXCEPT !.owner = a]
  <2>1. a \in Account
    BY ConverterAssumption
  <2>2. /\ row \in [owner : Account \cup {NoAccount}, fee : Nat, stake : BOOLEAN]
        /\ row.fee = converters[c].fee /\ row.stake = converters[c].stake
    BY <2>1 DEF FeeInv
  <2>3. converters' = [converters EXCEPT ![c] = row] /\ UNCHANGED settings
    BY <1>3 DEF UpdateOwner, Configure
  <2>4. row.stake => settings.staking # NoAccount
    BY <2>2 DEF FeeInv
  <2> HIDE DEF row
  <2> QED
    BY <2>2, <2>3, <2>4, FeeConfigured
<1>4. ASSUME NEW auth \in Account, NEW c \in Smart, NEW f \in Fee,
             UpdateFee(auth, c, f)
      PROVE  FeeInv' /\ FeeStep
  <2> DEFINE row == [converters[c] EXCEPT !.fee = f]
  <2>1. f \in Nat
    BY ConverterAssumption
  <2>2. /\ row \in [owner : Account \cup {NoAccount}, fee : Nat, stake : BOOLEAN]
        /\ row.stake = converters[c].stake
    BY <2>1 DEF FeeInv
  <2>3. /\ converters' = [converters EXCEPT ![c] = row] /\ UNCHANGED settings
        /\ signer' = FeeHolder(c)
    BY <1>4 DEF UpdateFee, Configure, FeeHolder
  <2>4. row.stake => settings.staking # NoAccount
    BY <2>2 DEF FeeInv
  <2> HIDE DEF row
  <2> QED
    BY <2>2, <2>3, <2>4, FeeConfigured
<1>5. ASSUME NEW auth \in Account, NEW c \in Smart, NEW on \in BOOLEAN,
             Activate(auth, c, on)
      PROVE  FeeInv' /\ FeeStep
  <2> DEFINE row == [converters[c] EXCEPT !.stake = on]
  <2>1. /\ row \in [owner : Account \cup {NoAccount}, fee : Nat, stake : BOOLEAN]
        /\ row.fee = converters[c].fee
    BY DEF FeeInv
  <2>2. /\ converters' = [converters EXCEPT ![c] = row] /\ UNCHANGED settings
        /\ settings.staking # NoAccount
    BY <1>5 DEF Activate, Configure
  <2> HIDE DEF row
  <2> QED
    BY <2>1, <2>2, FeeConfigured
<1>6. ASSUME NEW auth \in Account, NEW c \in Smart, DelConverter(auth, c)
      PROVE  FeeInv' /\ FeeStep
  <2>1. /\ converters' = [converters EXCEPT ![c] = NoConverter]
        /\ UNCHANGED settings
    BY <1>6 DEF DelConverter, Configure
  <2>2. /\ NoConverter \in [owner : Account \cup {NoAccount}, fee : Nat,
                            stake : BOOLEAN]
        /\ ~ NoConverter.stake /\ NoConverter.owner = NoAccount
    BY DEF NoConverter
  <2> QED
    BY <2>1, <2>2, FeeConfigured
<1>7. ASSUME NEW auth \in Account, NEW c \in Smart, NEW t \in ReserveToken,
             \/ \E w \in Weight : SetReserve(auth, c, t, w)
             \/ DelReserve(auth, c, t)
      PROVE  FeeInv' /\ FeeStep
  BY <1>7, FeeUntouched DEF SetReserve, DelReserve
<1>8. ASSUME NEW auth \in Account, Provide(auth)
      PROVE  FeeInv' /\ FeeStep
  BY <1>8, FeeUntouched DEF Provide, Fund, Liquidate, Deposit, Withdraw
<1>9. ASSUME Trade PROVE FeeInv' /\ FeeStep
  BY <1>9, FeeUntouched
     DEF Trade, ConvertToSmart, ConvertToReserve, ConvertAcross, ConvertFrame
<1>10. ASSUME NEW auth \in Account, NEW to \in Payee, NEW t \in Symbol,
              NEW q \in Quantity, Transfer(auth, to, t, q)
       PROVE  FeeInv' /\ FeeStep
  BY <1>10, FeeUntouched DEF Transfer
<1> QED
  BY <1>1, <1>2, <1>3, <1>4, <1>5, <1>6, <1>7, <1>8, <1>9, <1>10
     DEF Next, Administer

(* The fee of a converter is its owner's to change, and while the          *)
(* converter is staked the staking contract's alone, whatever owners,      *)
(* other providers and the administrator do in between.                    *)
THEOREM ConverterFeeAuthority == Spec => FeeAuthority
<1>1. FeeInv /\ UNCHANGED vars => FeeInv'
  BY FeeUntouched DEF vars
<1>2. FeeInv /\ [Next]_vars => FeeInv'
  BY <1>1, NextFee
<1>3. FeeInv /\ [Next]_vars => [FeeStep]_vars
  BY NextFee
<1> QED
  BY InitFeeInv, <1>2, <1>3, PTL DEF Spec, FeeAuthority, FeeStep, FeeHolder

----------------------------------------------------------------------------
(* The books.                                                              *)

(* No two tokens reserves may be made of have the same symbol code.        *)
CodesDiffer == \A t, u \in ReserveToken : CodeOf[t] = CodeOf[u] => t = u

----------------------------------------------------------------------------
(* What is booked, as a function of the tables.                            *)
BookedIn(balances, deposits, t) ==
  SumFunctionOnSet([c \in Smart |-> balances[c][t]], Smart)
    + SumFunctionOnSet([p \in Smart \X Account |-> deposits[p[1]][p[2]][CodeOf[t]]],
                       Smart \X Account)

Balances == [Smart -> [ReserveToken -> 0..MaxAmount]]
Deposits == [Smart -> [Account -> [Code -> 0..MaxAmount]]]

LEMMA FiniteBooks ==
  IsFiniteSet(Smart) /\ IsFiniteSet(Smart \X Account)
BY ConverterAssumption, AccountAssumption, FS_Product

(* Changing what one converter holds of a token, and what it has of one    *)
(* depositor, changes what is booked by the differences.                   *)
LEMMA BookedChange ==
  ASSUME NEW b \in Balances, NEW b2 \in Balances, NEW d \in Deposits, NEW d2 \in Deposits,
         NEW c \in Smart, NEW a \in Account, NEW t \in ReserveToken,
         \A e \in Smart : e # c => b2[e][t] = b[e][t],
         \A e \in Smart, x \in Account : (e # c \/ x # a) =>
           d2[e][x][CodeOf[t]] = d[e][x][CodeOf[t]]
  PROVE  /\ BookedIn(b, d, t) \in Int
         /\ BookedIn(b2, d2, t) = BookedIn(b, d, t) + b2[c][t] - b[c][t]
              + d2[c][a][CodeOf[t]] - d[c][a][CodeOf[t]]
<1> DEFINE k == CodeOf[t]
           P == Smart \X Account
           f == [e \in Smart |-> b[e][t]]
           f2 == [e \in Smart |-> b2[e][t]]
           g == [p \in P |-> d[p[1]][p[2]][k]]
           g2 == [p \in P |-> d2[p[1]][p[2]][k]]
           m == <<c, a>>
<1>1. k \in Code
  BY ConverterAssumption
<1>2. /\ \A e \in Smart : f[e] \in Int /\ f2[e] \in Int
      /\ \A e \in Smart : e # c => f2[e] = f[e]
      /\ f[c] = b[c][t] /\ f2[c] = b2[c][t]
  BY MaxAmountAssumption DEF Balances
<1>3. m \in P /\ g[m] = d[c][a][k] /\ g2[m] = d2[c][a][k]
  OBVIOUS
<1>4. ASSUME NEW p \in P
      PROVE  g[p] \in Int /\ g2[p] \in Int /\ (p # m => g2[p] = g[p])
  <2>1. PICK e \in Smart, x \in Account : p = <<e, x>>
    OBVIOUS
  <2>2. g[p] = d[e][x][k] /\ g2[p] = d2[e][x][k]
    BY <2>1
  <2>3. d[e][x][k] \in Int /\ d2[e][x][k] \in Int
    BY <1>1, MaxAmountAssumption DEF Deposits
  <2>4. p # m => e # c \/ x # a
    BY <2>1
  <2> QED
    BY <2>2, <2>3, <2>4
<1>5. IsFiniteSet(Smart) /\ IsFiniteSet(P)
  BY FiniteBooks
<1>6. /\ BookedIn(b, d, t) = SumFunctionOnSet(f, Smart) + SumFunctionOnSet(g, P)
      /\ BookedIn(b2, d2, t) = SumFunctionOnSet(f2, Smart) + SumFunctionOnSet(g2, P)
  BY DEF BookedIn
<1> HIDE DEF f, f2, g, g2, P, m
<1>7. SumFunctionOnSet(f2, Smart) = SumFunctionOnSet(f, Smart) + f2[c] - f[c]
  BY <1>2, <1>5, SumExcept
<1>8. SumFunctionOnSet(g2, P) = SumFunctionOnSet(g, P) + g2[m] - g[m]
  BY <1>3, <1>4, <1>5, SumExcept
<1>9. SumFunctionOnSet(f, Smart) \in Int /\ SumFunctionOnSet(g, P) \in Int
  BY <1>2, <1>4, <1>5, SumType
<1>10. f2[c] \in Int /\ f[c] \in Int /\ g2[m] \in Int /\ g[m] \in Int
  BY <1>2, <1>3, <1>4
<1> QED
  BY <1>2, <1>3, <1>6, <1>7, <1>8, <1>9, <1>10

----------------------------------------------------------------------------
(* What the account of the contract holds after each token action.         *)
Own(L, t) == L.balance[t][Self]

LEMMA TransferOwn ==
  ASSUME NEW L, LedgerOK(L), NEW from \in Account, NEW to \in Account,
         NEW s \in Symbol, NEW q, CanTransfer(L, from, to, s, q)
  PROVE  /\ q \in 1..MaxAmount /\ from # to
         /\ LedgerOK(AfterTransfer(L, from, to, s, q))
         /\ AfterTransfer(L, from, to, s, q).issuer = L.issuer
         /\ AfterTransfer(L, from, to, s, q).supply = L.supply
         /\ AfterTransfer(L, from, to, s, q).balance[s][to] = L.balance[s][to] + q
         /\ \A t \in Symbol : t # s =>
              AfterTransfer(L, from, to, s, q).balance[t] = L.balance[t]
         /\ Own(AfterTransfer(L, from, to, s, q), s) =
              Own(L, s) + (IF to = Self THEN q ELSE IF from = Self THEN -q ELSE 0)
<1> DEFINE M == AfterTransfer(L, from, to, s, q)
<1>1. q \in 1..MaxAmount /\ q \in Int /\ from # to
  BY MaxAmountAssumption DEF CanTransfer, IsAmount
<1>2. LedgerOK(M)
  BY <1>1, TransferKeepsLedgerOK
<1>3. L \in Ledger /\ L.balance \in [Symbol -> [Account -> Int]]
  BY DEF LedgerOK, Ledger
<1>4. /\ M.issuer = L.issuer /\ M.supply = L.supply
      /\ M.balance = Credited(Credited(L.balance, from, s, -q), to, s, q)
  BY <1>1, <1>3, TransferFacts
<1> HIDE DEF M
<1>5. Self \in Account
  BY ConverterAssumption
<1>6. /\ M.balance[s][to] = L.balance[s][to] + q
      /\ \A t \in Symbol : t # s => M.balance[t] = L.balance[t]
      /\ M.balance[s][Self] = L.balance[s][Self] +
           (IF to = Self THEN q ELSE IF from = Self THEN -q ELSE 0)
  BY <1>1, <1>3, <1>4, <1>5 DEF Credited
<1> QED
  BY <1>1, <1>2, <1>4, <1>6 DEF M, Own

LEMMA IssueOwn ==
  ASSUME NEW L, LedgerOK(L), NEW s \in Symbol, NEW q, CanIssue(L, Self, s, q)
  PROVE  /\ q \in 1..MaxAmount
         /\ LedgerOK(AfterIssue(L, Self, s, q))
         /\ AfterIssue(L, Self, s, q).issuer = L.issuer
         /\ \A t \in Symbol : t # s =>
              AfterIssue(L, Self, s, q).balance[t] = L.balance[t]
         /\ Own(AfterIssue(L, Self, s, q), s) = Own(L, s) + q
<1> DEFINE M == AfterIssue(L, Self, s, q)
<1>1. q \in 1..MaxAmount /\ q \in Int /\ Self \in Account
  BY MaxAmountAssumption, ConverterAssumption DEF CanIssue, IsAmount
<1>2. LedgerOK(M)
  BY <1>1, IssueKeepsLedgerOK
<1>3. L \in Ledger /\ L.balance \in [Symbol -> [Account -> Int]]
  BY DEF LedgerOK, Ledger
<1>4. M.issuer = L.issuer /\ M.balance = Credited(L.balance, Self, s, q)
  BY <1>1, <1>3, IssueFacts
<1> HIDE DEF M
<1>5. /\ \A t \in Symbol : t # s => M.balance[t] = L.balance[t]
      /\ M.balance[s][Self] = L.balance[s][Self] + q
  BY <1>1, <1>3, <1>4 DEF Credited
<1> QED
  BY <1>1, <1>2, <1>4, <1>5 DEF M, Own

LEMMA RetireOwn ==
  ASSUME NEW L, LedgerOK(L), NEW s \in Symbol, NEW q, CanRetire(L, s, q),
         L.issuer[s] = Self
  PROVE  /\ q \in 1..MaxAmount
         /\ LedgerOK(AfterRetire(L, s, q))
         /\ AfterRetire(L, s, q).issuer = L.issuer
         /\ \A t \in Symbol : t # s => AfterRetire(L, s, q).balance[t] = L.balance[t]
         /\ Own(AfterRetire(L, s, q), s) = Own(L, s) - q
<1> DEFINE M == AfterRetire(L, s, q)
<1>1. q \in 1..MaxAmount /\ q \in Int /\ Self \in Account
  BY MaxAmountAssumption, ConverterAssumption DEF CanRetire, IsAmount
<1>2. LedgerOK(M)
  BY <1>1, RetireKeepsLedgerOK
<1>3. L \in Ledger /\ L.balance \in [Symbol -> [Account -> Int]]
  BY DEF LedgerOK, Ledger
<1>4. M.issuer = L.issuer /\ M.balance = Credited(L.balance, Self, s, -q)
  BY <1>1, <1>3, RetireFacts
<1> HIDE DEF M
<1>5. /\ \A t \in Symbol : t # s => M.balance[t] = L.balance[t]
      /\ M.balance[s][Self] = L.balance[s][Self] - q
  BY <1>1, <1>3, <1>4 DEF Credited
<1> QED
  BY <1>1, <1>2, <1>4, <1>5 DEF M, Own

(* What is issued to a user passes through the account and leaves nothing. *)
LEMMA IssueToOwn ==
  ASSUME NEW L, LedgerOK(L), NEW a \in Account, NEW s \in Symbol, NEW q,
         CanIssueTo(L, a, s, q)
  PROVE  /\ q \in 1..MaxAmount
         /\ LedgerOK(AfterIssueTo(L, a, s, q))
         /\ AfterIssueTo(L, a, s, q).issuer = L.issuer
         /\ \A t \in Symbol : Own(AfterIssueTo(L, a, s, q), t) = Own(L, t)
<1> DEFINE K == AfterIssue(L, Self, s, q)
           M == AfterTransfer(K, Self, a, s, q)
<1>1. CanIssue(L, Self, s, q) /\ CanTransfer(K, Self, a, s, q) /\ Self \in Account
  BY ConverterAssumption DEF CanIssueTo
<1>2. /\ q \in 1..MaxAmount /\ LedgerOK(K) /\ K.issuer = L.issuer
      /\ \A t \in Symbol : t # s => K.balance[t] = L.balance[t]
      /\ Own(K, s) = Own(L, s) + q
  BY <1>1, IssueOwn
<1> HIDE DEF K
<1>3. /\ LedgerOK(M) /\ M.issuer = K.issuer /\ Self # a
      /\ \A t \in Symbol : t # s => M.balance[t] = K.balance[t]
      /\ Own(M, s) = Own(K, s) + (IF a = Self THEN q ELSE IF Self = Self THEN -q ELSE 0)
  BY <1>1, <1>2, TransferOwn
<1>4. Own(L, s) \in Int /\ q \in Int
  BY <1>1, <1>2 DEF Own, LedgerOK, Ledger
<1>5. \A t \in Symbol : Own(M, t) = Own(L, t)
  BY <1>2, <1>3, <1>4 DEF Own
<1>6. AfterIssueTo(L, a, s, q) = M
  BY DEF AfterIssueTo, K, M
<1> QED
  BY <1>2, <1>3, <1>5, <1>6

----------------------------------------------------------------------------
(* The invariant: what the tables hold has its type, only a reserve has a  *)
(* balance, a converter is never a reserve of its own and has one reserve  *)
(* per symbol code, and the contract is the issuer of the smart tokens.    *)
BooksOK ==
  /\ reserve_weights \in [Smart -> [ReserveToken -> 0..PPM_RESOLUTION]]
  /\ reserve_balances \in Balances
  /\ accounts \in Deposits
  /\ \A c \in Smart, t \in ReserveToken :
       reserve_weights[c][t] = 0 => reserve_balances[c][t] = 0
  /\ \A c \in Smart : c \notin Reserves(c)
  /\ \A c \in Smart : \A t, u \in Reserves(c) : CodeOf[t] = CodeOf[u] => t = u

RolesOK ==
  /\ settings \in [max_fee : 0..MAX_FEE, network : Account \cup {NoAccount},
                   staking : Account \cup {NoAccount}]
  /\ converters \in [Smart -> [owner : Account \cup {NoAccount},
                               fee : 0..MAX_FEE, stake : BOOLEAN]]
  /\ signer \in Account \cup {NoAccount}

LedgersOK ==
  /\ LedgerOK(ledger)
  /\ \A c \in Smart : ledger.issuer[c] \in {Self, NoAccount}

CInv == BooksOK /\ RolesOK /\ LedgersOK

(* What a step may do to the deposits, the body of DepositorControls.      *)
DepositStep ==
  \A c \in Smart, a \in Account, t \in ReserveToken :
    accounts'[c][a][CodeOf[t]] < accounts[c][a][CodeOf[t]] =>
      /\ signer' = a
      /\ \/ ledger'.balance[t][a] > ledger.balance[t][a]
         \/ reserve_balances'[c][t] > reserve_balances[c][t]

LEMMA SurplusIs ==
  ASSUME BooksOK, LedgersOK
  PROVE  \A t \in ReserveToken :
           /\ Surplus(t) = Own(ledger, t) - BookedIn(reserve_balances, accounts, t)
           /\ Own(ledger, t) \in Int
           /\ BookedIn(reserve_balances, accounts, t) \in Int
<1> TAKE t \in ReserveToken
<1>1. Surplus(t) = Own(ledger, t) - BookedIn(reserve_balances, accounts, t)
  BY DEF Surplus, Booked, Own, BookedIn
<1>2. Own(ledger, t) \in Int
  BY ConverterAssumption DEF Own, LedgersOK, LedgerOK, Ledger
<1>3. BookedIn(reserve_balances, accounts, t) \in Int
  <2> DEFINE P == Smart \X Account
             f == [e \in Smart |-> reserve_balances[e][t]]
             g == [p \in P |-> accounts[p[1]][p[2]][CodeOf[t]]]
  <2>1. CodeOf[t] \in Code
    BY ConverterAssumption
  <2>2. (\A e \in Smart : f[e] \in Int) /\ (\A p \in P : g[p] \in Int)
    BY <2>1, MaxAmountAssumption DEF BooksOK, Balances, Deposits
  <2>3. IsFiniteSet(Smart) /\ IsFiniteSet(P)
    BY FiniteBooks
  <2>4. BookedIn(reserve_balances, accounts, t) =
          SumFunctionOnSet(f, Smart) + SumFunctionOnSet(g, P)
    BY DEF BookedIn
  <2> HIDE DEF f, g, P
  <2> QED
    BY <2>2, <2>3, <2>4, SumType
<1> QED
  BY <1>1, <1>2, <1>3

(* A step that changes the tables of one converter and one depositor.      *)
LEMMA SurplusChange ==
  ASSUME BooksOK, LedgersOK, BooksOK', LedgersOK',
         NEW c \in Smart, NEW a \in Account, NEW t \in ReserveToken,
         \A e \in Smart : e # c => reserve_balances'[e] = reserve_balances[e],
         \A e \in Smart : e # c => accounts'[e] = accounts[e],
         \A x \in Account : x # a => accounts'[c][x] = accounts[c][x]
  PROVE  /\ Surplus(t) \in Int
         /\ Surplus(t)' = Surplus(t) + Own(ledger', t) - Own(ledger, t)
              - (reserve_balances'[c][t] - reserve_balances[c][t])
              - (accounts'[c][a][CodeOf[t]] - accounts[c][a][CodeOf[t]])
<1> DEFINE k == CodeOf[t]
<1>1. /\ reserve_balances \in Balances /\ reserve_balances' \in Balances
      /\ accounts \in Deposits /\ accounts' \in Deposits /\ k \in Code
  BY ConverterAssumption DEF BooksOK
<1>2. BookedIn(reserve_balances', accounts', t) =
        BookedIn(reserve_balances, accounts, t)
          + reserve_balances'[c][t] - reserve_balances[c][t]
          + accounts'[c][a][k] - accounts[c][a][k]
  BY <1>1, BookedChange
<1>3. /\ Surplus(t) = Own(ledger, t) - BookedIn(reserve_balances, accounts, t)
      /\ Own(ledger, t) \in Int /\ BookedIn(reserve_balances, accounts, t) \in Int
  BY SurplusIs
<1>4. /\ Surplus(t)' = Own(ledger', t) - BookedIn(reserve_balances', accounts', t)
      /\ Own(ledger', t) \in Int
  <2>1. Own(ledger', t) \in Int
    BY ConverterAssumption DEF Own, LedgersOK, LedgerOK, Ledger
  <2>2. Surplus(t)' = Own(ledger', t) - BookedIn(reserve_balances', accounts', t)
    BY DEF Surplus, Booked, Own, BookedIn
  <2> QED
    BY <2>1, <2>2
<1>5. /\ reserve_balances'[c][t] \in Int /\ reserve_balances[c][t] \in Int
      /\ accounts'[c][a][k] \in Int /\ accounts[c][a][k] \in Int
  BY <1>1, MaxAmountAssumption DEF Balances, Deposits
<1> QED
  BY <1>2, <1>3, <1>4, <1>5

(* A step that leaves the books alone.                                     *)
LEMMA BooksUntouched ==
  ASSUME BooksOK, LedgersOK, LedgersOK',
         UNCHANGED <<reserve_weights, reserve_balances, accounts>>
  PROVE  /\ BooksOK'
         /\ DepositStep
         /\ \A t \in ReserveToken :
              /\ Surplus(t) \in Int
              /\ Surplus(t)' = Surplus(t) + Own(ledger', t) - Own(ledger, t)
<1>1. BooksOK'
  BY DEF BooksOK, Reserves
<1>2. DepositStep
  <2> SUFFICES ASSUME NEW c \in Smart, NEW a \in Account, NEW t \in ReserveToken
               PROVE  ~ (accounts'[c][a][CodeOf[t]] < accounts[c][a][CodeOf[t]])
    BY DEF DepositStep
  <2>1. accounts[c][a][CodeOf[t]] \in Int
    BY ConverterAssumption, MaxAmountAssumption DEF BooksOK, Deposits
  <2> QED
    BY <2>1
<1>3. ASSUME NEW t \in ReserveToken
      PROVE  /\ Surplus(t) \in Int
             /\ Surplus(t)' = Surplus(t) + Own(ledger', t) - Own(ledger, t)
  <2> DEFINE B == BookedIn(reserve_balances, accounts, t)
  <2>1. Surplus(t) = Own(ledger, t) - B /\ Own(ledger, t) \in Int /\ B \in Int
    BY SurplusIs
  <2>2. Surplus(t)' = Own(ledger', t) - B
    BY DEF Surplus, Booked, Own, BookedIn
  <2>3. Own(ledger', t) \in Int
    BY ConverterAssumption DEF Own, LedgersOK, LedgerOK, Ledger
  <2> HIDE DEF B
  <2> QED
    BY <2>1, <2>2, <2>3
<1> QED
  BY <1>1, <1>2, <1>3

----------------------------------------------------------------------------
(* What a step may do to the difference of coins and books, the body of    *)
(* BooksFollowCoins.                                                       *)
BooksStep ==
  \A t \in ReserveToken :
    Surplus(t)' # Surplus(t) =>
      /\ Surplus(t)' > Surplus(t)
      /\ \/ signer' \in SystemAccount
         \/ \E c \in Smart : t \in Reserves(c) \ Reserves(c)'

StepOK == CInv' /\ (CodesDiffer => BooksStep /\ DepositStep)

(* Steps that change neither books nor coins of the account.               *)
LEMMA NoCoinsMoved ==
  ASSUME CInv, RolesOK', LedgersOK',
         UNCHANGED <<reserve_weights, reserve_balances, accounts>>,
         \A t \in Symbol : Own(ledger', t) = Own(ledger, t)
  PROVE  StepOK
<1>1. /\ BooksOK' /\ DepositStep
      /\ \A t \in ReserveToken :
           /\ Surplus(t) \in Int
           /\ Surplus(t)' = Surplus(t) + Own(ledger', t) - Own(ledger, t)
  BY BooksUntouched DEF CInv
<1>2. \A t \in ReserveToken : Surplus(t)' = Surplus(t)
  <2> TAKE t \in ReserveToken
  <2>1. Own(ledger', t) = Own(ledger, t) /\ Own(ledger, t) \in Int
    BY ConverterAssumption, SurplusIs DEF CInv
  <2> QED
    BY <1>1, <2>1
<1> QED
  BY <1>1, <1>2 DEF StepOK, CInv, BooksStep

(* The row of a converter.                                                 *)
LEMMA Configured ==
  ASSUME CInv, NEW c \in Smart, NEW auth \in Account,
         NEW row \in [owner : Account \cup {NoAccount}, fee : 0..MAX_FEE, stake : BOOLEAN],
         Configure(c, auth, row)
  PROVE  StepOK
<1>1. RolesOK'
  BY DEF CInv, RolesOK, Configure
<1>2. ledger' = ledger /\ LedgersOK'
  BY DEF CInv, LedgersOK, Configure
<1> QED
  BY <1>1, <1>2, NoCoinsMoved DEF Configure, Own

LEMMA CreateKeeps ==
  ASSUME CInv, NEW auth \in Account, NEW c \in Smart, NEW q, Create(auth, c, q)
  PROVE  StepOK
<1> DEFINE K == AfterCreate(ledger, Self, c, DEFAULT_MAX_SUPPLY)
<1>1. /\ CanCreate(ledger, c, DEFAULT_MAX_SUPPLY)
      /\ CanIssueTo(K, auth, c, q)
      /\ ledger' = AfterIssueTo(K, auth, c, q)
  BY DEF Create
<1>2. /\ c \in Symbol /\ Self \in Account /\ DEFAULT_MAX_SUPPLY \in Int
      /\ \A t \in Smart : t \in Symbol
  BY ConverterAssumption, MaxAmountAssumption
<1>3. LedgerOK(ledger) /\ ledger \in Ledger
  BY DEF CInv, LedgersOK, LedgerOK
<1>4. LedgerOK(K)
  BY <1>1, <1>2, <1>3, CreateKeepsLedgerOK
<1>5. K.balance = ledger.balance /\ K.issuer = [ledger.issuer EXCEPT ![c] = Self]
  BY <1>2, <1>3, CreateFacts
<1> HIDE DEF K
<1>6. /\ LedgerOK(ledger') /\ ledger'.issuer = K.issuer
      /\ \A t \in Symbol : Own(ledger', t) = Own(K, t)
  BY <1>1, <1>2, <1>4, IssueToOwn
<1>7. LedgersOK'
  <2>1. ledger.issuer \in [Symbol -> Account \cup {NoAccount}]
    BY <1>3 DEF Ledger
  <2> QED
    BY <1>2, <1>5, <1>6, <2>1 DEF LedgersOK, CInv
<1>8. \A t \in Symbol : Own(ledger', t) = Own(ledger, t)
  BY <1>5, <1>6 DEF Own
<1>9. RolesOK'
  <2>1. 0 \in 0..MAX_FEE
    BY FormulaAssumption
  <2> QED
    BY <2>1 DEF CInv, RolesOK, Create
<1> QED
  BY <1>7, <1>8, <1>9, NoCoinsMoved DEF Create

LEMMA SetReserveKeeps ==
  ASSUME CInv, NEW auth \in Account, NEW c \in Smart, NEW t \in ReserveToken \ {c},
         NEW w \in Weight, SetReserve(auth, c, t, w)
  PROVE  StepOK
<1>1. w \in 1..PPM_RESOLUTION
  BY ConverterAssumption, FormulaAssumption DEF SetReserve
<1>2. /\ reserve_weights \in [Smart -> [ReserveToken -> 0..PPM_RESOLUTION]]
      /\ reserve_balances \in [Smart -> [ReserveToken -> 0..MaxAmount]]
  BY DEF CInv, BooksOK, Balances
<1>3. \A r \in Reserves(c) : CodeOf[r] # CodeOf[t]
  BY DEF SetReserve
<1>4. reserve_weights[c][t] = 0 /\ reserve_balances[c][t] = 0
  <2>1. t \notin Reserves(c)
    BY <1>3
  <2>2. reserve_weights[c][t] \in 0..PPM_RESOLUTION
    BY <1>2
  <2>3. reserve_weights[c][t] = 0
    BY <2>1, <2>2, FormulaAssumption DEF Reserves
  <2> QED
    BY <2>3 DEF CInv, BooksOK
<1>5. UNCHANGED <<reserve_balances, accounts, ledger, settings, converters>>
  <2>1. reserve_balances' = [reserve_balances EXCEPT ![c][t] = 0]
    BY DEF SetReserve
  <2>2. [reserve_balances EXCEPT ![c][t] = 0] = reserve_balances
    BY <1>2, <1>4
  <2> QED
    BY <2>1, <2>2 DEF SetReserve
<1>6. /\ reserve_weights' \in [Smart -> [ReserveToken -> 0..PPM_RESOLUTION]]
      /\ \A d \in Smart, u \in ReserveToken :
           reserve_weights'[d][u] = IF d = c /\ u = t THEN w ELSE reserve_weights[d][u]
  BY <1>1, <1>2, FormulaAssumption DEF SetReserve
<1>7. \A d \in Smart : Reserves(d)' = IF d = c THEN Reserves(c) \cup {t} ELSE Reserves(d)
  BY <1>1, <1>6 DEF Reserves
<1>8. BooksOK'
  <2>1. \A d \in Smart, u \in ReserveToken :
          reserve_weights'[d][u] = 0 => reserve_balances'[d][u] = 0
    BY <1>1, <1>5, <1>6 DEF CInv, BooksOK
  <2>2. \A d \in Smart : d \notin Reserves(d)'
    BY <1>7 DEF CInv, BooksOK
  <2>3. \A d \in Smart : \A u, v \in Reserves(d)' : CodeOf[u] = CodeOf[v] => u = v
    BY <1>3, <1>7 DEF CInv, BooksOK
  <2>4. reserve_balances' \in Balances /\ accounts' \in Deposits
    BY <1>5 DEF CInv, BooksOK
  <2> QED
    BY <1>6, <2>1, <2>2, <2>3, <2>4 DEF BooksOK
<1>9. RolesOK' /\ LedgersOK'
  BY <1>5 DEF CInv, RolesOK, LedgersOK, SetReserve
<1>10. \A u \in ReserveToken : Surplus(u)' = Surplus(u)
  BY <1>5 DEF Surplus, Booked
<1>11. DepositStep
  <2> SUFFICES ASSUME NEW d \in Smart, NEW a \in Account, NEW u \in ReserveToken
               PROVE  ~ (accounts'[d][a][CodeOf[u]] < accounts[d][a][CodeOf[u]])
    BY DEF DepositStep
  <2>1. accounts[d][a][CodeOf[u]] \in Int
    BY ConverterAssumption, MaxAmountAssumption DEF CInv, BooksOK, Deposits
  <2> QED
    BY <1>5, <2>1
<1> QED
  BY <1>8, <1>9, <1>10, <1>11 DEF StepOK, CInv, BooksStep

(* What a deleted reserve held is booked nowhere any more.                 *)
LEMMA DelReserveKeeps ==
  ASSUME CInv, NEW auth \in Account, NEW c \in Smart, NEW t \in ReserveToken,
         DelReserve(auth, c, t)
  PROVE  StepOK
<1>1. /\ reserve_weights \in [Smart -> [ReserveToken -> 0..PPM_RESOLUTION]]
      /\ reserve_balances \in [Smart -> [ReserveToken -> 0..MaxAmount]]
  BY DEF CInv, BooksOK, Balances
<1>2. /\ t \in Reserves(c)
      /\ UNCHANGED <<accounts, ledger, settings, converters>>
      /\ signer' = auth
  BY DEF DelReserve
<1>3. /\ reserve_weights' \in [Smart -> [ReserveToken -> 0..PPM_RESOLUTION]]
      /\ \A d \in Smart, u \in ReserveToken :
           reserve_weights'[d][u] = IF d = c /\ u = t THEN 0 ELSE reserve_weights[d][u]
  BY <1>1, FormulaAssumption DEF DelReserve
<1>4. /\ reserve_balances' \in Balances
      /\ \A d \in Smart, u \in ReserveToken :
           reserve_balances'[d][u] = IF d = c /\ u = t THEN 0 ELSE reserve_balances[d][u]
      /\ \A d \in Smart : d # c => reserve_balances'[d] = reserve_balances[d]
  BY <1>1, MaxAmountAssumption DEF DelReserve, Balances
<1>5. \A d \in Smart : Reserves(d)' = IF d = c THEN Reserves(c) \ {t} ELSE Reserves(d)
  BY <1>3 DEF Reserves
<1>6. BooksOK'
  <2>1. \A d \in Smart, u \in ReserveToken :
          reserve_weights'[d][u] = 0 => reserve_balances'[d][u] = 0
    BY <1>3, <1>4 DEF CInv, BooksOK
  <2>2. \A d \in Smart : d \notin Reserves(d)'
    BY <1>5 DEF CInv, BooksOK
  <2>3. \A d \in Smart : \A u, v \in Reserves(d)' : CodeOf[u] = CodeOf[v] => u = v
    BY <1>5 DEF CInv, BooksOK
  <2> QED
    BY <1>2, <1>3, <1>4, <2>1, <2>2, <2>3 DEF CInv, BooksOK
<1>7. RolesOK' /\ LedgersOK'
  BY <1>2 DEF CInv, RolesOK, LedgersOK
<1>8. ASSUME NEW u \in ReserveToken
      PROVE  /\ Surplus(u) \in Int /\ Surplus(u)' \in Int
             /\ IF u = t THEN Surplus(u)' >= Surplus(u) ELSE Surplus(u)' = Surplus(u)
  <2> DEFINE x == reserve_balances[c][u]
             y == reserve_balances'[c][u]
             z == accounts[c][auth][CodeOf[u]]
             o == Own(ledger, u)
  <2>1. /\ Surplus(u) \in Int
        /\ Surplus(u)' = Surplus(u) + Own(ledger', u) - Own(ledger, u) - (y - x)
             - (accounts'[c][auth][CodeOf[u]] - accounts[c][auth][CodeOf[u]])
    BY <1>2, <1>4, <1>6, <1>7, SurplusChange DEF CInv
  <2>2. x \in Nat /\ (u = t => y = 0) /\ (u # t => y = x)
    BY <1>1, <1>4, MaxAmountAssumption
  <2>3. z \in Int /\ o \in Int
    BY ConverterAssumption, MaxAmountAssumption, SurplusIs DEF CInv, BooksOK, Deposits
  <2>4. Surplus(u)' = Surplus(u) + o - o - (y - x) - (z - z)
    BY <1>2, <2>1
  <2> HIDE DEF x, y, z, o
  <2> QED
    BY <2>1, <2>2, <2>3, <2>4
<1>9. BooksStep
  <2>1. t \in Reserves(c) \ Reserves(c)'
    BY <1>2, <1>5
  <2> QED
    BY <1>8, <2>1 DEF BooksStep
<1>10. DepositStep
  <2> SUFFICES ASSUME NEW d \in Smart, NEW a \in Account, NEW u \in ReserveToken
               PROVE  ~ (accounts'[d][a][CodeOf[u]] < accounts[d][a][CodeOf[u]])
    BY DEF DepositStep
  <2>1. accounts[d][a][CodeOf[u]] \in Int
    BY ConverterAssumption, MaxAmountAssumption DEF CInv, BooksOK, Deposits
  <2> QED
    BY <1>2, <2>1
<1> QED
  BY <1>6, <1>7, <1>9, <1>10 DEF StepOK, CInv

LEMMA AdministerKeeps ==
  ASSUME CInv, NEW auth \in Account, Administer(auth)
  PROVE  StepOK
<1>1. ASSUME NEW p \in Params, SetSettings(auth, p)
      PROVE  StepOK
  <2>1. p \in Param
    BY ConverterAssumption
  <2>2. RolesOK'
    BY <1>1, <2>1, FormulaAssumption DEF CInv, RolesOK, SetSettings, Param
  <2>3. LedgersOK' /\ ledger' = ledger
    BY <1>1 DEF CInv, LedgersOK, SetSettings
  <2> QED
    BY <1>1, <2>2, <2>3, NoCoinsMoved DEF SetSettings, Own
<1>2. ASSUME NEW c \in Smart, NEW q \in Quantity, Create(auth, c, q)
      PROVE  StepOK
  BY <1>2, CreateKeeps
<1>3. ASSUME NEW c \in Smart
      PROVE  converters[c] \in [owner : Account \cup {NoAccount}, fee : 0..MAX_FEE,
                                stake : BOOLEAN]
  BY DEF CInv, RolesOK
<1>4. ASSUME NEW c \in Smart, NEW a \in NewOwner, UpdateOwner(auth, c, a)
      PROVE  StepOK
  <2> DEFINE row == [converters[c] EXCEPT !.owner = a]
  <2>1. a \in Account
    BY ConverterAssumption
  <2>2. row \in [owner : Account \cup {NoAccount}, fee : 0..MAX_FEE, stake : BOOLEAN]
    BY <1>3, <2>1
  <2>3. Configure(c, auth, row)
    BY <1>4 DEF UpdateOwner
  <2> HIDE DEF row
  <2> QED
    BY <2>2, <2>3, Configured
<1>5. ASSUME NEW c \in Smart, NEW f \in Fee, UpdateFee(auth, c, f)
      PROVE  StepOK
  <2> DEFINE row == [converters[c] EXCEPT !.fee = f]
  <2>1. f \in 0..MAX_FEE
    <3>1. f \in Nat /\ f <= settings.max_fee
      BY <1>5, ConverterAssumption DEF UpdateFee
    <3>2. settings.max_fee \in 0..MAX_FEE
      BY DEF CInv, RolesOK
    <3> QED
      BY <3>1, <3>2, FormulaAssumption
  <2>2. row \in [owner : Account \cup {NoAccount}, fee : 0..MAX_FEE, stake : BOOLEAN]
    BY <1>3, <2>1
  <2>3. Configure(c, auth, row)
    BY <1>5 DEF UpdateFee
  <2> HIDE DEF row
  <2> QED
    BY <2>2, <2>3, Configured
<1>6. ASSUME NEW c \in Smart, NEW on \in BOOLEAN, Activate(auth, c, on)
      PROVE  StepOK
  <2> DEFINE row == [converters[c] EXCEPT !.stake = on]
  <2>1. row \in [owner : Account \cup {NoAccount}, fee : 0..MAX_FEE, stake : BOOLEAN]
    BY <1>3
  <2>2. Configure(c, auth, row)
    BY <1>6 DEF Activate
  <2> HIDE DEF row
  <2> QED
    BY <2>1, <2>2, Configured
<1>7. ASSUME NEW c \in Smart, DelConverter(auth, c)
      PROVE  StepOK
  <2>1. NoConverter \in [owner : Account \cup {NoAccount}, fee : 0..MAX_FEE,
                         stake : BOOLEAN]
    BY FormulaAssumption DEF NoConverter
  <2> QED
    BY <1>7, <2>1, Configured DEF DelConverter
<1>8. ASSUME NEW c \in Smart, NEW t \in ReserveToken \ {c}, NEW w \in Weight,
             SetReserve(auth, c, t, w)
      PROVE  StepOK
  BY <1>8, SetReserveKeeps
<1>9. ASSUME NEW c \in Smart, NEW t \in ReserveToken, DelReserve(auth, c, t)
      PROVE  StepOK
  BY <1>9, DelReserveKeeps
<1> QED
  BY <1>1, <1>2, <1>4, <1>5, <1>6, <1>7, <1>8, <1>9 DEF Administer

(* Only the system accounts can send the contract what it does not book.   *)
LEMMA TransferKeeps ==
  ASSUME CInv, NEW auth \in Account, NEW to \in Account, NEW t \in Symbol, NEW q,
         Transfer(auth, to, t, q)
  PROVE  StepOK
<1>1. /\ auth # Self /\ (to = Self => auth \in SystemAccount) /\ signer' = auth
      /\ CanTransfer(ledger, auth, to, t, q)
      /\ ledger' = AfterTransfer(ledger, auth, to, t, q)
      /\ UNCHANGED <<settings, converters, reserve_weights, reserve_balances, accounts>>
  BY DEF Transfer
<1>2. /\ q \in 1..MaxAmount /\ LedgerOK(ledger') /\ ledger'.issuer = ledger.issuer
      /\ \A u \in Symbol : u # t => ledger'.balance[u] = ledger.balance[u]
      /\ Own(ledger', t) = Own(ledger, t) +
           (IF to = Self THEN q ELSE IF auth = Self THEN -q ELSE 0)
  BY <1>1, TransferOwn DEF CInv, LedgersOK
<1>3. LedgersOK' /\ RolesOK'
  BY <1>1, <1>2 DEF CInv, LedgersOK, RolesOK
<1>4. /\ BooksOK' /\ DepositStep
      /\ \A u \in ReserveToken :
           /\ Surplus(u) \in Int
           /\ Surplus(u)' = Surplus(u) + Own(ledger', u) - Own(ledger, u)
  BY <1>1, <1>3, BooksUntouched DEF CInv
<1>5. ASSUME NEW u \in ReserveToken
      PROVE  /\ Surplus(u)' >= Surplus(u)
             /\ to # Self => Surplus(u)' = Surplus(u)
             /\ Surplus(u) \in Int /\ Surplus(u)' \in Int
  <2>1. Own(ledger, u) \in Int /\ u \in Symbol
    BY SurplusIs, ConverterAssumption DEF CInv
  <2>2. \/ Own(ledger', u) = Own(ledger, u)
        \/ to = Self /\ Own(ledger', u) = Own(ledger, u) + q
    BY <1>1, <1>2, <2>1 DEF Own
  <2> QED
    BY <1>2, <1>4, <2>1, <2>2
<1>6. BooksStep
  BY <1>1, <1>5 DEF BooksStep
<1> QED
  BY <1>3, <1>4, <1>6 DEF StepOK, CInv

----------------------------------------------------------------------------
(* mod_balances: q is booked for t exactly once, whether the converter is  *)
(* active or not; q may be negative.                                       *)
LEMMA ModBalancesFacts ==
  ASSUME BooksOK, NEW c \in Smart, NEW a \in Account, NEW t \in ReserveToken,
         NEW q \in Int, ModBalances(a, c, t, q), UNCHANGED reserve_weights
  PROVE  /\ BooksOK'
         /\ \A e \in Smart : e # c => reserve_balances'[e] = reserve_balances[e]
         /\ \A e \in Smart : e # c => accounts'[e] = accounts[e]
         /\ \A x \in Account : x # a => accounts'[c][x] = accounts[c][x]
         /\ reserve_balances'[c][t] - reserve_balances[c][t]
              + (accounts'[c][a][CodeOf[t]] - accounts[c][a][CodeOf[t]]) = q
         /\ \A u \in ReserveToken : u # t =>
              reserve_balances'[c][u] = reserve_balances[c][u]
         /\ \A k \in Code : k # CodeOf[t] => accounts'[c][a][k] = accounts[c][a][k]
         /\ accounts'[c][a][CodeOf[t]] < accounts[c][a][CodeOf[t]] => q < 0
<1> DEFINE k == CodeOf[t]
<1>1. /\ reserve_balances \in [Smart -> [ReserveToken -> 0..MaxAmount]]
      /\ accounts \in [Smart -> [Account -> [Code -> 0..MaxAmount]]]
      /\ k \in Code /\ t \in Reserves(c) /\ MaxAmount \in Nat
  BY ConverterAssumption, MaxAmountAssumption DEF BooksOK, Balances, Deposits, ModBalances
<1>2. /\ reserve_balances[c][t] \in 0..MaxAmount /\ accounts[c][a][k] \in 0..MaxAmount
      /\ reserve_balances[c][t] \in Int /\ accounts[c][a][k] \in Int
  BY <1>1
<1>3. CASE CanModAccount(a, c, k, q)
             /\ accounts' = [accounts EXCEPT ![c][a][k] = @ + q]
             /\ UNCHANGED reserve_balances
  <2> DEFINE n == accounts[c][a][k] + q
  <2>1. n \in 0..MaxAmount /\ n \in Int
    BY <1>1, <1>2, <1>3 DEF CanModAccount, IsAmount
  <2>2. accounts' = [accounts EXCEPT ![c][a][k] = n]
    BY <1>3
  <2> HIDE DEF n
  <2>3. /\ accounts' \in Deposits
        /\ accounts'[c][a][k] = n
        /\ \A e \in Smart : e # c => accounts'[e] = accounts[e]
        /\ \A x \in Account : x # a => accounts'[c][x] = accounts[c][x]
        /\ \A l \in Code : l # k => accounts'[c][a][l] = accounts[c][a][l]
    BY <1>1, <2>1, <2>2 DEF Deposits
  <2>4. BooksOK'
    BY <1>3, <2>3 DEF BooksOK, Reserves
  <2>5. n - accounts[c][a][k] = q
    BY <1>2 DEF n
  <2>6. /\ reserve_balances'[c][t] - reserve_balances[c][t]
             + (accounts'[c][a][k] - accounts[c][a][k]) = q
        /\ accounts'[c][a][k] < accounts[c][a][k] => q < 0
    BY <1>2, <1>3, <2>1, <2>3, <2>5
  <2> QED
    BY <1>3, <2>3, <2>4, <2>6
<1>4. CASE CanModReserve(c, t, q)
             /\ reserve_balances' = ModReserve(reserve_balances, c, t, q)
             /\ UNCHANGED accounts
  <2> DEFINE n == reserve_balances[c][t] + q
  <2>1. n \in 0..MaxAmount /\ n \in Int
    BY <1>1, <1>2, <1>4 DEF CanModReserve, IsAmount
  <2>2. reserve_balances' = [reserve_balances EXCEPT ![c][t] = n]
    BY <1>4 DEF ModReserve
  <2> HIDE DEF n
  <2>3. /\ reserve_balances' \in Balances
        /\ reserve_balances'[c][t] = n
        /\ \A e \in Smart : e # c => reserve_balances'[e] = reserve_balances[e]
        /\ \A u \in ReserveToken : u # t =>
             reserve_balances'[c][u] = reserve_balances[c][u]
    BY <1>1, <2>1, <2>2 DEF Balances
  <2>4. BooksOK'
    <3>1. \A e \in Smart, u \in ReserveToken :
            reserve_weights'[e][u] = 0 => reserve_balances'[e][u] = 0
      <4>1. reserve_weights[c][t] # 0
        BY <1>1 DEF Reserves
      <4> QED
        BY <2>3, <4>1 DEF BooksOK
    <3> QED
      BY <1>4, <2>3, <3>1 DEF BooksOK, Reserves
  <2>5. n - reserve_balances[c][t] = q
    BY <1>2 DEF n
  <2>6. /\ reserve_balances'[c][t] - reserve_balances[c][t]
             + (accounts'[c][a][k] - accounts[c][a][k]) = q
        /\ ~ (accounts'[c][a][k] < accounts[c][a][k])
    BY <1>2, <1>4, <2>1, <2>3, <2>5
  <2> QED
    BY <1>4, <2>3, <2>4, <2>6
<1> QED
  BY <1>3, <1>4 DEF ModBalances

(* A transfer between a user and the contract, booked by mod_balances.     *)
LEMMA BookedTransfer ==
  ASSUME CInv, NEW c \in Smart, NEW a \in Account, NEW t \in ReserveToken,
         NEW from \in Account, NEW to \in Account, NEW n,
         CanTransfer(ledger, from, to, t, n),
         ledger' = AfterTransfer(ledger, from, to, t, n),
         NEW q \in Int, ModBalances(a, c, t, q),
         \/ from = a /\ to = Self /\ q = n
         \/ from = Self /\ to = a /\ q = -n,
         signer' = a, UNCHANGED <<settings, converters, reserve_weights>>
  PROVE  StepOK
<1>1. /\ n \in 1..MaxAmount /\ LedgerOK(ledger') /\ ledger'.issuer = ledger.issuer
      /\ ledger'.balance[t][to] = ledger.balance[t][to] + n
      /\ \A u \in Symbol : u # t => ledger'.balance[u] = ledger.balance[u]
      /\ Own(ledger', t) = Own(ledger, t) + q
  BY ConverterAssumption, TransferOwn DEF CInv, LedgersOK
<1>2. LedgersOK' /\ RolesOK'
  BY <1>1 DEF CInv, LedgersOK, RolesOK
<1>3. /\ BooksOK'
      /\ \A e \in Smart : e # c => reserve_balances'[e] = reserve_balances[e]
      /\ \A e \in Smart : e # c => accounts'[e] = accounts[e]
      /\ \A x \in Account : x # a => accounts'[c][x] = accounts[c][x]
      /\ reserve_balances'[c][t] - reserve_balances[c][t]
           + (accounts'[c][a][CodeOf[t]] - accounts[c][a][CodeOf[t]]) = q
      /\ \A u \in ReserveToken : u # t => reserve_balances'[c][u] = reserve_balances[c][u]
      /\ \A k \in Code : k # CodeOf[t] => accounts'[c][a][k] = accounts[c][a][k]
      /\ accounts'[c][a][CodeOf[t]] < accounts[c][a][CodeOf[t]] => q < 0
  BY ModBalancesFacts DEF CInv
<1>4. ASSUME CodesDiffer, NEW u \in ReserveToken PROVE Surplus(u)' = Surplus(u)
  <2> DEFINE k == CodeOf[u]
             db == reserve_balances'[c][u] - reserve_balances[c][u]
             da == accounts'[c][a][k] - accounts[c][a][k]
  <2>1. /\ Surplus(u) \in Int
        /\ Surplus(u)' = Surplus(u) + Own(ledger', u) - Own(ledger, u) - db - da
    BY <1>2, <1>3, SurplusChange DEF CInv
  <2>2. /\ reserve_balances'[c][u] \in Int /\ reserve_balances[c][u] \in Int
        /\ accounts'[c][a][k] \in Int /\ accounts[c][a][k] \in Int
    BY <1>3, ConverterAssumption, MaxAmountAssumption
       DEF CInv, BooksOK, Balances, Deposits
  <2>3. Own(ledger, u) \in Int /\ db \in Int /\ da \in Int
    BY <2>2, SurplusIs DEF CInv
  <2>4. u # t => db = 0 /\ da = 0 /\ Own(ledger', u) = Own(ledger, u)
    BY <1>1, <1>3, <1>4, <2>2, ConverterAssumption DEF CodesDiffer, Own
  <2>5. u = t => db + da = q /\ Own(ledger', u) = Own(ledger, u) + q
    BY <1>1, <1>3
  <2> HIDE DEF db, da
  <2> QED
    BY <2>1, <2>3, <2>4, <2>5
<1>5. ASSUME CodesDiffer PROVE DepositStep
  <2> SUFFICES ASSUME NEW d \in Smart, NEW x \in Account, NEW u \in ReserveToken,
                      accounts'[d][x][CodeOf[u]] < accounts[d][x][CodeOf[u]]
               PROVE  signer' = x /\ ledger'.balance[u][x] > ledger.balance[u][x]
    BY DEF DepositStep
  <2>1. accounts[d][x][CodeOf[u]] \in Int /\ CodeOf[u] \in Code
    BY ConverterAssumption, MaxAmountAssumption DEF CInv, BooksOK, Deposits
  <2>2. d = c /\ x = a /\ CodeOf[u] = CodeOf[t]
    BY <1>3, <2>1
  <2>3. u = t /\ q < 0 /\ to = a
    BY <1>1, <1>3, <1>5, <2>2 DEF CodesDiffer
  <2>4. ledger.balance[t][to] \in Int
    BY ConverterAssumption DEF CInv, LedgersOK, LedgerOK, Ledger
  <2> QED
    BY <1>1, <2>2, <2>3, <2>4
<1> QED
  BY <1>2, <1>3, <1>4, <1>5 DEF StepOK, CInv, BooksStep

LEMMA DepositKeeps ==
  ASSUME CInv, NEW auth \in Account, NEW c \in Smart, NEW t \in ReserveToken,
         NEW q \in Int, Deposit(auth, c, t, q)
  PROVE  StepOK
BY BookedTransfer, ConverterAssumption DEF Deposit, Receives, Received

LEMMA WithdrawKeeps ==
  ASSUME CInv, NEW auth \in Account, NEW c \in Smart, NEW t \in ReserveToken,
         NEW q \in Int, Withdraw(auth, c, t, q)
  PROVE  StepOK
<1>1. /\ ModBalances(auth, c, t, -q) /\ -q \in Int
      /\ CanTransfer(ledger, Self, auth, t, q)
      /\ ledger' = AfterTransfer(ledger, Self, auth, t, q)
      /\ signer' = auth /\ UNCHANGED <<settings, converters, reserve_weights>>
  BY DEF Withdraw
<1> QED
  BY <1>1, BookedTransfer, ConverterAssumption

----------------------------------------------------------------------------
(* fund: of each token, what leaves the deposits enters the reserve.       *)

(* The costs under a symbol code are those of the one reserve that has it. *)
LEMMA CostsByCode ==
  ASSUME BooksOK, NEW c \in Smart, NEW q, NEW k \in Code
  PROVE  LET sum == SumFunctionOnSet(Costs(c, q), {t \in ReserveToken : CodeOf[t] = k})
         IN  /\ \A t \in Reserves(c) : CodeOf[t] = k => sum = Costs(c, q)[t]
             /\ (\A t \in Reserves(c) : CodeOf[t] # k) => sum = 0
<1> DEFINE S == {t \in ReserveToken : CodeOf[t] = k}
           f == Costs(c, q)
<1>1. /\ IsFiniteSet(S)
      /\ \A t \in ReserveToken : f[t] \in Int /\ (t \notin Reserves(c) => f[t] = 0)
  <2>1. IsFiniteSet(S)
    BY ConverterAssumption, FS_Subset
  <2>2. ASSUME NEW t \in ReserveToken
        PROVE  f[t] \in Int /\ (t \notin Reserves(c) => f[t] = 0)
    <3>1. CASE t \in Reserves(c)
      BY <3>1, FundCostType, FormulaAssumption DEF Costs
    <3>2. CASE t \notin Reserves(c)
      BY <3>2 DEF Costs
    <3> QED
      BY <3>1, <3>2
  <2> QED
    BY <2>1, <2>2
<1>2. \A t, u \in Reserves(c) : CodeOf[t] = CodeOf[u] => t = u
  BY DEF BooksOK
<1>3. \A t \in S : t \in ReserveToken /\ CodeOf[t] = k
  OBVIOUS
<1>4. ASSUME NEW t \in Reserves(c), CodeOf[t] = k
      PROVE  SumFunctionOnSet(f, S) = f[t]
  <2>1. t \in S
    BY <1>4 DEF Reserves
  <2>2. /\ IsFiniteSet(S \ {t})
        /\ \A u \in S \ {t} : f[u] \in Int /\ f[u] = 0
    <3>1. \A u \in S \ {t} : u \notin Reserves(c)
      BY <1>2, <1>3, <1>4
    <3> QED
      BY <1>1, <1>3, <3>1, FS_Subset
  <2> HIDE DEF S, f
  <2>3. SumFunctionOnSet(f, S \ {t}) = 0
    BY <2>2, SumZero
  <2>4. SumFunctionOnSet(f, S) = f[t] + SumFunctionOnSet(f, S \ {t})
    BY <1>1, <1>3, <2>1, SumWithout
  <2> QED
    BY <1>1, <1>3, <2>1, <2>3, <2>4
<1>5. ASSUME \A t \in Reserves(c) : CodeOf[t] # k
      PROVE  SumFunctionOnSet(f, S) = 0
  <2>1. \A u \in S : f[u] \in Int /\ f[u] = 0
    BY <1>1, <1>3, <1>5
  <2> HIDE DEF S, f
  <2> QED
    BY <1>1, <2>1, SumZero
<1> QED
  BY <1>4, <1>5

LEMMA FundKeeps ==
  ASSUME CInv, NEW auth \in Account, NEW c \in Smart, NEW q \in Int,
         Fund(auth, c, q)
  PROVE  StepOK
<1> DEFINE cost == Costs(c, q)
           sum(k) == SumFunctionOnSet(cost, {t \in ReserveToken : CodeOf[t] = k})
<1>1. /\ \A t \in Reserves(c) : CanModAccount(auth, c, CodeOf[t], -cost[t])
                                  /\ CanModReserve(c, t, cost[t])
      /\ CanIssueTo(ledger, auth, c, q)
      /\ accounts' = [accounts EXCEPT ![c][auth] = [k \in Code |-> @[k] - sum(k)]]
      /\ reserve_balances' = [reserve_balances EXCEPT ![c] =
                                [t \in ReserveToken |-> @[t] + cost[t]]]
      /\ ledger' = AfterIssueTo(ledger, auth, c, q)
      /\ signer' = auth
      /\ UNCHANGED <<settings, converters, reserve_weights>>
  BY DEF Fund
<1>2. /\ reserve_balances \in [Smart -> [ReserveToken -> 0..MaxAmount]]
      /\ accounts \in [Smart -> [Account -> [Code -> 0..MaxAmount]]]
      /\ MaxAmount \in Nat
  BY MaxAmountAssumption DEF CInv, BooksOK, Balances, Deposits
<1>3. \A t \in ReserveToken : cost[t] \in Nat /\ (t \notin Reserves(c) => cost[t] = 0)
  BY FundCostType, FormulaAssumption DEF Costs
<1>4. \A k \in Code :
        /\ \A t \in Reserves(c) : CodeOf[t] = k => sum(k) = cost[t]
        /\ (\A t \in Reserves(c) : CodeOf[t] # k) => sum(k) = 0
  BY CostsByCode DEF CInv
<1>5. \A t \in Reserves(c) : t \in ReserveToken /\ CodeOf[t] \in Code
  BY ConverterAssumption DEF Reserves
<1> HIDE DEF cost, sum
<1>6. ASSUME NEW k \in Code
      PROVE  sum(k) \in Nat /\ accounts[c][auth][k] - sum(k) \in 0..MaxAmount
  <2>1. accounts[c][auth][k] \in 0..MaxAmount
    BY <1>2
  <2>2. CASE \A t \in Reserves(c) : CodeOf[t] # k
    <3>1. sum(k) = 0
      BY <1>4, <2>2
    <3> QED
      BY <1>2, <2>1, <3>1
  <2>3. ASSUME NEW t \in Reserves(c), CodeOf[t] = k
        PROVE  sum(k) \in Nat /\ accounts[c][auth][k] - sum(k) \in 0..MaxAmount
    <3>1. sum(k) = cost[t] /\ cost[t] \in Nat
      BY <1>3, <1>4, <1>5, <2>3
    <3>2. CanModAccount(auth, c, k, -cost[t])
      BY <1>1, <2>3
    <3> QED
      BY <1>2, <2>1, <3>1, <3>2 DEF CanModAccount, IsAmount
  <2> QED
    BY <2>2, <2>3
<1>7. ASSUME NEW t \in ReserveToken
      PROVE  reserve_balances[c][t] + cost[t] \in 0..MaxAmount
  <2>1. reserve_balances[c][t] \in 0..MaxAmount
    BY <1>2
  <2>2. CASE t \in Reserves(c)
    BY <1>1, <1>2, <1>3, <2>1, <2>2 DEF CanModReserve, IsAmount
  <2>3. CASE t \notin Reserves(c)
    BY <1>2, <1>3, <2>1, <2>3
  <2> QED
    BY <2>2, <2>3
<1>8. /\ accounts' \in Deposits
      /\ \A k \in Code : accounts'[c][auth][k] = accounts[c][auth][k] - sum(k)
      /\ \A e \in Smart : e # c => accounts'[e] = accounts[e]
      /\ \A x \in Account : x # auth => accounts'[c][x] = accounts[c][x]
  BY <1>1, <1>2, <1>6 DEF Deposits
<1>9. /\ reserve_balances' \in Balances
      /\ \A t \in ReserveToken : reserve_balances'[c][t] = reserve_balances[c][t] + cost[t]
      /\ \A e \in Smart : e # c => reserve_balances'[e] = reserve_balances[e]
  BY <1>1, <1>2, <1>7 DEF Balances
<1>10. BooksOK'
  <2>1. \A e \in Smart, t \in ReserveToken :
          reserve_weights'[e][t] = 0 => reserve_balances'[e][t] = 0
    <3> SUFFICES ASSUME NEW e \in Smart, NEW t \in ReserveToken, reserve_weights'[e][t] = 0
                 PROVE  reserve_balances'[e][t] = 0
      OBVIOUS
    <3>1. reserve_weights[e][t] = 0 /\ reserve_balances[e][t] = 0
      BY <1>1 DEF CInv, BooksOK
    <3>2. CASE e = c
      <4>1. t \notin Reserves(c)
        BY <3>1, <3>2 DEF Reserves
      <4>2. cost[t] = 0
        BY <1>3, <4>1
      <4> QED
        BY <1>9, <3>1, <3>2, <4>2
    <3>3. CASE e # c
      BY <1>9, <3>1, <3>3
    <3> QED
      BY <3>2, <3>3
  <2> QED
    BY <1>1, <1>8, <1>9, <2>1 DEF CInv, BooksOK, Reserves
<1>11. /\ LedgerOK(ledger') /\ ledger'.issuer = ledger.issuer
       /\ \A t \in Symbol : Own(ledger', t) = Own(ledger, t)
  BY <1>1, ConverterAssumption, IssueToOwn DEF CInv, LedgersOK
<1>12. LedgersOK' /\ RolesOK'
  BY <1>1, <1>11 DEF CInv, LedgersOK, RolesOK
<1>13. ASSUME CodesDiffer, NEW u \in ReserveToken
       PROVE  sum(CodeOf[u]) = cost[u]
  <2>1. CodeOf[u] \in Code
    BY ConverterAssumption
  <2>2. CASE u \in Reserves(c)
    BY <1>4, <2>1, <2>2
  <2>3. CASE u \notin Reserves(c)
    <3>1. \A t \in Reserves(c) : CodeOf[t] # CodeOf[u]
      BY <1>5, <1>13, <2>3 DEF CodesDiffer
    <3> QED
      BY <1>3, <1>4, <2>1, <2>3, <3>1
  <2> QED
    BY <2>2, <2>3
<1>14. ASSUME CodesDiffer, NEW u \in ReserveToken PROVE Surplus(u)' = Surplus(u)
  <2> DEFINE k == CodeOf[u]
             x == reserve_balances[c][u]
             x2 == reserve_balances'[c][u]
             z == accounts[c][auth][k]
             z2 == accounts'[c][auth][k]
             o == Own(ledger, u)
             o2 == Own(ledger', u)
             n == cost[u]
             y == Surplus(u)
             y2 == Surplus(u)'
  <2>1. y \in Int /\ y2 = y + o2 - o - (x2 - x) - (z2 - z)
    BY <1>8, <1>9, <1>10, <1>12, SurplusChange DEF CInv
  <2>2. k \in Code /\ sum(k) = n /\ u \in Symbol
    BY <1>13, <1>14, ConverterAssumption
  <2>3. x \in Int /\ z \in Int /\ o \in Int /\ n \in Int
    BY <1>2, <1>3, <2>2, SurplusIs DEF CInv
  <2>4. o2 = o /\ x2 = x + n
    BY <1>9, <1>11, <2>2
  <2>5. z2 = z - n
    <3>1. z2 = z - sum(k)
      BY <1>8, <2>2
    <3> HIDE DEF n, z, z2
    <3> QED
      BY <2>2, <3>1
  <2>6. y2 = y
    <3> HIDE DEF k, x, x2, z, z2, o, o2, n, y, y2
    <3> QED
      BY <2>1, <2>3, <2>4, <2>5
  <2> QED
    BY <2>6
<1>15. ASSUME CodesDiffer PROVE DepositStep
  <2> SUFFICES ASSUME NEW d \in Smart, NEW x \in Account, NEW u \in ReserveToken,
                      accounts'[d][x][CodeOf[u]] < accounts[d][x][CodeOf[u]]
               PROVE  signer' = x /\ reserve_balances'[d][u] > reserve_balances[d][u]
    BY DEF DepositStep
  <2>1. CodeOf[u] \in Code
    BY ConverterAssumption
  <2>2. accounts[d][x][CodeOf[u]] \in Int
    BY <1>2, <2>1
  <2>3. d = c /\ x = auth
    BY <1>8, <2>2
  <2>4. sum(CodeOf[u]) > 0
    BY <1>6, <1>8, <2>1, <2>2, <2>3
  <2>5. cost[u] > 0 /\ cost[u] \in Int /\ reserve_balances[c][u] \in Int
    BY <1>2, <1>3, <1>13, <1>15, <2>4
  <2> QED
    BY <1>1, <1>9, <2>3, <2>5
<1> QED
  BY <1>10, <1>12, <1>14, <1>15 DEF StepOK, CInv, BooksStep

----------------------------------------------------------------------------
(* Steps that move reserves of one converter as coins are moved.           *)
LEMMA ReservesFollowCoins ==
  ASSUME CInv, RolesOK', LedgersOK', NEW c \in Smart,
         UNCHANGED <<reserve_weights, accounts>>,
         reserve_balances' \in Balances,
         \A e \in Smart : e # c => reserve_balances'[e] = reserve_balances[e],
         \A u \in ReserveToken \ Reserves(c) :
           reserve_balances'[c][u] = reserve_balances[c][u],
         \A u \in ReserveToken :
           Own(ledger', u) - Own(ledger, u)
             = reserve_balances'[c][u] - reserve_balances[c][u]
  PROVE  StepOK
<1>1. BooksOK'
  <2>1. \A e \in Smart, t \in ReserveToken :
          reserve_weights'[e][t] = 0 => reserve_balances'[e][t] = 0
    <3> SUFFICES ASSUME NEW e \in Smart, NEW t \in ReserveToken, reserve_weights'[e][t] = 0
                 PROVE  reserve_balances'[e][t] = 0
      OBVIOUS
    <3>1. reserve_weights[e][t] = 0 /\ reserve_balances[e][t] = 0
      BY DEF CInv, BooksOK
    <3>2. e = c => t \notin Reserves(c)
      BY <3>1 DEF Reserves
    <3> QED
      BY <3>1, <3>2
  <2> QED
    BY <2>1 DEF CInv, BooksOK, Reserves
<1>2. ASSUME NEW d \in Smart, NEW x \in Account, NEW u \in ReserveToken
      PROVE  /\ accounts[d][x][CodeOf[u]] \in Int
             /\ ~ (accounts'[d][x][CodeOf[u]] < accounts[d][x][CodeOf[u]])
  BY ConverterAssumption, MaxAmountAssumption DEF CInv, BooksOK, Deposits
<1>3. ASSUME NEW u \in ReserveToken PROVE Surplus(u)' = Surplus(u)
  <2> DEFINE z == accounts[c][Self][CodeOf[u]]
             o == Own(ledger, u)
             o2 == Own(ledger', u)
             x == reserve_balances[c][u]
             x2 == reserve_balances'[c][u]
  <2>1. /\ Surplus(u) \in Int
        /\ Surplus(u)' = Surplus(u) + Own(ledger', u) - Own(ledger, u)
             - (reserve_balances'[c][u] - reserve_balances[c][u])
             - (accounts'[c][Self][CodeOf[u]] - accounts[c][Self][CodeOf[u]])
    BY <1>1, SurplusChange, ConverterAssumption DEF CInv
  <2>2. z \in Int /\ accounts' = accounts
    BY <1>2, ConverterAssumption
  <2>3. o \in Int /\ o2 \in Int /\ u \in Symbol
    BY ConverterAssumption DEF CInv, LedgersOK, LedgerOK, Ledger, Own
  <2>4. x \in Int /\ x2 \in Int /\ o2 - o = x2 - x
    BY MaxAmountAssumption DEF CInv, BooksOK, Balances
  <2>5. Surplus(u)' = Surplus(u) + o2 - o - (x2 - x) - (z - z)
    BY <2>1, <2>2
  <2> HIDE DEF z, o, o2, x, x2
  <2> QED
    BY <2>1, <2>2, <2>3, <2>4, <2>5
<1> QED
  BY <1>1, <1>2, <1>3 DEF StepOK, CInv, BooksStep, DepositStep

----------------------------------------------------------------------------
(* What a ledger must satisfy concerns each symbol alone.                  *)
LEMMA LedgerBySymbol ==
  ASSUME NEW M \in Ledger,
         \A s \in Symbol : \E K \in Ledger :
           /\ LedgerOK(K)
           /\ M.issuer[s] = K.issuer[s] /\ M.max_supply[s] = K.max_supply[s]
           /\ M.supply[s] = K.supply[s] /\ M.rows[s] = K.rows[s]
           /\ M.balance[s] = K.balance[s]
  PROVE  LedgerOK(M)
<1>1. ASSUME NEW s \in Symbol
      PROVE  /\ M.supply[s] = TotalBalance(M, s)
             /\ M.supply[s] \in 0..M.max_supply[s]
             /\ M.max_supply[s] <= MaxAmount
             /\ \A a \in Account :
                  /\ M.balance[s][a] >= 0
                  /\ M.balance[s][a] # 0 => a \in M.rows[s]
                  /\ a \in M.rows[s] => Exists(M, s)
  <2>1. PICK K \in Ledger :
          /\ LedgerOK(K)
          /\ M.issuer[s] = K.issuer[s] /\ M.max_supply[s] = K.max_supply[s]
          /\ M.supply[s] = K.supply[s] /\ M.rows[s] = K.rows[s]
          /\ M.balance[s] = K.balance[s]
    OBVIOUS
  <2>2. K.supply[s] = TotalBalance(K, s)
    BY <2>1 DEF LedgerOK, Backed
  <2>3. TotalBalance(M, s) = TotalBalance(K, s)
    BY <2>1 DEF TotalBalance
  <2>4. /\ K.supply[s] \in 0..K.max_supply[s]
        /\ K.max_supply[s] <= MaxAmount
        /\ \A a \in Account :
             /\ K.balance[s][a] >= 0
             /\ K.balance[s][a] # 0 => a \in K.rows[s]
             /\ a \in K.rows[s] => K.issuer[s] # NoAccount
    BY <2>1 DEF LedgerOK, Bounded, InRows, Exists
  <2> QED
    BY <2>1, <2>2, <2>3, <2>4 DEF Exists
<1> QED
  BY <1>1 DEF LedgerOK, Backed, Bounded, InRows

(* The payments of a liquidation, each in a token of its own.              *)
LEMMA PaymentsFacts ==
  ASSUME NEW L, LedgerOK(L), NEW a \in Account, NEW pay, NEW R \in SUBSET Symbol,
         \A t \in R : CanTransfer(L, Self, a, t, pay[t])
  PROVE  /\ LedgerOK(AfterPayments(L, a, pay, R))
         /\ AfterPayments(L, a, pay, R).issuer = L.issuer
         /\ \A t \in R : /\ pay[t] \in 1..MaxAmount
                         /\ Own(AfterPayments(L, a, pay, R), t) = Own(L, t) - pay[t]
         /\ \A t \in Symbol \ R :
              Own(AfterPayments(L, a, pay, R), t) = Own(L, t)
<1> DEFINE M == AfterPayments(L, a, pay, R)
           T(t) == AfterTransfer(L, Self, a, t, pay[t])
           b == [t \in Symbol |-> IF t \in R THEN T(t).balance[t] ELSE L.balance[t]]
           r == [t \in Symbol |-> IF t \in R THEN L.rows[t] \cup {a} ELSE L.rows[t]]
<1>1. Self \in Account /\ L \in Ledger
  BY ConverterAssumption DEF LedgerOK
<1>2. ASSUME NEW t \in R
      PROVE  /\ pay[t] \in 1..MaxAmount
             /\ LedgerOK(T(t)) /\ T(t) \in Ledger
             /\ T(t).issuer = L.issuer /\ T(t).max_supply = L.max_supply
             /\ T(t).supply = L.supply
             /\ T(t).rows[t] = L.rows[t] \cup {a}
             /\ T(t).balance[t][Self] = L.balance[t][Self] - pay[t]
             /\ T(t).balance[t] \in [Account -> Int]
  <2>1. CanTransfer(L, Self, a, t, pay[t]) /\ t \in Symbol
    OBVIOUS
  <2> DEFINE q == pay[t]
             K == T(t)
  <2>2. /\ q \in 1..MaxAmount /\ LedgerOK(K) /\ Self # a
        /\ Own(K, t) = Own(L, t) + (IF a = Self THEN q ELSE IF Self = Self THEN -q ELSE 0)
    BY <1>1, <2>1, TransferOwn
  <2>3. q \in Int /\ Own(L, t) \in Int
    BY <1>1, <2>1, <2>2 DEF Own, Ledger
  <2>4. K = [issuer     |-> L.issuer,
             max_supply |-> L.max_supply,
             supply     |-> L.supply,
             rows       |-> [L.rows EXCEPT ![t] = @ \cup {a}],
             balance    |-> Credited(Credited(L.balance, Self, t, -q), a, t, q)]
    BY <1>1, <2>1, <2>3, TransferFacts
  <2> HIDE DEF K, q
  <2>5. Own(K, t) = Own(L, t) - q
    BY <2>2, <2>3
  <2>6. /\ K.issuer = L.issuer /\ K.max_supply = L.max_supply /\ K.supply = L.supply
        /\ K.rows[t] = L.rows[t] \cup {a}
    BY <1>1, <2>1, <2>4 DEF Ledger
  <2>7. K \in Ledger /\ K.balance[t] \in [Account -> Int]
    BY <2>1, <2>2 DEF LedgerOK, Ledger
  <2> QED
    BY <2>2, <2>5, <2>6, <2>7 DEF Own, K, q
<1>3. M = [L EXCEPT !.rows = r, !.balance = b]
  BY <1>1 DEF AfterPayments, Ledger
<1> HIDE DEF M, T
<1>4. /\ b \in [Symbol -> [Account -> Int]] /\ r \in [Symbol -> SUBSET Account]
      /\ \A t \in R : b[t] = T(t).balance[t] /\ r[t] = T(t).rows[t]
      /\ \A t \in Symbol \ R : b[t] = L.balance[t] /\ r[t] = L.rows[t]
  BY <1>1, <1>2 DEF Ledger
<1> HIDE DEF b, r
<1>5. /\ M \in Ledger
      /\ M.issuer = L.issuer /\ M.max_supply = L.max_supply /\ M.supply = L.supply
      /\ M.rows = r /\ M.balance = b
  BY <1>1, <1>3, <1>4 DEF Ledger
<1>6. LedgerOK(M)
  <2>1. ASSUME NEW s \in Symbol
        PROVE  \E K \in Ledger :
                 /\ LedgerOK(K)
                 /\ M.issuer[s] = K.issuer[s] /\ M.max_supply[s] = K.max_supply[s]
                 /\ M.supply[s] = K.supply[s] /\ M.rows[s] = K.rows[s]
                 /\ M.balance[s] = K.balance[s]
    <3>1. CASE s \in R
      BY <1>2, <1>4, <1>5, <3>1
    <3>2. CASE s \notin R
      BY <1>1, <1>4, <1>5, <3>2
    <3> QED
      BY <3>1, <3>2
  <2> QED
    BY <1>5, <2>1, LedgerBySymbol
<1>7. \A t \in R : pay[t] \in 1..MaxAmount /\ Own(M, t) = Own(L, t) - pay[t]
  BY <1>2, <1>4, <1>5 DEF Own
<1>8. \A t \in Symbol \ R : Own(M, t) = Own(L, t)
  BY <1>4, <1>5 DEF Own
<1> QED
  BY <1>5, <1>6, <1>7, <1>8 DEF M

LEMMA LiquidateKeeps ==
  ASSUME CInv, NEW auth \in Account, NEW c \in Smart, NEW q, Liquidate(auth, c, q)
  PROVE  StepOK
<1> DEFINE pay == Returns(c, q)
           R == Reserves(c)
           held == AfterTransfer(ledger, auth, Self, c, q)
           paid == AfterPayments(held, auth, pay, R)
<1>1. /\ CanTransfer(ledger, auth, Self, c, q)
      /\ \A t \in R : CanModReserve(c, t, -pay[t]) /\ CanTransfer(held, Self, auth, t, pay[t])
      /\ CanRetire(paid, c, q)
      /\ reserve_balances' = [reserve_balances EXCEPT ![c] =
                                [t \in ReserveToken |-> @[t] - pay[t]]]
      /\ ledger' = AfterRetire(paid, c, q)
      /\ signer' = auth
      /\ UNCHANGED <<settings, converters, reserve_weights, accounts>>
  BY DEF Liquidate, Receives, Received
<1>2. /\ Self \in Account /\ c \in Symbol /\ R \subseteq ReserveToken
      /\ R \in SUBSET Symbol /\ c \notin R
  BY ConverterAssumption DEF CInv, BooksOK, Reserves
<1>3. \A t \in ReserveToken \ R : pay[t] = 0
  BY DEF Returns
<1> HIDE DEF pay, R, held, paid
<1>4. /\ q \in 1..MaxAmount /\ LedgerOK(held) /\ held.issuer = ledger.issuer
      /\ \A t \in Symbol : t # c => Own(held, t) = Own(ledger, t)
      /\ Own(held, c) = Own(ledger, c) + q
  BY <1>1, <1>2, TransferOwn DEF held, Own, CInv, LedgersOK
<1>5. /\ LedgerOK(paid) /\ paid.issuer = held.issuer
      /\ \A t \in R : pay[t] \in 1..MaxAmount /\ Own(paid, t) = Own(held, t) - pay[t]
      /\ \A t \in Symbol \ R : Own(paid, t) = Own(held, t)
  BY <1>1, <1>2, <1>4, PaymentsFacts DEF paid
<1>6. paid.issuer[c] = Self
  BY <1>1, <1>4, <1>5 DEF CInv, LedgersOK, CanRetire, Exists
<1>7. /\ LedgerOK(ledger') /\ ledger'.issuer = paid.issuer
      /\ \A t \in Symbol : t # c => Own(ledger', t) = Own(paid, t)
      /\ Own(ledger', c) = Own(paid, c) - q
  BY <1>1, <1>2, <1>5, <1>6, RetireOwn DEF Own
<1>8. LedgersOK' /\ RolesOK'
  BY <1>1, <1>4, <1>5, <1>7 DEF CInv, LedgersOK, RolesOK
<1>9. /\ reserve_balances \in [Smart -> [ReserveToken -> 0..MaxAmount]]
      /\ MaxAmount \in Nat
  BY MaxAmountAssumption DEF CInv, BooksOK, Balances
<1>10. ASSUME NEW t \in ReserveToken
       PROVE  /\ pay[t] \in Int /\ reserve_balances[c][t] \in Int
              /\ reserve_balances[c][t] - pay[t] \in 0..MaxAmount
  <2>1. reserve_balances[c][t] \in 0..MaxAmount /\ reserve_balances[c][t] \in Int
    BY <1>9
  <2>2. CASE t \in R
    BY <1>1, <1>5, <1>9, <2>1, <2>2 DEF CanModReserve, IsAmount
  <2>3. CASE t \notin R
    BY <1>3, <1>9, <2>1, <2>3
  <2> QED
    BY <2>1, <2>2, <2>3
<1>11. /\ reserve_balances' \in Balances
       /\ \A t \in ReserveToken : reserve_balances'[c][t] = reserve_balances[c][t] - pay[t]
       /\ \A e \in Smart : e # c => reserve_balances'[e] = reserve_balances[e]
  BY <1>1, <1>9, <1>10 DEF Balances
<1>12. ASSUME NEW u \in ReserveToken
       PROVE  Own(ledger', u) - Own(ledger, u)
                = reserve_balances'[c][u] - reserve_balances[c][u]
  <2> DEFINE o == Own(ledger, u)
             o2 == Own(ledger', u)
             x == reserve_balances[c][u]
             x2 == reserve_balances'[c][u]
             n == pay[u]
  <2>1. o \in Int /\ x \in Int /\ n \in Int /\ q \in Int
    BY <1>4, <1>10, SurplusIs DEF CInv
  <2>2. x2 = x - n
    BY <1>11
  <2>3. CASE u \in R
    <3>1. o2 = o - n
      BY <1>2, <1>4, <1>5, <1>7, <2>3
    <3>2. o2 - o = x2 - x
      <4> HIDE DEF o, o2, x, x2, n
      <4> QED
        BY <2>1, <2>2, <3>1
    <3> QED
      BY <3>2
  <2>4. CASE u \notin R /\ u # c
    <3>1. o2 = o /\ n = 0
      BY <1>3, <1>4, <1>5, <1>7, <2>4, ConverterAssumption
    <3>2. o2 - o = x2 - x
      <4> HIDE DEF o, o2, x, x2, n
      <4> QED
        BY <2>1, <2>2, <3>1
    <3> QED
      BY <3>2
  <2>5. CASE u = c
    <3>1. n = 0
      BY <1>2, <1>3, <2>5
    <3>2. Own(held, c) = o + q /\ Own(paid, c) = Own(held, c)
      BY <1>2, <1>4, <1>5, <2>5
    <3>3. o2 = Own(paid, c) - q
      BY <1>7, <2>5
    <3>4. o2 - o = x2 - x
      <4> HIDE DEF o, o2, x, x2, n
      <4> QED
        BY <2>1, <2>2, <3>1, <3>2, <3>3
    <3> QED
      BY <3>4
  <2> QED
    BY <1>2, <2>3, <2>4, <2>5
<1>13. \A u \in ReserveToken \ R : reserve_balances'[c][u] = reserve_balances[c][u]
  BY <1>3, <1>10, <1>11
<1> QED
  BY <1>1, <1>8, <1>11, <1>12, <1>13, ReservesFollowCoins DEF R

----------------------------------------------------------------------------
(* Conversions.                                                            *)
LEMMA ModReserveFacts ==
  ASSUME NEW b \in Balances, NEW c \in Smart, NEW t \in ReserveToken, NEW n,
         b[c][t] + n \in 0..MaxAmount
  PROVE  /\ ModReserve(b, c, t, n) \in Balances
         /\ ModReserve(b, c, t, n)[c][t] = b[c][t] + n
         /\ \A e \in Smart : e # c => ModReserve(b, c, t, n)[e] = b[e]
         /\ \A u \in ReserveToken : u # t => ModReserve(b, c, t, n)[c][u] = b[c][u]
<1> DEFINE x == b[c][t] + n
<1>1. ModReserve(b, c, t, n) = [b EXCEPT ![c][t] = x]
  BY DEF ModReserve
<1>2. x \in 0..MaxAmount
  OBVIOUS
<1> HIDE DEF x
<1>3. /\ [b EXCEPT ![c][t] = x] \in Balances
      /\ [b EXCEPT ![c][t] = x][c][t] = x
      /\ \A e \in Smart : e # c => [b EXCEPT ![c][t] = x][e] = b[e]
      /\ \A u \in ReserveToken : u # t => [b EXCEPT ![c][t] = x][c][u] = b[c][u]
  BY <1>2 DEF Balances
<1> QED
  BY <1>1, <1>3 DEF x

LEMMA CanModFacts ==
  ASSUME CInv, NEW c \in Smart, NEW t, NEW n \in Int, CanModReserve(c, t, n)
  PROVE  /\ t \in Reserves(c) /\ t \in ReserveToken /\ t \in Symbol /\ t # c
         /\ reserve_balances[c][t] \in Int
         /\ reserve_balances[c][t] + n \in 0..MaxAmount
<1>1. t \in Reserves(c) /\ t \in ReserveToken /\ t \in Symbol /\ t # c
  BY ConverterAssumption DEF CanModReserve, CInv, BooksOK, Reserves
<1>2. reserve_balances[c][t] \in 0..MaxAmount /\ MaxAmount \in Nat
  BY <1>1, MaxAmountAssumption DEF CInv, BooksOK, Balances
<1>3. /\ IsAmount(reserve_balances[c][t] + n)
      /\ reserve_balances[c][t] + n >= 0
  BY DEF CanModReserve
<1> QED
  BY <1>1, <1>2, <1>3 DEF IsAmount

(* A purchase or a sale: one reserve moves by what the account receives.   *)
LEMMA OneReserveKeeps ==
  ASSUME CInv, RolesOK', LedgersOK', NEW c \in Smart, NEW t, NEW n \in Int,
         CanModReserve(c, t, n),
         reserve_balances' = ModReserve(reserve_balances, c, t, n),
         UNCHANGED <<reserve_weights, accounts>>,
         Own(ledger', t) = Own(ledger, t) + n,
         \A u \in ReserveToken : u # t => Own(ledger', u) = Own(ledger, u)
  PROVE  StepOK
<1>1. /\ t \in Reserves(c) /\ t \in ReserveToken
      /\ reserve_balances[c][t] + n \in 0..MaxAmount
  BY CanModFacts
<1>2. /\ reserve_balances' \in Balances
      /\ reserve_balances'[c][t] = reserve_balances[c][t] + n
      /\ \A e \in Smart : e # c => reserve_balances'[e] = reserve_balances[e]
      /\ \A u \in ReserveToken : u # t => reserve_balances'[c][u] = reserve_balances[c][u]
  BY <1>1, ModReserveFacts DEF CInv, BooksOK
<1>3. ASSUME NEW u \in ReserveToken
      PROVE  Own(ledger', u) - Own(ledger, u)
               = reserve_balances'[c][u] - reserve_balances[c][u]
  <2> DEFINE o == Own(ledger, u)
             o2 == Own(ledger', u)
             x == reserve_balances[c][u]
             x2 == reserve_balances'[c][u]
  <2>1. o \in Int /\ x \in Int
    BY SurplusIs, MaxAmountAssumption DEF CInv, BooksOK, Balances
  <2>2. \/ o2 = o + n /\ x2 = x + n
        \/ o2 = o /\ x2 = x
    BY <1>2
  <2>3. o2 - o = x2 - x
    <3> HIDE DEF o, o2, x, x2
    <3> QED
      BY <2>1, <2>2
  <2> QED
    BY <2>3
<1> QED
  BY <1>1, <1>2, <1>3, ReservesFollowCoins

LEMMA ConvertToSmartKeeps ==
  ASSUME CInv, NEW c \in Smart, NEW t \in ReserveToken, NEW q \in Int,
         ConvertToSmart(c, t, q)
  PROVE  StepOK
<1> DEFINE a == settings.network
           n == PurchaseReturn(reserve_balances[c][t], q, ledger.supply[c],
                               reserve_weights[c][t], converters[c].fee)
           held == AfterTransfer(ledger, a, Self, t, q)
           made == AfterIssue(held, Self, c, n)
<1>1. /\ CanTransfer(ledger, a, Self, t, q) /\ a # NoAccount
      /\ CanModReserve(c, t, q)
      /\ CanIssue(held, Self, c, n)
      /\ CanTransfer(made, Self, a, c, n)
      /\ reserve_balances' = ModReserve(reserve_balances, c, t, q)
      /\ ledger' = AfterTransfer(made, Self, a, c, n)
      /\ signer' = a
      /\ UNCHANGED <<settings, converters, reserve_weights, accounts>>
  BY DEF ConvertToSmart, ConvertFrame, SendToNetwork, Receives, Received
<1>2. a \in Account /\ Self \in Account /\ c \in Symbol /\ t \in Symbol /\ t # c
  BY <1>1, CanModFacts, ConverterAssumption DEF CInv, RolesOK
<1> HIDE DEF a, n, held, made
<1>3. /\ LedgerOK(held) /\ held.issuer = ledger.issuer
      /\ Own(held, t) = Own(ledger, t) + q
      /\ \A u \in Symbol : u # t => Own(held, u) = Own(ledger, u)
  BY <1>1, <1>2, TransferOwn DEF held, Own, CInv, LedgersOK
<1>4. /\ n \in 1..MaxAmount /\ LedgerOK(made) /\ made.issuer = held.issuer
      /\ Own(made, c) = Own(held, c) + n
      /\ \A u \in Symbol : u # c => Own(made, u) = Own(held, u)
  BY <1>1, <1>2, <1>3, IssueOwn DEF made, Own
<1>5. /\ LedgerOK(ledger') /\ ledger'.issuer = made.issuer /\ Self # a
      /\ Own(ledger', c) = Own(made, c) + (IF a = Self THEN n ELSE IF Self = Self THEN -n ELSE 0)
      /\ \A u \in Symbol : u # c => Own(ledger', u) = Own(made, u)
  BY <1>1, <1>2, <1>4, TransferOwn DEF Own
<1>6. LedgersOK' /\ RolesOK'
  BY <1>1, <1>2, <1>3, <1>4, <1>5 DEF CInv, LedgersOK, RolesOK
<1>7. Own(ledger', t) = Own(ledger, t) + q
  BY <1>2, <1>3, <1>4, <1>5
<1>8. Own(ledger', c) = Own(ledger, c)
  <2>1. Own(ledger, c) \in Int /\ n \in Int
    BY <1>2, <1>4 DEF Own, CInv, LedgersOK, LedgerOK, Ledger
  <2>2. Own(held, c) = Own(ledger, c)
    BY <1>2, <1>3
  <2>3. Own(made, c) = Own(held, c) + n
    BY <1>4
  <2>4. Own(ledger', c) = Own(made, c) + (-n)
    BY <1>5
  <2> QED
    BY <2>1, <2>2, <2>3, <2>4
<1>9. \A u \in ReserveToken : u # t => Own(ledger', u) = Own(ledger, u)
  <2> SUFFICES ASSUME NEW u \in ReserveToken, u # t
               PROVE  Own(ledger', u) = Own(ledger, u)
    OBVIOUS
  <2>1. u \in Symbol
    BY ConverterAssumption
  <2>2. CASE u # c
    BY <1>3, <1>4, <1>5, <2>1, <2>2
  <2> QED
    BY <1>8, <2>2
<1> QED
  BY <1>1, <1>6, <1>7, <1>9, OneReserveKeeps

LEMMA ConvertToReserveKeeps ==
  ASSUME CInv, NEW c \in Smart, NEW t \in ReserveToken, NEW q \in Int,
         ConvertToReserve(c, t, q)
  PROVE  StepOK
<1> DEFINE a == settings.network
           n == SaleReturn(reserve_balances[c][t], q, ledger.supply[c],
                           reserve_weights[c][t], converters[c].fee)
           held == AfterTransfer(ledger, a, Self, c, q)
           left == AfterRetire(held, c, q)
<1>1. /\ CanTransfer(ledger, a, Self, c, q) /\ a # NoAccount
      /\ CanModReserve(c, t, -n)
      /\ CanRetire(held, c, q)
      /\ CanTransfer(left, Self, a, t, n)
      /\ reserve_balances' = ModReserve(reserve_balances, c, t, -n)
      /\ ledger' = AfterTransfer(left, Self, a, t, n)
      /\ signer' = a
      /\ UNCHANGED <<settings, converters, reserve_weights, accounts>>
  BY DEF ConvertToReserve, ConvertFrame, SendToNetwork, Receives, Received
<1>2. a \in Account /\ Self \in Account /\ c \in Symbol /\ t \in Symbol
  BY <1>1, ConverterAssumption DEF CInv, RolesOK
<1> HIDE DEF a, n, held, left
<1>3. n \in 1..MaxAmount /\ n \in Int /\ -n \in Int
  BY <1>1, MaxAmountAssumption DEF CanTransfer, IsAmount
<1>4. t # c
  BY <1>1, <1>3, CanModFacts
<1>5. /\ LedgerOK(held) /\ held.issuer = ledger.issuer
      /\ Own(held, c) = Own(ledger, c) + q
      /\ \A u \in Symbol : u # c => Own(held, u) = Own(ledger, u)
  BY <1>1, <1>2, TransferOwn DEF held, Own, CInv, LedgersOK
<1>6. held.issuer[c] = Self
  BY <1>1, <1>5 DEF CInv, LedgersOK, CanRetire, Exists
<1>7. /\ LedgerOK(left) /\ left.issuer = held.issuer
      /\ Own(left, c) = Own(held, c) - q
      /\ \A u \in Symbol : u # c => Own(left, u) = Own(held, u)
  BY <1>1, <1>2, <1>5, <1>6, RetireOwn DEF left, Own
<1>8. /\ LedgerOK(ledger') /\ ledger'.issuer = left.issuer /\ Self # a
      /\ Own(ledger', t) = Own(left, t) + (IF a = Self THEN n ELSE IF Self = Self THEN -n ELSE 0)
      /\ \A u \in Symbol : u # t => Own(ledger', u) = Own(left, u)
  BY <1>1, <1>2, <1>7, TransferOwn DEF Own
<1>9. LedgersOK' /\ RolesOK'
  BY <1>1, <1>2, <1>5, <1>7, <1>8 DEF CInv, LedgersOK, RolesOK
<1>10. Own(ledger', t) = Own(ledger, t) + (-n)
  BY <1>2, <1>4, <1>5, <1>7, <1>8
<1>11. Own(ledger', c) = Own(ledger, c)
  <2>1. Own(ledger, c) \in Int
    BY <1>2 DEF Own, CInv, LedgersOK, LedgerOK, Ledger
  <2>2. Own(held, c) = Own(ledger, c) + q
    BY <1>5
  <2>3. Own(left, c) = Own(held, c) - q
    BY <1>7
  <2>4. Own(ledger', c) = Own(left, c)
    BY <1>2, <1>4, <1>8
  <2> QED
    BY <2>1, <2>2, <2>3, <2>4
<1>12. \A u \in ReserveToken : u # t => Own(ledger', u) = Own(ledger, u)
  <2> SUFFICES ASSUME NEW u \in ReserveToken, u # t
               PROVE  Own(ledger', u) = Own(ledger, u)
    OBVIOUS
  <2>1. u \in Symbol
    BY ConverterAssumption
  <2>2. CASE u # c
    BY <1>5, <1>7, <1>8, <2>1, <2>2
  <2> QED
    BY <1>11, <2>2
<1> QED
  BY <1>1, <1>3, <1>9, <1>10, <1>12, OneReserveKeeps

(* An exchange moves two reserves: what comes in, and what goes out.       *)
LEMMA ConvertAcrossKeeps ==
  ASSUME CInv, NEW c \in Smart, NEW t \in ReserveToken, NEW r \in ReserveToken,
         NEW q \in Int, ConvertAcross(c, t, r, q)
  PROVE  StepOK
<1> DEFINE a == settings.network
           n == CrossReturn(reserve_balances[c][t], reserve_weights[c][t], q,
                            reserve_balances[c][r], reserve_weights[c][r],
                            converters[c].fee)
           held == AfterTransfer(ledger, a, Self, t, q)
           mid == ModReserve(reserve_balances, c, t, q)
<1>1. /\ CanTransfer(ledger, a, Self, t, q) /\ a # NoAccount /\ t # r
      /\ CanModReserve(c, t, q)
      /\ CanModReserve(c, r, -n)
      /\ CanTransfer(held, Self, a, r, n)
      /\ reserve_balances' = ModReserve(mid, c, r, -n)
      /\ ledger' = AfterTransfer(held, Self, a, r, n)
      /\ signer' = a
      /\ UNCHANGED <<settings, converters, reserve_weights, accounts>>
  BY DEF ConvertAcross, Distinct, ConvertFrame, SendToNetwork, Receives, Received
<1>2. a \in Account /\ Self \in Account /\ t \in Symbol /\ r \in Symbol
  BY <1>1, ConverterAssumption DEF CInv, RolesOK
<1> HIDE DEF a, n, held, mid
<1>3. n \in 1..MaxAmount /\ n \in Int /\ -n \in Int
  BY <1>1, MaxAmountAssumption DEF CanTransfer, IsAmount
<1>4. /\ t \in Reserves(c) /\ reserve_balances[c][t] + q \in 0..MaxAmount
      /\ r \in Reserves(c) /\ reserve_balances[c][r] + (-n) \in 0..MaxAmount
      /\ reserve_balances[c][t] \in Int /\ reserve_balances[c][r] \in Int
  BY <1>1, <1>3, CanModFacts
<1>5. /\ mid \in Balances /\ mid[c][t] = reserve_balances[c][t] + q
      /\ \A e \in Smart : e # c => mid[e] = reserve_balances[e]
      /\ \A u \in ReserveToken : u # t => mid[c][u] = reserve_balances[c][u]
  BY <1>4, ModReserveFacts DEF mid, CInv, BooksOK
<1>6. mid[c][r] = reserve_balances[c][r] /\ mid[c][r] + (-n) \in 0..MaxAmount
  BY <1>1, <1>4, <1>5
<1>7. /\ reserve_balances' \in Balances
      /\ reserve_balances'[c][r] = mid[c][r] + (-n)
      /\ \A e \in Smart : e # c => reserve_balances'[e] = mid[e]
      /\ \A u \in ReserveToken : u # r => reserve_balances'[c][u] = mid[c][u]
  BY <1>1, <1>5, <1>6, ModReserveFacts
<1>8. /\ LedgerOK(held) /\ held.issuer = ledger.issuer
      /\ Own(held, t) = Own(ledger, t) + q
      /\ \A u \in Symbol : u # t => Own(held, u) = Own(ledger, u)
  BY <1>1, <1>2, TransferOwn DEF held, Own, CInv, LedgersOK
<1>9. /\ LedgerOK(ledger') /\ ledger'.issuer = held.issuer /\ Self # a
      /\ Own(ledger', r) = Own(held, r) + (IF a = Self THEN n ELSE IF Self = Self THEN -n ELSE 0)
      /\ \A u \in Symbol : u # r => Own(ledger', u) = Own(held, u)
  BY <1>1, <1>2, <1>8, TransferOwn DEF Own
<1>10. LedgersOK' /\ RolesOK'
  BY <1>1, <1>2, <1>8, <1>9 DEF CInv, LedgersOK, RolesOK
<1>11. ASSUME NEW u \in ReserveToken
       PROVE  Own(ledger', u) - Own(ledger, u)
                = reserve_balances'[c][u] - reserve_balances[c][u]
  <2> DEFINE o == Own(ledger, u)
             o2 == Own(ledger', u)
             x == reserve_balances[c][u]
             x2 == reserve_balances'[c][u]
  <2>1. o \in Int /\ x \in Int /\ u \in Symbol
    BY SurplusIs, MaxAmountAssumption, ConverterAssumption DEF CInv, BooksOK, Balances
  <2>2. CASE u = t
    <3>1. o2 = o + q
      BY <1>1, <1>8, <1>9, <2>1, <2>2
    <3>2. x2 = x + q
      BY <1>1, <1>5, <1>7, <2>2
    <3>3. o2 - o = x2 - x
      <4> HIDE DEF o, o2, x, x2
      <4> QED
        BY <2>1, <3>1, <3>2
    <3> QED
      BY <3>3
  <2>3. CASE u = r
    <3>1. o2 = o + (-n)
      BY <1>1, <1>2, <1>8, <1>9, <2>1, <2>3
    <3>2. x2 = x + (-n)
      BY <1>6, <1>7, <2>3
    <3>3. o2 - o = x2 - x
      <4> HIDE DEF o, o2, x, x2
      <4> QED
        BY <1>3, <2>1, <3>1, <3>2
    <3> QED
      BY <3>3
  <2>4. CASE u # t /\ u # r
    <3>1. o2 = o /\ x2 = x
      BY <1>5, <1>7, <1>8, <1>9, <2>1, <2>4
    <3>2. o2 - o = x2 - x
      <4> HIDE DEF o, o2, x, x2
      <4> QED
        BY <2>1, <3>1
    <3> QED
      BY <3>2
  <2> QED
    BY <2>2, <2>3, <2>4
<1>12. /\ \A e \in Smart : e # c => reserve_balances'[e] = reserve_balances[e]
       /\ \A u \in ReserveToken \ Reserves(c) :
            reserve_balances'[c][u] = reserve_balances[c][u]
  BY <1>4, <1>5, <1>7
<1> QED
  BY <1>1, <1>7, <1>10, <1>11, <1>12, ReservesFollowCoins

----------------------------------------------------------------------------
(* Every transaction keeps the invariant.                                  *)
LEMMA NextKeeps ==
  ASSUME CInv, Next
  PROVE  StepOK
<1>1. ASSUME NEW auth \in Account, Administer(auth) PROVE StepOK
  BY <1>1, AdministerKeeps
<1>2. ASSUME NEW auth \in Account, Provide(auth) PROVE StepOK
  <2>1. PICK c \in Smart, q \in Quantity :
          \/ Fund(auth, c, q)
          \/ Liquidate(auth, c, q)
          \/ \E t \in ReserveToken : Deposit(auth, c, t, q) \/ Withdraw(auth, c, t, q)
    BY <1>2 DEF Provide
  <2>2. q \in Int
    BY ConverterAssumption
  <2> QED
    BY <2>1, <2>2, FundKeeps, LiquidateKeeps, DepositKeeps, WithdrawKeeps
<1>3. ASSUME NEW auth \in Account, NEW to \in Payee, NEW t \in Symbol,
             NEW q \in Quantity, Transfer(auth, to, t, q)
      PROVE  StepOK
  BY <1>3, TransferKeeps, ConverterAssumption
<1>4. ASSUME Trade PROVE StepOK
  <2>1. PICK c \in Smart, t \in ReserveToken, q \in Quantity :
          \/ ConvertToSmart(c, t, q)
          \/ ConvertToReserve(c, t, q)
          \/ \E r \in ReserveToken : ConvertAcross(c, t, r, q)
    BY <1>4 DEF Trade
  <2>2. q \in Int
    BY ConverterAssumption
  <2> QED
    BY <2>1, <2>2, ConvertToSmartKeeps, ConvertToReserveKeeps, ConvertAcrossKeeps
<1> QED
  BY <1>1, <1>2, <1>3, <1>4 DEF Next

LEMMA StutterKeeps ==
  ASSUME CInv, UNCHANGED vars
  PROVE  CInv'
BY DEF CInv, BooksOK, RolesOK, LedgersOK, Reserves, vars

(* The difference is a number after the step as well.                     *)
LEMMA SurplusTypeNext ==
  ASSUME CInv'
  PROVE  \A t \in ReserveToken : Surplus(t)' \in Int
<1> TAKE t \in ReserveToken
<1> DEFINE P == Smart \X Account
           f == [e \in Smart |-> reserve_balances'[e][t]]
           g == [p \in P |-> accounts'[p[1]][p[2]][CodeOf[t]]]
           o == ledger'.balance[t][Self]
<1>1. o \in Int
  BY ConverterAssumption DEF CInv, LedgersOK, LedgerOK, Ledger
<1>2. (\A e \in Smart : f[e] \in Int) /\ (\A p \in P : g[p] \in Int)
  BY ConverterAssumption, MaxAmountAssumption DEF CInv, BooksOK, Balances, Deposits
<1>3. IsFiniteSet(Smart) /\ IsFiniteSet(P)
  BY FiniteBooks
<1>4. Surplus(t)' = o - (SumFunctionOnSet(f, Smart) + SumFunctionOnSet(g, P))
  BY DEF Surplus, Booked
<1> HIDE DEF f, g, P, o
<1>5. SumFunctionOnSet(f, Smart) \in Int /\ SumFunctionOnSet(g, P) \in Int
  BY <1>2, <1>3, SumType
<1> QED
  BY <1>1, <1>4, <1>5

LEMMA InitialLedgerOK ==
  /\ LedgerOK(InitialLedger)
  /\ \A c \in Smart : InitialLedger.issuer[c] = NoAccount
<1>1. InitialLedger \in Ledger
  <2>1. \A t \in Symbol : SumFunctionOnSet(InitialBalance[t], Account) \in Int
    BY ConverterAssumption, MaxAmountAssumption
  <2>2. InitialBalance \in [Symbol -> [Account -> Int]]
    BY ConverterAssumption
  <2> QED
    BY <2>1, <2>2, ConverterAssumption, MaxAmountAssumption DEF InitialLedger, Ledger
<1>2. ASSUME NEW c \in Smart
      PROVE  c \in Symbol /\ SumFunctionOnSet(InitialBalance[c], Account) = 0
  <2> DEFINE f == InitialBalance[c]
  <2>1. c \in Symbol /\ \A a \in Account : f[a] \in Int /\ f[a] = 0
    BY ConverterAssumption
  <2> HIDE DEF f
  <2>2. SumFunctionOnSet(f, Account) = 0
    BY <2>1, AccountAssumption, SumZero
  <2> QED
    BY <2>1, <2>2 DEF f
<1>3. Backed(InitialLedger)
  BY DEF Backed, TotalBalance, InitialLedger
<1>4. Bounded(InitialLedger)
  <2> SUFFICES ASSUME NEW s \in Symbol
               PROVE  /\ InitialLedger.supply[s] \in 0..InitialLedger.max_supply[s]
                      /\ InitialLedger.max_supply[s] <= MaxAmount
                      /\ \A a \in Account : InitialLedger.balance[s][a] >= 0
    BY DEF Bounded
  <2>1. /\ InitialLedger.supply[s] = SumFunctionOnSet(InitialBalance[s], Account)
        /\ InitialLedger.max_supply[s] = IF s \in Smart THEN 0 ELSE MaxAmount
        /\ InitialLedger.balance[s] = InitialBalance[s]
    BY DEF InitialLedger
  <2>2. SumFunctionOnSet(InitialBalance[s], Account) \in 0..MaxAmount
    BY ConverterAssumption
  <2>3. \A a \in Account : InitialBalance[s][a] >= 0
    BY ConverterAssumption
  <2> QED
    BY <1>2, <2>1, <2>2, <2>3, MaxAmountAssumption
<1>5. InRows(InitialLedger)
  <2> SUFFICES ASSUME NEW a \in Account, NEW s \in Symbol
               PROVE  /\ InitialLedger.balance[s][a] # 0 => a \in InitialLedger.rows[s]
                      /\ a \in InitialLedger.rows[s] => InitialLedger.issuer[s] # NoAccount
    BY DEF InRows, Exists
  <2>1. CASE s \in Smart
    BY <2>1, ConverterAssumption DEF InitialLedger
  <2>2. CASE s \notin Smart
    BY <2>2, ConverterAssumption, NoAccountAssumption DEF InitialLedger
  <2> QED
    BY <2>1, <2>2
<1>6. \A c \in Smart : InitialLedger.issuer[c] = NoAccount
  BY ConverterAssumption DEF InitialLedger
<1> QED
  BY <1>1, <1>3, <1>4, <1>5, <1>6 DEF LedgerOK

(* Nothing is booked at first, and the account holds nothing.              *)
LEMMA InitKeeps ==
  ASSUME Init
  PROVE  CInv /\ Solvent
<1>1. LedgersOK
  BY InitialLedgerOK DEF Init, LedgersOK
<1>2. RolesOK
  BY FormulaAssumption DEF Init, RolesOK, NoConverter
<1>3. /\ \A c \in Smart, t \in ReserveToken :
           reserve_weights[c][t] = 0 /\ reserve_balances[c][t] = 0
      /\ \A c \in Smart, a \in Account, k \in Code : accounts[c][a][k] = 0
      /\ ledger = InitialLedger
  BY DEF Init
<1>4. \A c \in Smart : Reserves(c) = {}
  BY <1>3 DEF Reserves
<1>5. BooksOK
  <2>1. 0 \in 0..PPM_RESOLUTION /\ 0 \in 0..MaxAmount
    BY FormulaAssumption, MaxAmountAssumption
  <2> QED
    BY <1>3, <1>4, <2>1 DEF Init, BooksOK, Balances, Deposits
<1>6. ASSUME NEW t \in ReserveToken PROVE Surplus(t) >= 0
  <2> DEFINE P == Smart \X Account
             f == [e \in Smart |-> reserve_balances[e][t]]
             g == [p \in P |-> accounts[p[1]][p[2]][CodeOf[t]]]
  <2>1. (\A e \in Smart : f[e] \in Int /\ f[e] = 0)
    BY <1>3
  <2>2. CodeOf[t] \in Code
    BY ConverterAssumption
  <2>3. (\A p \in P : g[p] \in Int /\ g[p] = 0)
    BY <1>3, <2>2
  <2>4. IsFiniteSet(Smart) /\ IsFiniteSet(P)
    BY FiniteBooks
  <2>5. Booked(t) = SumFunctionOnSet(f, Smart) + SumFunctionOnSet(g, P)
    BY DEF Booked
  <2>6. ledger.balance[t][Self] = 0
    BY <1>3, ConverterAssumption DEF InitialLedger
  <2>7. Booked(t) = 0
    <3> HIDE DEF f, g, P
    <3>1. SumFunctionOnSet(f, Smart) = 0 /\ SumFunctionOnSet(g, P) = 0
      BY <2>1, <2>3, <2>4, SumZero
    <3> QED
      BY <2>5, <3>1
  <2> QED
    BY <2>6, <2>7 DEF Surplus
<1> QED
  BY <1>1, <1>2, <1>5, <1>6 DEF CInv, Solvent

LEMMA InvariantHolds == Spec => []CInv
<1>1. Init => CInv
  BY InitKeeps
<1>2. CInv /\ [Next]_vars => CInv'
  BY NextKeeps, StutterKeeps DEF StepOK
<1> QED
  BY <1>1, <1>2, PTL DEF Spec

(* The tables keep their types and the amounts their range, whatever the   *)
(* formulas return: every result passes through a checked table.           *)
THEOREM ConverterTypeCorrect == Spec => []TypeOK
<1>1. CInv => TypeOK
  BY DEF CInv, BooksOK, RolesOK, LedgersOK, LedgerOK, Balances, Deposits, TypeOK
<1> QED
  BY <1>1, InvariantHolds, PTL

(* As long as no two tokens share a symbol code, what the one account      *)
(* holds of a token covers the reserves and deposits of all converters.    *)
THEOREM ConverterSolvent ==
  ASSUME CodesDiffer
  PROVE  Spec => []Solvent
<1>1. Init => Solvent
  BY InitKeeps
<1>2. CInv /\ Solvent /\ [Next]_vars => Solvent'
  <2> SUFFICES ASSUME CInv, Solvent, [Next]_vars, NEW t \in ReserveToken
               PROVE  Surplus(t)' >= 0
    BY DEF Solvent
  <2>1. Surplus(t) >= 0 /\ Surplus(t) \in Int
    BY SurplusIs DEF Solvent, CInv
  <2>2. CASE UNCHANGED vars
    BY <2>1, <2>2 DEF vars, Surplus, Booked
  <2>3. CASE Next
    <3>1. BooksStep /\ CInv'
      BY <2>3, NextKeeps DEF StepOK
    <3>2. Surplus(t)' \in Int
      BY <3>1, SurplusTypeNext DEF CInv
    <3> QED
      BY <2>1, <3>1, <3>2 DEF BooksStep
  <2> QED
    BY <2>2, <2>3
<1> QED
  BY <1>1, <1>2, InvariantHolds, PTL DEF Spec

(* Under the same condition a step changes the difference between coins    *)
(* and books only by coins nobody is credited for.                         *)
THEOREM ConverterBooksFollowCoins ==
  ASSUME CodesDiffer
  PROVE  Spec => BooksFollowCoins
<1>1. CInv /\ [Next]_vars => [BooksStep]_vars
  BY NextKeeps DEF StepOK
<1> QED
  BY <1>1, InvariantHolds, PTL DEF Spec, BooksFollowCoins, BooksStep

(* Under the same condition nobody spends the deposit of another, and what *)
(* a deposit loses is in its holder's wallet or in the reserves.           *)
THEOREM ConverterDepositorControls ==
  ASSUME CodesDiffer
  PROVE  Spec => DepositorControls
<1>1. CInv /\ [Next]_vars => [DepositStep]_vars
  BY NextKeeps DEF StepOK
<1> QED
  BY <1>1, InvariantHolds, PTL DEF Spec, DepositorControls, DepositStep

----------------------------------------------------------------------------
(* The product of the reserves, for any balances b and weights w on S.     *)
PoolOf(b, w, S) == ProductOnSet([t \in S |-> Power(b[t], w[t])], S)

LEMMA PoolType ==
  ASSUME NEW S, IsFiniteSet(S), NEW b, \A t \in S : b[t] \in Nat,
         NEW w, \A t \in S : w[t] \in Nat
  PROVE  /\ PoolOf(b, w, S) \in Int /\ PoolOf(b, w, S) >= 0
         /\ \A t \in S : b[t] = 0 /\ w[t] > 0 => PoolOf(b, w, S) = 0
<1> DEFINE f == [t \in S |-> Power(b[t], w[t])]
<1>1. ASSUME NEW t \in S
      PROVE  f[t] \in Nat /\ (b[t] = 0 /\ w[t] > 0 => f[t] = 0)
  <2>1. f[t] = Power(b[t], w[t]) /\ b[t] \in Nat /\ w[t] \in Nat
    OBVIOUS
  <2> HIDE DEF f
  <2> QED
    BY <2>1, NaturalPower
<1>2. PoolOf(b, w, S) = ProductOnSet(f, S)
  BY DEF PoolOf
<1> HIDE DEF f
<1>3. /\ ProductOnSet(f, S) \in Int /\ ProductOnSet(f, S) >= 0
      /\ \A t \in S : f[t] = 0 => ProductOnSet(f, S) = 0
  BY <1>1, ProductSign
<1> QED
  BY <1>1, <1>2, <1>3

(* One reserve taken out of the product.                                   *)
LEMMA PoolWithout ==
  ASSUME NEW S, IsFiniteSet(S), NEW b, \A t \in S : b[t] \in Nat,
         NEW w, \A t \in S : w[t] \in Nat, NEW r \in S
  PROVE  PoolOf(b, w, S) = Power(b[r], w[r]) * PoolOf(b, w, S \ {r})
<1> DEFINE f == [t \in S |-> Power(b[t], w[t])]
           X == S \ {r}
           g == [t \in X |-> Power(b[t], w[t])]
<1>1. /\ \A t \in S : f[t] \in Int
      /\ \A t \in X : f[t] \in Int /\ g[t] = f[t]
      /\ f[r] = Power(b[r], w[r])
  BY PowerType
<1>2. PoolOf(b, w, S) = ProductOnSet(f, S) /\ PoolOf(b, w, X) = ProductOnSet(g, X)
  BY DEF PoolOf
<1>3. IsFiniteSet(X)
  BY FS_Subset
<1> HIDE DEF f, g
<1>4. ProductOnSet(f, S) = f[r] * ProductOnSet(f, X)
  BY <1>1, ProductWithout
<1> HIDE DEF X
<1>5. ProductOnSet(g, X) = ProductOnSet(f, X)
  BY <1>1, <1>3, ProductSame
<1> QED
  BY <1>1, <1>2, <1>4, <1>5 DEF X

LEMMA PoolSame ==
  ASSUME NEW S, IsFiniteSet(S), NEW b, \A t \in S : b[t] \in Nat,
         NEW w, \A t \in S : w[t] \in Nat, NEW b2, \A t \in S : b2[t] = b[t]
  PROVE  PoolOf(b2, w, S) = PoolOf(b, w, S)
<1> DEFINE f == [t \in S |-> Power(b[t], w[t])]
           g == [t \in S |-> Power(b2[t], w[t])]
<1>1. \A t \in S : f[t] \in Int /\ g[t] = f[t]
  BY PowerType
<1>2. PoolOf(b, w, S) = ProductOnSet(f, S) /\ PoolOf(b2, w, S) = ProductOnSet(g, S)
  BY DEF PoolOf
<1> HIDE DEF f, g
<1> QED
  BY <1>1, <1>2, ProductSame

(* An inequality about one reserve is one about the product, where the     *)
(* others stay as they are.                                                *)
LEMMA PoolOneReserve ==
  ASSUME NEW S, IsFiniteSet(S), NEW w, \A t \in S : w[t] \in Nat,
         NEW b, \A t \in S : b[t] \in Nat, NEW b2, \A t \in S : b2[t] \in Nat,
         NEW r \in S, \A t \in S : t # r => b2[t] = b[t],
         NEW x \in Nat, NEW y \in Nat,
         Power(b[r], w[r]) * y <= Power(b2[r], w[r]) * x
  PROVE  PoolOf(b, w, S) * y <= PoolOf(b2, w, S) * x
<1> DEFINE D == PoolOf(b, w, S \ {r})
           p == Power(b[r], w[r])
           p2 == Power(b2[r], w[r])
<1>1. PoolOf(b, w, S) = p * D
  BY PoolWithout
<1>2. PoolOf(b2, w, S) = p2 * D
  <2>1. PoolOf(b2, w, S) = p2 * PoolOf(b2, w, S \ {r})
    BY PoolWithout
  <2>2. PoolOf(b2, w, S \ {r}) = D
    <3> DEFINE X == S \ {r}
    <3>1. /\ IsFiniteSet(X)
          /\ \A t \in X : b[t] \in Nat /\ w[t] \in Nat /\ b2[t] = b[t]
      BY FS_Subset
    <3> HIDE DEF X
    <3>2. PoolOf(b2, w, X) = PoolOf(b, w, X)
      BY <3>1, PoolSame
    <3> QED
      BY <3>2 DEF X
  <2> QED
    BY <2>1, <2>2
<1>3. D \in Int /\ D >= 0
  <2> DEFINE X == S \ {r}
  <2>1. IsFiniteSet(X) /\ \A t \in X : b[t] \in Nat /\ w[t] \in Nat
    BY FS_Subset
  <2> HIDE DEF X
  <2>2. PoolOf(b, w, X) \in Int /\ PoolOf(b, w, X) >= 0
    BY <2>1, PoolType
  <2> QED
    BY <2>2 DEF X
<1>4. p \in Int /\ p2 \in Int /\ p >= 0
  <2>1. b[r] \in Nat /\ b2[r] \in Nat /\ w[r] \in Nat
    OBVIOUS
  <2>2. p \in Nat /\ p2 \in Nat
    BY <2>1, NaturalPower
  <2> QED
    BY <2>2
<1>5. p * y <= p2 * x
  OBVIOUS
<1> HIDE DEF D, p, p2
<1>6. p * y \in Int /\ p2 * x \in Int /\ p * y >= 0
  BY <1>4, TimesSign
<1>7. D * (p * y) <= D * (p2 * x)
  BY <1>3, <1>5, <1>6, TimesMono
<1>8. (p * D) * y = D * (p * y) /\ (p2 * D) * x = D * (p2 * x)
  BY <1>3, <1>4, Z3
<1> QED
  BY <1>1, <1>2, <1>7, <1>8

(* The same for two reserves.                                              *)
LEMMA PoolTwoReserves ==
  ASSUME NEW S, IsFiniteSet(S), NEW w, \A t \in S : w[t] \in Nat,
         NEW b, \A t \in S : b[t] \in Nat, NEW b2, \A t \in S : b2[t] \in Nat,
         NEW r \in S, NEW u \in S, r # u,
         \A t \in S : t # r /\ t # u => b2[t] = b[t],
         Power(b[r], w[r]) * Power(b[u], w[u]) <= Power(b2[r], w[r]) * Power(b2[u], w[u])
  PROVE  PoolOf(b, w, S) <= PoolOf(b2, w, S)
<1> DEFINE X == S \ {r}
           p == Power(b[r], w[r])
           p2 == Power(b2[r], w[r])
           q == Power(b[u], w[u])
           q2 == Power(b2[u], w[u])
<1>1. /\ p \in Nat /\ p2 \in Nat /\ q \in Nat /\ q2 \in Nat
      /\ p * q <= p2 * q2
  <2>1. /\ b[r] \in Nat /\ b2[r] \in Nat /\ b[u] \in Nat /\ b2[u] \in Nat
        /\ w[r] \in Nat /\ w[u] \in Nat
    OBVIOUS
  <2> QED
    BY <2>1, NaturalPower
<1>2. PoolOf(b, w, S) = p * PoolOf(b, w, X) /\ PoolOf(b2, w, S) = p2 * PoolOf(b2, w, X)
  BY PoolWithout
<1>3. /\ IsFiniteSet(X) /\ u \in X
      /\ \A t \in X : /\ b[t] \in Nat /\ w[t] \in Nat /\ b2[t] \in Nat
                      /\ t # u => b2[t] = b[t]
  BY FS_Subset
<1>4. q * p <= q2 * p2
  BY <1>1, TimesSign
<1> HIDE DEF X, p, p2
<1>5. PoolOf(b, w, X) * p <= PoolOf(b2, w, X) * p2
  <2> HIDE DEF q, q2
  <2>1. \A x, y \in Nat : Power(b[u], w[u]) * y <= Power(b2[u], w[u]) * x =>
          PoolOf(b, w, X) * y <= PoolOf(b2, w, X) * x
    BY <1>3, PoolOneReserve
  <2> QED
    BY <1>1, <1>4, <2>1 DEF q, q2
<1>6. PoolOf(b, w, X) \in Int /\ PoolOf(b2, w, X) \in Int
  BY <1>3, PoolType
<1> QED
  BY <1>1, <1>2, <1>5, <1>6, TimesSign

(* When every reserve gives the same share, the whole product does: all    *)
(* the inequalities together, and the root of the sum of the weights.      *)
LEMMA PoolAllReserves ==
  ASSUME NEW S, IsFiniteSet(S), NEW w, \A t \in S : w[t] \in Nat,
         NEW b, \A t \in S : b[t] \in Nat, NEW b2, \A t \in S : b2[t] \in Nat,
         NEW W \in Nat \ {0}, W = SumFunctionOnSet(w, S),
         NEW x \in Nat, NEW y \in Nat,
         \A t \in S : Power(b[t], W) * y <= Power(b2[t], W) * x
  PROVE  PoolOf(b, w, S) * y <= PoolOf(b2, w, S) * x
<1> DEFINE B == PoolOf(b, w, S)
           A == PoolOf(b2, w, S)
<1>1. Power(B, W) * Power(y, W) <= Power(A, W) * Power(x, W)
  BY WeightedProduct DEF PoolOf
<1>2. B \in Int /\ A \in Int /\ B >= 0 /\ A >= 0
  BY PoolType
<1> HIDE DEF A, B
<1>3. Power(B * y, W) <= Power(A * x, W)
  BY <1>1, <1>2, PowerOfProduct
<1>4. B * y \in Int /\ A * x \in Int /\ B * y >= 0 /\ A * x >= 0
  BY <1>2, TimesSign
<1>5. B * y <= A * x
  BY <1>3, <1>4, PowerCancel
<1> QED
  BY <1>5 DEF A, B

----------------------------------------------------------------------------
(* Steps of the contract, seen from one converter: the bodies of           *)
(* PoolValueNeverFalls and ActivationIsStable.                             *)
ValueStep(c) ==
  (IsConverter(c) /\ Reserves(c) # {} /\ reserve_weights'[c] = reserve_weights[c])
  => Product(c)' * Power(ledger.supply[c], PPM_RESOLUTION)
       >= Product(c) * Power(ledger'.supply[c], PPM_RESOLUTION)

ActiveStep(c) ==
  (IsConverter(c) /\ Active(c) /\ ~ Active(c)') =>
    \/ Reserves(c) # Reserves(c)' /\ signer' = converters[c].owner
    \/ ledger.supply[c] > 0 /\ ledger'.supply[c] = 0

PoolOK == \A c \in Smart : ValueStep(c) /\ ActiveStep(c)

(* The reserves of a converter, and its supply.                            *)
LEMMA ReservesFacts ==
  ASSUME CInv, NEW c \in Smart
  PROVE  /\ IsFiniteSet(Reserves(c)) /\ Reserves(c) \subseteq ReserveToken
         /\ \A t \in Reserves(c) : /\ reserve_balances[c][t] \in Nat
                                   /\ reserve_weights[c][t] \in Nat \ {0}
         /\ ledger.supply[c] \in Nat
         /\ converters[c].fee \in 0..MAX_FEE
         /\ c \in Symbol
         /\ Product(c) = PoolOf(reserve_balances[c], reserve_weights[c], Reserves(c))
<1>1. IsFiniteSet(Reserves(c)) /\ Reserves(c) \subseteq ReserveToken
  <2>1. Reserves(c) \subseteq ReserveToken
    BY DEF Reserves
  <2> QED
    BY <2>1, ConverterAssumption, FS_Subset
<1>2. ASSUME NEW t \in Reserves(c)
      PROVE  reserve_balances[c][t] \in Nat /\ reserve_weights[c][t] \in Nat \ {0}
  BY <1>1, MaxAmountAssumption, FormulaAssumption DEF CInv, BooksOK, Balances, Reserves
<1>3. ledger.supply[c] \in Nat /\ c \in Symbol
  <2>1. c \in Symbol
    BY ConverterAssumption
  <2>2. /\ ledger.supply[c] \in 0..ledger.max_supply[c]
        /\ ledger.max_supply[c] \in Int
    BY <2>1 DEF CInv, LedgersOK, LedgerOK, Bounded, Ledger
  <2> QED
    BY <2>1, <2>2
<1>4. converters[c].fee \in 0..MAX_FEE
  BY DEF CInv, RolesOK
<1>5. Product(c) = PoolOf(reserve_balances[c], reserve_weights[c], Reserves(c))
  BY DEF Product, PoolOf
<1> QED
  BY <1>1, <1>2, <1>3, <1>4, <1>5

(* The same after a step that leaves the weights alone.                    *)
LEMMA ReservesAfter ==
  ASSUME CInv, CInv', NEW c \in Smart, reserve_weights'[c] = reserve_weights[c]
  PROVE  /\ Reserves(c)' = Reserves(c)
         /\ \A t \in Reserves(c) : reserve_balances'[c][t] \in Nat
         /\ ledger'.supply[c] \in Nat
         /\ Product(c)' = PoolOf(reserve_balances'[c], reserve_weights[c], Reserves(c))
         /\ Active(c)' <=> \A t \in Reserves(c) : reserve_balances'[c][t] # 0
<1>1. Reserves(c)' = Reserves(c)
  BY DEF Reserves
<1>2. Reserves(c) \subseteq ReserveToken
  BY DEF Reserves
<1>3. \A t \in Reserves(c) : reserve_balances'[c][t] \in Nat
  BY <1>2, MaxAmountAssumption DEF CInv, BooksOK, Balances
<1>4. ledger'.supply[c] \in Nat
  <2>1. c \in Symbol
    BY ConverterAssumption
  <2>2. /\ ledger'.supply[c] \in 0..ledger'.max_supply[c]
        /\ ledger'.max_supply[c] \in Int
    BY <2>1 DEF CInv, LedgersOK, LedgerOK, Bounded, Ledger
  <2> QED
    BY <2>2
<1>5. Product(c)' = PoolOf(reserve_balances'[c], reserve_weights[c], Reserves(c))
  BY <1>1 DEF Product, PoolOf
<1>6. Active(c)' <=> \A t \in Reserves(c) : reserve_balances'[c][t] # 0
  BY <1>1 DEF Active
<1> QED
  BY <1>1, <1>3, <1>4, <1>5, <1>6

(* It is enough to compare the products over the same reserves.            *)
LEMMA ValueByProducts ==
  ASSUME CInv, CInv', NEW c \in Smart,
         Reserves(c) # {} /\ reserve_weights'[c] = reserve_weights[c] =>
           PoolOf(reserve_balances[c], reserve_weights[c], Reserves(c))
             * Power(ledger'.supply[c], PPM_RESOLUTION)
           <= PoolOf(reserve_balances'[c], reserve_weights[c], Reserves(c))
                * Power(ledger.supply[c], PPM_RESOLUTION)
  PROVE  ValueStep(c)
<1> DEFINE b == reserve_balances[c]
           b2 == reserve_balances'[c]
           w == reserve_weights[c]
           R == Reserves(c)
           s == Power(ledger.supply[c], PPM_RESOLUTION)
           s2 == Power(ledger'.supply[c], PPM_RESOLUTION)
<1> SUFFICES ASSUME Reserves(c) # {}, reserve_weights'[c] = w
             PROVE  Product(c)' * s >= Product(c) * s2
  BY DEF ValueStep
<1>1. /\ Product(c) = PoolOf(b, w, R) /\ Product(c)' = PoolOf(b2, w, R)
      /\ IsFiniteSet(R)
      /\ \A t \in R : b[t] \in Nat /\ b2[t] \in Nat /\ w[t] \in Nat
      /\ ledger.supply[c] \in Nat /\ ledger'.supply[c] \in Nat
  BY ReservesFacts, ReservesAfter
<1>2. PoolOf(b, w, R) * s2 <= PoolOf(b2, w, R) * s
  OBVIOUS
<1>3. s \in Nat /\ s2 \in Nat
  BY <1>1, SupplyPower
<1> HIDE DEF b, b2, w, R, s, s2
<1>4. PoolOf(b, w, R) \in Int /\ PoolOf(b2, w, R) \in Int
  BY <1>1, PoolType
<1>5. PoolOf(b, w, R) * s2 \in Int /\ PoolOf(b2, w, R) * s \in Int
  BY <1>3, <1>4, TimesSign
<1>6. PoolOf(b2, w, R) * s >= PoolOf(b, w, R) * s2
  BY <1>2, <1>5
<1> QED
  BY <1>1, <1>6

(* A step that leaves a converter alone.                                   *)
LEMMA ConverterUntouched ==
  ASSUME CInv, CInv', NEW c \in Smart,
         reserve_weights'[c] = reserve_weights[c],
         reserve_balances'[c] = reserve_balances[c],
         ledger'.supply[c] = ledger.supply[c]
  PROVE  ValueStep(c) /\ ActiveStep(c)
<1>1. ActiveStep(c)
  BY ReservesAfter DEF ActiveStep, Active
<1>2. ValueStep(c)
  <2> DEFINE x == PoolOf(reserve_balances[c], reserve_weights[c], Reserves(c))
                    * Power(ledger.supply[c], PPM_RESOLUTION)
  <2>1. x \in Int
    <3> DEFINE b == reserve_balances[c]
               w == reserve_weights[c]
               R == Reserves(c)
    <3>1. /\ IsFiniteSet(R)
          /\ \A t \in R : b[t] \in Nat /\ w[t] \in Nat
          /\ Power(ledger.supply[c], PPM_RESOLUTION) \in Nat
      BY ReservesFacts, SupplyPower
    <3> HIDE DEF b, w, R
    <3>2. PoolOf(b, w, R) \in Int
      BY <3>1, PoolType
    <3> QED
      BY <3>1, <3>2, TimesSign DEF b, w, R
  <2>2. x <= x
    BY <2>1
  <2> QED
    BY <2>2, ValueByProducts
<1> QED
  BY <1>1, <1>2

(* A step that changes one converter, or none.                             *)
LEMMA OneConverter ==
  ASSUME CInv, CInv', NEW c \in Smart, UNCHANGED reserve_weights,
         \A e \in Smart : e # c => /\ reserve_balances'[e] = reserve_balances[e]
                                   /\ ledger'.supply[e] = ledger.supply[e],
         ValueStep(c) /\ ActiveStep(c)
  PROVE  PoolOK
BY ConverterUntouched DEF PoolOK

LEMMA NoConverterTouched ==
  ASSUME CInv, CInv', UNCHANGED <<reserve_weights, reserve_balances>>,
         \A e \in Smart : ledger'.supply[e] = ledger.supply[e]
  PROVE  PoolOK
BY ConverterUntouched DEF PoolOK

(* An empty reserve makes the product zero.                                *)
LEMMA InactiveValue ==
  ASSUME CInv, CInv', NEW c \in Smart, ~ Active(c)
  PROVE  ValueStep(c) /\ ActiveStep(c)
<1> DEFINE b == reserve_balances[c]
           b2 == reserve_balances'[c]
           w == reserve_weights[c]
           R == Reserves(c)
           s == Power(ledger.supply[c], PPM_RESOLUTION)
           s2 == Power(ledger'.supply[c], PPM_RESOLUTION)
<1>1. ActiveStep(c)
  BY DEF ActiveStep
<1>2. PICK u \in R : b[u] = 0
  BY DEF Active
<1>3. ASSUME reserve_weights'[c] = w
      PROVE  PoolOf(b, w, R) * s2 <= PoolOf(b2, w, R) * s
  <2>1. /\ IsFiniteSet(R)
        /\ \A t \in R : b[t] \in Nat /\ w[t] \in Nat /\ w[t] > 0
        /\ ledger.supply[c] \in Nat
    BY ReservesFacts
  <2>2. /\ \A t \in R : b2[t] \in Nat
        /\ ledger'.supply[c] \in Nat
    BY <1>3, ReservesAfter
  <2>3. s \in Nat /\ s2 \in Nat
    BY <2>1, <2>2, SupplyPower
  <2> HIDE DEF b, b2, w, R, s, s2
  <2>4. PoolOf(b, w, R) = 0
    BY <1>2, <2>1, PoolType
  <2>5. PoolOf(b2, w, R) \in Int /\ PoolOf(b2, w, R) >= 0
    BY <2>1, <2>2, PoolType
  <2>6. PoolOf(b2, w, R) * s \in Int /\ PoolOf(b2, w, R) * s >= 0
    BY <2>3, <2>5, TimesSign
  <2>7. PoolOf(b, w, R) * s2 = 0
    BY <2>3, <2>4, TimesSign
  <2> QED
    BY <2>6, <2>7
<1>4. ValueStep(c)
  BY <1>3, ValueByProducts
<1> QED
  BY <1>1, <1>4

----------------------------------------------------------------------------
(* Administration.                                                         *)
LEMMA IssueSupply ==
  ASSUME NEW L, LedgerOK(L), NEW s \in Symbol, NEW q, CanIssue(L, Self, s, q)
  PROVE  AfterIssue(L, Self, s, q).supply = [L.supply EXCEPT ![s] = L.supply[s] + q]
<1>1. q \in Int /\ Self \in Account
  BY MaxAmountAssumption, ConverterAssumption DEF CanIssue, IsAmount
<1>2. L \in Ledger
  BY DEF LedgerOK
<1> QED
  BY <1>1, <1>2, IssueFacts

LEMMA RetireSupply ==
  ASSUME NEW L, LedgerOK(L), NEW s \in Symbol, NEW q, CanRetire(L, s, q),
         L.issuer[s] = Self
  PROVE  AfterRetire(L, s, q).supply = [L.supply EXCEPT ![s] = L.supply[s] - q]
<1>1. q \in Int /\ Self \in Account
  BY MaxAmountAssumption, ConverterAssumption DEF CanRetire, IsAmount
<1>2. L \in Ledger
  BY DEF LedgerOK
<1> QED
  BY <1>1, <1>2, RetireFacts

LEMMA IssueToSupply ==
  ASSUME NEW L, LedgerOK(L), NEW a \in Account, NEW s \in Symbol, NEW q,
         CanIssueTo(L, a, s, q)
  PROVE  AfterIssueTo(L, a, s, q).supply = [L.supply EXCEPT ![s] = L.supply[s] + q]
<1> DEFINE K == AfterIssue(L, Self, s, q)
           M == AfterTransfer(K, Self, a, s, q)
<1>1. CanIssue(L, Self, s, q) /\ CanTransfer(K, Self, a, s, q) /\ Self \in Account
  BY ConverterAssumption DEF CanIssueTo
<1>2. LedgerOK(K) /\ K.supply = [L.supply EXCEPT ![s] = L.supply[s] + q]
  BY <1>1, IssueOwn, IssueSupply
<1> HIDE DEF K
<1>3. M.supply = K.supply
  BY <1>1, <1>2, TransferOwn
<1>4. AfterIssueTo(L, a, s, q) = M
  BY DEF AfterIssueTo, K, M
<1> QED
  BY <1>2, <1>3, <1>4

(* A converter that is created has no reserves yet.                        *)
LEMMA CreateValue ==
  ASSUME CInv, CInv', NEW auth \in Account, NEW c \in Smart, NEW q,
         Create(auth, c, q)
  PROVE  PoolOK
<1> DEFINE K == AfterCreate(ledger, Self, c, DEFAULT_MAX_SUPPLY)
<1>1. /\ CanCreate(ledger, c, DEFAULT_MAX_SUPPLY) /\ ~ IsConverter(c)
      /\ CanIssueTo(K, auth, c, q)
      /\ ledger' = AfterIssueTo(K, auth, c, q)
      /\ UNCHANGED <<reserve_weights, reserve_balances>>
  BY DEF Create
<1>2. /\ c \in Symbol /\ Self \in Account /\ DEFAULT_MAX_SUPPLY \in Int
      /\ \A e \in Smart : e \in Symbol
  BY ConverterAssumption, MaxAmountAssumption
<1>3. LedgerOK(ledger) /\ ledger \in Ledger
  BY DEF CInv, LedgersOK, LedgerOK
<1>4. LedgerOK(K)
  BY <1>1, <1>2, <1>3, CreateKeepsLedgerOK
<1>5. K.supply = [ledger.supply EXCEPT ![c] = 0]
  BY <1>2, <1>3, CreateFacts
<1> HIDE DEF K
<1>6. ledger'.supply = [K.supply EXCEPT ![c] = K.supply[c] + q]
  BY <1>1, <1>2, <1>4, IssueToSupply
<1>7. ledger.supply \in [Symbol -> Int]
  BY <1>3 DEF Ledger
<1>8. \A e \in Smart : e # c => ledger'.supply[e] = ledger.supply[e]
  BY <1>2, <1>5, <1>6, <1>7
<1>9. ValueStep(c) /\ ActiveStep(c)
  BY <1>1 DEF ValueStep, ActiveStep
<1> QED
  BY <1>1, <1>8, <1>9, OneConverter

(* A reserve that is added or removed changes the weights.  Adding one is  *)
(* the owner's decision, and one can be removed from an inactive converter *)
(* only.                                                                   *)
LEMMA SetReserveValue ==
  ASSUME CInv, CInv', NEW auth \in Account, NEW c \in Smart, NEW t \in ReserveToken,
         NEW ratio, SetReserve(auth, c, t, ratio)
  PROVE  PoolOK
<1>1. /\ auth = converters[c].owner /\ ratio > 0 /\ ratio <= PPM_RESOLUTION
      /\ \A r \in Reserves(c) : CodeOf[r] # CodeOf[t]
      /\ reserve_weights' = [reserve_weights EXCEPT ![c][t] = ratio]
      /\ reserve_balances' = [reserve_balances EXCEPT ![c][t] = 0]
      /\ signer' = auth /\ ledger' = ledger
  BY DEF SetReserve
<1>2. /\ reserve_weights \in [Smart -> [ReserveToken -> 0..PPM_RESOLUTION]]
      /\ reserve_balances \in [Smart -> [ReserveToken -> 0..MaxAmount]]
  BY DEF CInv, BooksOK, Balances
<1>3. ASSUME NEW e \in Smart, e # c
      PROVE  /\ reserve_weights'[e] = reserve_weights[e]
             /\ reserve_balances'[e] = reserve_balances[e]
             /\ ledger'.supply[e] = ledger.supply[e]
  BY <1>1, <1>2, <1>3
<1>4. reserve_weights'[c][t] = ratio
  BY <1>1, <1>2
<1>5. t \notin Reserves(c) /\ ~ (reserve_weights[c][t] > 0)
  BY <1>1 DEF Reserves
<1>6. t \in Reserves(c)'
  BY <1>1, <1>4 DEF Reserves
<1>7. reserve_weights'[c] # reserve_weights[c] /\ Reserves(c) # Reserves(c)'
  BY <1>1, <1>4, <1>5, <1>6
<1>8. ValueStep(c) /\ ActiveStep(c)
  BY <1>1, <1>7 DEF ValueStep, ActiveStep
<1> QED
  BY <1>3, <1>8, ConverterUntouched DEF PoolOK

LEMMA DelReserveValue ==
  ASSUME CInv, CInv', NEW auth \in Account, NEW c \in Smart, NEW t \in ReserveToken,
         DelReserve(auth, c, t)
  PROVE  PoolOK
<1>1. /\ ~ Active(c)
      /\ reserve_weights' = [reserve_weights EXCEPT ![c][t] = 0]
      /\ reserve_balances' = [reserve_balances EXCEPT ![c][t] = 0]
      /\ ledger' = ledger
  BY DEF DelReserve
<1>2. /\ reserve_weights \in [Smart -> [ReserveToken -> 0..PPM_RESOLUTION]]
      /\ reserve_balances \in [Smart -> [ReserveToken -> 0..MaxAmount]]
  BY DEF CInv, BooksOK, Balances
<1>3. ASSUME NEW e \in Smart, e # c
      PROVE  /\ reserve_weights'[e] = reserve_weights[e]
             /\ reserve_balances'[e] = reserve_balances[e]
             /\ ledger'.supply[e] = ledger.supply[e]
  BY <1>1, <1>2, <1>3
<1>4. ValueStep(c) /\ ActiveStep(c)
  BY <1>1, InactiveValue
<1> QED
  BY <1>3, <1>4, ConverterUntouched DEF PoolOK

LEMMA AdministerValue ==
  ASSUME CInv, CInv', NEW auth \in Account, Administer(auth)
  PROVE  PoolOK
<1>1. ASSUME NEW c \in Smart, NEW q \in Quantity, Create(auth, c, q) PROVE PoolOK
  BY <1>1, CreateValue
<1>2. ASSUME NEW c \in Smart, NEW t \in ReserveToken, NEW w \in Weight,
             SetReserve(auth, c, t, w)
      PROVE  PoolOK
  BY <1>2, SetReserveValue
<1>3. ASSUME NEW c \in Smart, NEW t \in ReserveToken, DelReserve(auth, c, t)
      PROVE  PoolOK
  BY <1>3, DelReserveValue
<1>4. ASSUME UNCHANGED <<reserve_weights, reserve_balances, ledger>> PROVE PoolOK
  BY <1>4, NoConverterTouched
<1>5. ASSUME NEW p \in Params, SetSettings(auth, p) PROVE PoolOK
  BY <1>4, <1>5 DEF SetSettings
<1>6. ASSUME NEW c \in Smart, NEW row, Configure(c, auth, row) PROVE PoolOK
  BY <1>4, <1>6 DEF Configure
<1>7. ASSUME NEW c \in Smart,
             \/ \E a \in NewOwner : UpdateOwner(auth, c, a)
             \/ \E f \in Fee : UpdateFee(auth, c, f)
             \/ \E on \in BOOLEAN : Activate(auth, c, on)
             \/ DelConverter(auth, c)
      PROVE  PoolOK
  BY <1>6, <1>7 DEF UpdateOwner, UpdateFee, Activate, DelConverter
<1> QED
  BY <1>1, <1>2, <1>3, <1>5, <1>7 DEF Administer

(* Transfers between others leave the supplies alone.                      *)
LEMMA TransferValue ==
  ASSUME CInv, CInv', NEW auth \in Account, NEW to \in Account, NEW t \in Symbol,
         NEW q, Transfer(auth, to, t, q)
  PROVE  PoolOK
<1>1. /\ CanTransfer(ledger, auth, to, t, q)
      /\ ledger' = AfterTransfer(ledger, auth, to, t, q)
      /\ UNCHANGED <<reserve_weights, reserve_balances>>
  BY DEF Transfer
<1>2. ledger'.supply = ledger.supply
  BY <1>1, TransferOwn DEF CInv, LedgersOK
<1> QED
  BY <1>1, <1>2, NoConverterTouched

----------------------------------------------------------------------------
(* Deposits and withdrawals: those of an active converter do not move its  *)
(* reserves.                                                               *)
LEMMA ModBalancesValue ==
  ASSUME CInv, CInv', NEW c \in Smart, NEW a \in Account, NEW t \in ReserveToken,
         NEW q, ModBalances(a, c, t, q),
         NEW from \in Account, NEW to \in Account, NEW n,
         CanTransfer(ledger, from, to, t, n),
         ledger' = AfterTransfer(ledger, from, to, t, n), UNCHANGED reserve_weights
  PROVE  PoolOK
<1>1. ledger'.supply = ledger.supply
  BY ConverterAssumption, TransferOwn DEF CInv, LedgersOK
<1>2. CASE Active(c)
  <2>1. UNCHANGED reserve_balances
    BY <1>2 DEF ModBalances
  <2> QED
    BY <1>1, <2>1, NoConverterTouched
<1>3. CASE ~ Active(c)
  <2>1. reserve_balances' = ModReserve(reserve_balances, c, t, q)
    BY <1>3 DEF ModBalances
  <2>2. \A e \in Smart : e # c => reserve_balances'[e] = reserve_balances[e]
    BY <2>1 DEF ModReserve, CInv, BooksOK, Balances
  <2>3. ValueStep(c) /\ ActiveStep(c)
    BY <1>3, InactiveValue
  <2> QED
    BY <1>1, <2>2, <2>3, OneConverter
<1> QED
  BY <1>2, <1>3

LEMMA DepositValue ==
  ASSUME CInv, CInv', NEW auth \in Account, NEW c \in Smart, NEW t \in ReserveToken,
         NEW q, Deposit(auth, c, t, q) \/ Withdraw(auth, c, t, q)
  PROVE  PoolOK
<1>1. Self \in Account
  BY ConverterAssumption
<1> QED
  BY <1>1, ModBalancesValue DEF Deposit, Withdraw, Receives, Received

----------------------------------------------------------------------------
(* Trades.                                                                 *)

(* One reserve and the supply move: what the formula promises of the two   *)
(* is what the step does to the product.                                   *)
LEMMA OneReserveValue ==
  ASSUME CInv, CInv', NEW c \in Smart, NEW t \in Reserves(c), NEW n,
         UNCHANGED reserve_weights,
         reserve_balances' = ModReserve(reserve_balances, c, t, n),
         reserve_balances[c][t] + n \in 0..MaxAmount,
         Power(reserve_balances[c][t], reserve_weights[c][t])
           * Power(ledger'.supply[c], PPM_RESOLUTION)
         <= Power(reserve_balances[c][t] + n, reserve_weights[c][t])
              * Power(ledger.supply[c], PPM_RESOLUTION)
  PROVE  /\ ValueStep(c)
         /\ \A e \in Smart : e # c => reserve_balances'[e] = reserve_balances[e]
         /\ \A u \in Reserves(c) : u # t => reserve_balances'[c][u] = reserve_balances[c][u]
         /\ reserve_balances'[c][t] = reserve_balances[c][t] + n
<1> DEFINE b == reserve_balances[c]
           b2 == reserve_balances'[c]
           w == reserve_weights[c]
           R == Reserves(c)
           x == Power(ledger.supply[c], PPM_RESOLUTION)
           y == Power(ledger'.supply[c], PPM_RESOLUTION)
<1>1. /\ IsFiniteSet(R) /\ R \subseteq ReserveToken
      /\ \A u \in R : b[u] \in Nat /\ w[u] \in Nat /\ b2[u] \in Nat
      /\ x \in Nat /\ y \in Nat
  BY ReservesFacts, ReservesAfter, SupplyPower
<1>2. t \in ReserveToken
  BY <1>1
<1>3. /\ b2[t] = b[t] + n
      /\ \A e \in Smart : e # c => reserve_balances'[e] = reserve_balances[e]
      /\ \A u \in ReserveToken : u # t => b2[u] = b[u]
  BY <1>2, ModReserveFacts DEF CInv, BooksOK
<1>4. Power(b[t], w[t]) * y <= Power(b2[t], w[t]) * x
  BY <1>3
<1>5. \A u \in R : u # t => b2[u] = b[u]
  BY <1>1, <1>3
<1>6. PoolOf(b, w, R) * y <= PoolOf(b2, w, R) * x
  <2>1. t \in R
    OBVIOUS
  <2> HIDE DEF b, b2, w, R, x, y
  <2> QED
    BY <1>1, <1>4, <1>5, <2>1, PoolOneReserve
<1>7. ValueStep(c)
  BY <1>6, ValueByProducts
<1> QED
  BY <1>3, <1>5, <1>7

LEMMA ConvertToSmartValue ==
  ASSUME CInv, CInv', NEW c \in Smart, NEW t \in ReserveToken, NEW q \in Int,
         ConvertToSmart(c, t, q)
  PROVE  PoolOK
<1> DEFINE a == settings.network
           C == reserve_balances[c][t]
           R == ledger.supply[c]
           w == reserve_weights[c][t]
           fee == converters[c].fee
           n == PurchaseReturn(C, q, R, w, fee)
           held == AfterTransfer(ledger, a, Self, t, q)
           made == AfterIssue(held, Self, c, n)
<1>1. /\ CanTransfer(ledger, a, Self, t, q) /\ a # NoAccount
      /\ CanModReserve(c, t, q)
      /\ CanIssue(held, Self, c, n)
      /\ CanTransfer(made, Self, a, c, n)
      /\ reserve_balances' = ModReserve(reserve_balances, c, t, q)
      /\ ledger' = AfterTransfer(made, Self, a, c, n)
      /\ UNCHANGED reserve_weights
  BY DEF ConvertToSmart, ConvertFrame, SendToNetwork, Receives, Received
<1>2. /\ a \in Account /\ Self \in Account /\ c \in Symbol /\ t \in Symbol
      /\ \A e \in Smart : e \in Symbol
  BY <1>1, ConverterAssumption DEF CInv, RolesOK
<1>3. /\ t \in Reserves(c) /\ C + q \in 0..MaxAmount
      /\ C \in Nat /\ w \in Nat /\ R \in Nat /\ fee \in 0..MAX_FEE
  BY <1>1, CanModFacts, ReservesFacts
<1> HIDE DEF a, n, held, made
<1>4. LedgerOK(held) /\ held.supply = ledger.supply /\ q \in 1..MaxAmount
  BY <1>1, <1>2, TransferOwn DEF held, CInv, LedgersOK
<1>5. /\ n \in 1..MaxAmount /\ LedgerOK(made)
      /\ made.supply = [held.supply EXCEPT ![c] = held.supply[c] + n]
  BY <1>1, <1>2, <1>4, IssueOwn, IssueSupply DEF made
<1>6. ledger'.supply = made.supply
  BY <1>1, <1>2, <1>5, TransferOwn
<1>7. ledger.supply \in [Symbol -> Int]
  BY DEF CInv, LedgersOK, LedgerOK, Ledger
<1>8. /\ ledger'.supply[c] = R + n
      /\ \A e \in Smart : e # c => ledger'.supply[e] = ledger.supply[e]
  BY <1>2, <1>4, <1>5, <1>6, <1>7
<1>9. q \in Nat /\ q > 0 /\ n \in Nat \ {0}
  BY <1>4, <1>5
<1>10. Power(C, w) * Power(R + n, PPM_RESOLUTION)
         <= Power(C + q, w) * Power(R, PPM_RESOLUTION)
  <2> HIDE DEF C, R, w, fee
  <2> QED
    BY <1>3, <1>9, PurchaseValue DEF n
<1>11. /\ ValueStep(c)
       /\ \A e \in Smart : e # c => reserve_balances'[e] = reserve_balances[e]
       /\ \A u \in Reserves(c) : u # t => reserve_balances'[c][u] = reserve_balances[c][u]
       /\ reserve_balances'[c][t] = C + q
  BY <1>1, <1>3, <1>8, <1>10, OneReserveValue
<1>12. ActiveStep(c)
  BY <1>1, <1>3, <1>9, <1>11, ReservesAfter DEF ActiveStep, Active
<1> QED
  BY <1>1, <1>8, <1>11, <1>12, OneConverter

(* Only the sale of the last smart tokens empties a reserve.               *)
LEMMA ConvertToReserveValue ==
  ASSUME CInv, CInv', NEW c \in Smart, NEW t \in ReserveToken, NEW q \in Int,
         ConvertToReserve(c, t, q)
  PROVE  PoolOK
<1> DEFINE a == settings.network
           C == reserve_balances[c][t]
           R == ledger.supply[c]
           w == reserve_weights[c][t]
           fee == converters[c].fee
           n == SaleReturn(C, q, R, w, fee)
           held == AfterTransfer(ledger, a, Self, c, q)
           left == AfterRetire(held, c, q)
<1>1. /\ CanTransfer(ledger, a, Self, c, q) /\ a # NoAccount
      /\ CanModReserve(c, t, -n)
      /\ CanRetire(held, c, q)
      /\ CanTransfer(left, Self, a, t, n)
      /\ reserve_balances' = ModReserve(reserve_balances, c, t, -n)
      /\ ledger' = AfterTransfer(left, Self, a, t, n)
      /\ UNCHANGED reserve_weights
  BY DEF ConvertToReserve, ConvertFrame, SendToNetwork, Receives, Received
<1>2. /\ a \in Account /\ Self \in Account /\ c \in Symbol /\ t \in Symbol
      /\ \A e \in Smart : e \in Symbol
  BY <1>1, ConverterAssumption DEF CInv, RolesOK
<1>3. n \in 1..MaxAmount /\ n \in Int /\ -n \in Int
  <2> HIDE DEF n
  <2> QED
    BY <1>1, MaxAmountAssumption DEF CanTransfer, IsAmount
<1>4. /\ t \in Reserves(c) /\ C + (-n) \in 0..MaxAmount
      /\ C \in Nat /\ w \in Nat \ {0} /\ R \in Nat /\ fee \in 0..MAX_FEE
  <2> HIDE DEF n
  <2> QED
    BY <1>1, <1>3, CanModFacts, ReservesFacts
<1> HIDE DEF a, n, held, left
<1>5. /\ LedgerOK(held) /\ held.supply = ledger.supply /\ q \in 1..MaxAmount
      /\ held.issuer = ledger.issuer
  BY <1>1, <1>2, TransferOwn DEF held, CInv, LedgersOK
<1>6. held.issuer[c] = Self
  BY <1>1, <1>5 DEF CInv, LedgersOK, CanRetire, Exists
<1>7. /\ LedgerOK(left)
      /\ left.supply = [held.supply EXCEPT ![c] = held.supply[c] - q]
  BY <1>1, <1>2, <1>5, <1>6, RetireOwn, RetireSupply DEF left
<1>8. ledger'.supply = left.supply
  BY <1>1, <1>2, <1>7, TransferOwn
<1>9. ledger.supply \in [Symbol -> Int]
  BY DEF CInv, LedgersOK, LedgerOK, Ledger
<1>10. /\ ledger'.supply[c] = R - q
       /\ \A e \in Smart : e # c => ledger'.supply[e] = ledger.supply[e]
  BY <1>2, <1>5, <1>7, <1>8, <1>9
<1>11. q \in Nat /\ q > 0 /\ n \in Nat \ {0} /\ R - q \in Nat /\ q <= R
  <2>1. ledger'.supply[c] \in Nat
    BY <1>1, ReservesAfter
  <2> QED
    BY <1>3, <1>4, <1>5, <1>10, <2>1
<1>12. /\ n <= C
       /\ Power(C, w) * Power(R - q, PPM_RESOLUTION)
            <= Power(C - n, w) * Power(R, PPM_RESOLUTION)
  <2> HIDE DEF C, R, w, fee
  <2> QED
    BY <1>4, <1>11, SaleValue DEF n
<1>13. C + (-n) = C - n
  BY <1>4, <1>11
<1>14. /\ ValueStep(c)
       /\ \A e \in Smart : e # c => reserve_balances'[e] = reserve_balances[e]
       /\ \A u \in Reserves(c) : u # t => reserve_balances'[c][u] = reserve_balances[c][u]
       /\ reserve_balances'[c][t] = C + (-n)
  BY <1>1, <1>4, <1>10, <1>12, <1>13, OneReserveValue
<1>15. ActiveStep(c)
  <2> SUFFICES ASSUME Active(c), ~ Active(c)'
               PROVE  R > 0 /\ ledger'.supply[c] = 0
    BY DEF ActiveStep
  <2>1. C > 0 /\ R > 0
    BY <1>4, <1>11 DEF Active
  <2>2. C - n = 0
    BY <1>1, <1>4, <1>13, <1>14, ReservesAfter DEF Active
  <2> HIDE DEF C, R, w
  <2>3. Power(C - n, w) = 0
    BY <1>4, <2>2, NaturalPower
  <2>4. Power(C, w) \in Nat /\ Power(C, w) > 0
    BY <1>4, <2>1, NaturalPower
  <2>5. /\ Power(R - q, PPM_RESOLUTION) \in Nat
        /\ R - q > 0 => Power(R - q, PPM_RESOLUTION) > 0
        /\ Power(R, PPM_RESOLUTION) \in Nat
    BY <1>4, <1>11, FormulaAssumption, NaturalPower
  <2>6. Power(C, w) * Power(R - q, PPM_RESOLUTION) <= 0
    BY <1>12, <2>3, <2>5, TimesSign
  <2>7. ~ (R - q > 0)
    BY <2>4, <2>5, <2>6, TimesSign
  <2>8. R - q = 0
    BY <1>11, <2>7
  <2> QED
    BY <1>10, <2>1, <2>8 DEF R
<1> QED
  BY <1>1, <1>10, <1>14, <1>15, OneConverter

(* An exchange: the supply stays, and no quantity of one reserve buys all  *)
(* of another.                                                             *)
LEMMA ConvertAcrossValue ==
  ASSUME CInv, CInv', NEW c \in Smart, NEW t \in ReserveToken, NEW r \in ReserveToken,
         NEW q \in Int, ConvertAcross(c, t, r, q)
  PROVE  PoolOK
<1> DEFINE a == settings.network
           b == reserve_balances[c]
           b2 == reserve_balances'[c]
           wt == reserve_weights[c]
           C == b[t]
           v == wt[t]
           B == b[r]
           w == wt[r]
           fee == converters[c].fee
           n == CrossReturn(C, v, q, B, w, fee)
           held == AfterTransfer(ledger, a, Self, t, q)
           mid == ModReserve(reserve_balances, c, t, q)
           S == Reserves(c)
<1>1. /\ CanTransfer(ledger, a, Self, t, q) /\ a # NoAccount /\ t # r
      /\ CanModReserve(c, t, q)
      /\ CanModReserve(c, r, -n)
      /\ CanTransfer(held, Self, a, r, n)
      /\ reserve_balances' = ModReserve(mid, c, r, -n)
      /\ ledger' = AfterTransfer(held, Self, a, r, n)
      /\ UNCHANGED reserve_weights
  BY DEF ConvertAcross, Distinct, ConvertFrame, SendToNetwork, Receives, Received
<1>2. a \in Account /\ Self \in Account /\ t \in Symbol /\ r \in Symbol
  BY <1>1, ConverterAssumption DEF CInv, RolesOK
<1>3. n \in 1..MaxAmount /\ n \in Int /\ -n \in Int
  <2> HIDE DEF n
  <2> QED
    BY <1>1, MaxAmountAssumption DEF CanTransfer, IsAmount
<1>4. /\ t \in S /\ C + q \in 0..MaxAmount /\ r \in S /\ B + (-n) \in 0..MaxAmount
      /\ C \in Nat /\ B \in Nat /\ v \in Nat \ {0} /\ w \in Nat \ {0}
      /\ fee \in 0..MAX_FEE
  <2> HIDE DEF n
  <2> QED
    BY <1>1, <1>3, CanModFacts, ReservesFacts
<1> HIDE DEF a, n, held, mid
<1>5. /\ mid \in Balances /\ mid[c][t] = C + q
      /\ \A e \in Smart : e # c => mid[e] = reserve_balances[e]
      /\ \A u \in ReserveToken : u # t => mid[c][u] = b[u]
  BY <1>4, ModReserveFacts DEF mid, CInv, BooksOK
<1>6. mid[c][r] = B /\ mid[c][r] + (-n) \in 0..MaxAmount
  BY <1>1, <1>4, <1>5
<1>7. /\ b2[r] = B + (-n)
      /\ \A e \in Smart : e # c => reserve_balances'[e] = mid[e]
      /\ \A u \in ReserveToken : u # r => b2[u] = mid[c][u]
  BY <1>1, <1>5, <1>6, ModReserveFacts
<1>8. LedgerOK(held) /\ held.supply = ledger.supply /\ q \in 1..MaxAmount
  BY <1>1, <1>2, TransferOwn DEF held, CInv, LedgersOK
<1>9. ledger'.supply = held.supply
  BY <1>1, <1>2, <1>8, TransferOwn
<1>10. q \in Nat /\ q > 0 /\ n \in Nat \ {0}
  BY <1>3, <1>8
<1>11. /\ n <= B
       /\ Power(B, w) * Power(C, v) <= Power(B - n, w) * Power(C + q, v)
  <2> HIDE DEF C, v, B, w, fee
  <2> QED
    BY <1>4, <1>10, CrossValue DEF n
<1>12. /\ IsFiniteSet(S) /\ S \subseteq ReserveToken
       /\ \A u \in S : b[u] \in Nat /\ wt[u] \in Nat /\ b2[u] \in Nat
       /\ ledger.supply[c] \in Nat /\ Power(ledger.supply[c], PPM_RESOLUTION) \in Nat
  BY <1>1, ReservesFacts, ReservesAfter, SupplyPower
<1>13. /\ b2[r] = B - n /\ b2[t] = C + q
       /\ \A u \in S : u # r /\ u # t => b2[u] = b[u]
  BY <1>1, <1>4, <1>5, <1>7, <1>10, <1>12
<1>14. PoolOf(b, wt, S) <= PoolOf(b2, wt, S)
  <2>1. Power(b[r], wt[r]) * Power(b[t], wt[t])
          <= Power(b2[r], wt[r]) * Power(b2[t], wt[t])
    BY <1>11, <1>13
  <2>2. r \in S /\ t \in S /\ r # t
    BY <1>1, <1>4
  <2> HIDE DEF b, b2, wt, S
  <2> QED
    BY <1>12, <1>13, <2>1, <2>2, PoolTwoReserves
<1>15. ValueStep(c)
  <2> DEFINE x == Power(ledger.supply[c], PPM_RESOLUTION)
             p == PoolOf(b, wt, S)
             p2 == PoolOf(b2, wt, S)
  <2>1. p \in Int /\ p2 \in Int /\ p >= 0
    <3> HIDE DEF b, b2, wt, S
    <3> QED
      BY <1>12, PoolType
  <2>2. p * x <= p2 * x
    <3>1. x \in Nat /\ p <= p2
      BY <1>12, <1>14
    <3> HIDE DEF x, p, p2
    <3> QED
      BY <2>1, <3>1, TimesMono
  <2>3. ledger'.supply[c] = ledger.supply[c]
    BY <1>8, <1>9
  <2> QED
    BY <2>2, <2>3, ValueByProducts
<1>16. ActiveStep(c)
  <2> SUFFICES ASSUME Active(c), ~ Active(c)' PROVE FALSE
    BY DEF ActiveStep
  <2>1. \A u \in S : b[u] # 0
    BY DEF Active
  <2>2. C > 0 /\ B > 0
    BY <1>4, <2>1
  <2>3. PICK u \in S : b2[u] = 0
    BY <1>1, ReservesAfter
  <2>4. C + q # 0
    BY <1>4, <1>10
  <2>5. B - n = 0
    BY <1>13, <2>1, <2>3, <2>4
  <2> HIDE DEF C, B, v, w
  <2>6. Power(B - n, w) = 0
    BY <1>4, <2>5, NaturalPower
  <2>7. /\ Power(B, w) \in Nat /\ Power(B, w) > 0
        /\ Power(C, v) \in Nat /\ Power(C, v) > 0
        /\ Power(C + q, v) \in Nat
    <3>1. C \in Nat /\ B \in Nat /\ C + q \in Nat /\ v \in Nat /\ w \in Nat
      BY <1>4, <1>10
    <3> QED
      BY <2>2, <3>1, NaturalPower
  <2>8. Power(B, w) * Power(C, v) <= 0
    BY <1>11, <2>6, <2>7, TimesSign
  <2> QED
    BY <2>7, <2>8, TimesSign
<1>17. \A e \in Smart : e # c => /\ reserve_balances'[e] = reserve_balances[e]
                                 /\ ledger'.supply[e] = ledger.supply[e]
  BY <1>5, <1>7, <1>8, <1>9
<1> QED
  BY <1>1, <1>15, <1>16, <1>17, OneConverter

----------------------------------------------------------------------------
(* Funding and liquidation.                                                *)

(* The sum of all weights is the sum of those of the reserves.             *)
LEMMA TotalOfReserves ==
  ASSUME CInv, NEW c \in Smart
  PROVE  /\ TotalWeight(c) \in Int
         /\ TotalWeight(c) = SumFunctionOnSet(reserve_weights[c], Reserves(c))
<1> DEFINE f == reserve_weights[c]
           R == Reserves(c)
<1>1. /\ IsFiniteSet(ReserveToken)
      /\ \A t \in ReserveToken : f[t] \in Int
      /\ R \in SUBSET ReserveToken
      /\ \A t \in ReserveToken \ R : f[t] = 0
  BY ConverterAssumption, FormulaAssumption DEF CInv, BooksOK, Reserves
<1>2. TotalWeight(c) = SumFunctionOnSet(f, ReserveToken)
  BY DEF TotalWeight
<1> HIDE DEF f, R
<1>3. /\ SumFunctionOnSet(f, ReserveToken) \in Int
      /\ SumFunctionOnSet(f, ReserveToken) = SumFunctionOnSet(f, R)
  BY <1>1, SumType, SumZeroOutside
<1> QED
  BY <1>2, <1>3 DEF f, R

(* All reserves and the supply move.                                       *)
LEMMA AllReservesValue ==
  ASSUME CInv, CInv', NEW c \in Smart, UNCHANGED reserve_weights,
         \A t \in Reserves(c) : TotalWeight(c) > 0,
         \A t \in Reserves(c) :
           Power(reserve_balances[c][t], TotalWeight(c))
             * Power(ledger'.supply[c], PPM_RESOLUTION)
           <= Power(reserve_balances'[c][t], TotalWeight(c))
                * Power(ledger.supply[c], PPM_RESOLUTION)
  PROVE  ValueStep(c)
<1> DEFINE b == reserve_balances[c]
           b2 == reserve_balances'[c]
           w == reserve_weights[c]
           R == Reserves(c)
           x == Power(ledger.supply[c], PPM_RESOLUTION)
           y == Power(ledger'.supply[c], PPM_RESOLUTION)
           W == TotalWeight(c)
<1>1. /\ IsFiniteSet(R)
      /\ \A u \in R : b[u] \in Nat /\ w[u] \in Nat /\ b2[u] \in Nat
      /\ x \in Nat /\ y \in Nat
  BY ReservesFacts, ReservesAfter, SupplyPower
<1>2. W \in Int /\ W = SumFunctionOnSet(w, R)
  BY TotalOfReserves
<1>3. \A t \in R : Power(b[t], W) * y <= Power(b2[t], W) * x
  OBVIOUS
<1>4. \A t \in R : W > 0
  OBVIOUS
<1> HIDE DEF b, b2, w, R, x, y, W
<1>5. ASSUME R # {} PROVE PoolOf(b, w, R) * y <= PoolOf(b2, w, R) * x
  <2>1. W \in Nat \ {0}
    BY <1>2, <1>4, <1>5
  <2> QED
    BY <1>1, <1>2, <1>3, <2>1, PoolAllReserves
<1> QED
  BY <1>5, ValueByProducts DEF b, b2, w, R, x, y

(* The cost is rounded up.                                                 *)
LEMMA FundValueKept ==
  ASSUME CInv, CInv', NEW auth \in Account, NEW c \in Smart, NEW q, Fund(auth, c, q)
  PROVE  PoolOK
<1> DEFINE cost == Costs(c, q)
           b == reserve_balances[c]
           b2 == reserve_balances'[c]
           s == ledger.supply[c]
           W == TotalWeight(c)
           R == Reserves(c)
<1>1. /\ \A t \in R : /\ InFormulaRange(s, b[t], W)
                      /\ CanModReserve(c, t, cost[t])
      /\ CanIssueTo(ledger, auth, c, q)
      /\ reserve_balances' = [reserve_balances EXCEPT ![c] =
                                [t \in ReserveToken |-> @[t] + cost[t]]]
      /\ ledger' = AfterIssueTo(ledger, auth, c, q)
      /\ UNCHANGED reserve_weights
  BY DEF Fund
<1>2. c \in Symbol /\ \A e \in Smart : e \in Symbol
  BY ConverterAssumption
<1>3. /\ q \in 1..MaxAmount
      /\ ledger'.supply = [ledger.supply EXCEPT ![c] = ledger.supply[c] + q]
  BY <1>1, <1>2, IssueToOwn, IssueToSupply DEF CInv, LedgersOK
<1>4. ledger.supply \in [Symbol -> Int]
  BY DEF CInv, LedgersOK, LedgerOK, Ledger
<1>5. /\ ledger'.supply[c] = s + q
      /\ \A e \in Smart : e # c => ledger'.supply[e] = ledger.supply[e]
  BY <1>2, <1>3, <1>4
<1>6. /\ R \subseteq ReserveToken /\ s \in Nat /\ q \in Nat
      /\ \A t \in R : b[t] \in Nat /\ b2[t] \in Nat
  <2>1. UNCHANGED reserve_weights
    BY <1>1
  <2>2. q \in Nat
    BY <1>3
  <2> QED
    BY <2>1, <2>2, ReservesFacts, ReservesAfter
<1>7. /\ \A e \in Smart : e # c => reserve_balances'[e] = reserve_balances[e]
      /\ \A t \in R : b2[t] = b[t] + cost[t]
  <2> HIDE DEF cost
  <2>1. reserve_balances \in [Smart -> [ReserveToken -> 0..MaxAmount]]
    BY DEF CInv, BooksOK, Balances
  <2> QED
    BY <1>1, <1>6, <2>1
<1>8. ASSUME NEW t \in R
      PROVE  /\ W \in Nat \ {0} /\ cost[t] \in Nat
             /\ Power(b[t], W) * Power(s + q, PPM_RESOLUTION)
                  <= Power(b2[t], W) * Power(s, PPM_RESOLUTION)
  <2>1. W \in Nat \ {0}
    <3>1. W \in Int
      BY TotalOfReserves
    <3>2. W > OnePpm /\ OnePpm \in Nat
      BY <1>1, <1>8, FormulaAssumption DEF InFormulaRange
    <3> QED
      BY <3>1, <3>2
  <2>2. cost[t] = FundCost(b[t], q, s, W)
    BY <1>6, <1>8 DEF Costs
  <2>3. CanModReserve(c, t, cost[t]) /\ b[t] \in Nat /\ b2[t] = b[t] + cost[t]
    BY <1>1, <1>6, <1>7, <1>8
  <2> HIDE DEF cost, b, b2, s, W
  <2>4. cost[t] \in 0..MaxReturn /\ MaxReturn \in Nat
    BY <2>2, FundCostType, FormulaAssumption
  <2>5. cost[t] # MaxReturn
    <3>1. b[t] + cost[t] <= MaxAmount
      BY <2>3, MaxAmountAssumption DEF CanModReserve, IsAmount, b
    <3>2. MaxReturn = MaxAmount + 1 /\ MaxAmount \in Nat
      BY ConverterAssumption, MaxAmountAssumption
    <3> QED
      BY <2>3, <2>4, <3>1, <3>2
  <2>6. Power(b[t], W) * Power(s + q, PPM_RESOLUTION)
          <= Power(b[t] + cost[t], W) * Power(s, PPM_RESOLUTION)
    BY <1>6, <2>1, <2>2, <2>3, <2>5, FundValue DEF s
  <2> QED
    BY <2>1, <2>3, <2>4, <2>6
<1> HIDE DEF cost
<1>9. ValueStep(c)
  <2>1. \A t \in R : W > 0
    BY <1>8
  <2>2. \A t \in R : Power(b[t], W) * Power(ledger'.supply[c], PPM_RESOLUTION)
                       <= Power(b2[t], W) * Power(s, PPM_RESOLUTION)
    BY <1>5, <1>8
  <2> QED
    BY <1>1, <2>1, <2>2, AllReservesValue
<1>10. ActiveStep(c)
  <2>1. \A t \in R : b[t] # 0 => b2[t] # 0
    BY <1>6, <1>7, <1>8
  <2> QED
    BY <1>1, <2>1, ReservesAfter DEF ActiveStep, Active
<1> QED
  BY <1>1, <1>5, <1>7, <1>9, <1>10, OneConverter

(* The returns are truncated, and computed from the supply before it falls. *)
LEMMA LiquidateValueKept ==
  ASSUME CInv, CInv', NEW auth \in Account, NEW c \in Smart, NEW q,
         Liquidate(auth, c, q)
  PROVE  PoolOK
<1> DEFINE pay == Returns(c, q)
           b == reserve_balances[c]
           b2 == reserve_balances'[c]
           s == ledger.supply[c]
           W == TotalWeight(c)
           R == Reserves(c)
           held == AfterTransfer(ledger, auth, Self, c, q)
           paid == AfterPayments(held, auth, pay, R)
<1>1. /\ CanTransfer(ledger, auth, Self, c, q)
      /\ \A t \in R : /\ InFormulaRange(s, b[t], W)
                      /\ q <= s
                      /\ CanTransfer(held, Self, auth, t, pay[t])
      /\ CanRetire(paid, c, q)
      /\ reserve_balances' = [reserve_balances EXCEPT ![c] =
                                [t \in ReserveToken |-> @[t] - pay[t]]]
      /\ ledger' = AfterRetire(paid, c, q)
      /\ UNCHANGED reserve_weights
  BY DEF Liquidate, Receives, Received
<1>2. /\ Self \in Account /\ c \in Symbol /\ R \in SUBSET Symbol
      /\ \A e \in Smart : e \in Symbol
  BY ConverterAssumption DEF Reserves
<1>3. /\ R \subseteq ReserveToken /\ s \in Nat
      /\ \A t \in R : b[t] \in Nat /\ b2[t] \in Nat
  BY <1>1, ReservesFacts, ReservesAfter
<1> HIDE DEF pay, held, paid
<1>4. /\ q \in 1..MaxAmount /\ LedgerOK(held) /\ held.issuer = ledger.issuer
      /\ held.supply = ledger.supply
  BY <1>1, <1>2, TransferOwn DEF held, CInv, LedgersOK
<1>5. LedgerOK(paid) /\ paid.issuer = held.issuer
  <2> HIDE DEF R
  <2> QED
    BY <1>1, <1>2, <1>4, PaymentsFacts DEF paid
<1>6. paid.supply = held.supply
  <2>1. held \in Ledger
    BY <1>4 DEF LedgerOK
  <2> QED
    BY <2>1 DEF paid, AfterPayments, Ledger
<1>7. paid.issuer[c] = Self
  BY <1>1, <1>4, <1>5 DEF CInv, LedgersOK, CanRetire, Exists
<1>8. ledger'.supply = [paid.supply EXCEPT ![c] = paid.supply[c] - q]
  BY <1>1, <1>2, <1>5, <1>7, RetireSupply
<1>9. ledger.supply \in [Symbol -> Int]
  BY DEF CInv, LedgersOK, LedgerOK, Ledger
<1>10. /\ ledger'.supply[c] = s - q
       /\ \A e \in Smart : e # c => ledger'.supply[e] = ledger.supply[e]
  BY <1>2, <1>4, <1>6, <1>8, <1>9
<1>11. q \in Nat /\ q > 0
  BY <1>4
<1>12. /\ \A e \in Smart : e # c => reserve_balances'[e] = reserve_balances[e]
       /\ \A t \in R : b2[t] = b[t] - pay[t]
  <2>1. reserve_balances \in [Smart -> [ReserveToken -> 0..MaxAmount]]
    BY DEF CInv, BooksOK, Balances
  <2> QED
    BY <1>1, <1>3, <2>1
<1>13. ASSUME NEW t \in R
       PROVE  /\ W \in Nat \ {0} /\ s > 0 /\ s - q \in Nat
              /\ Power(b[t], W) * Power(s - q, PPM_RESOLUTION)
                   <= Power(b2[t], W) * Power(s, PPM_RESOLUTION)
  <2>1. W \in Nat \ {0}
    <3>1. W \in Int
      BY TotalOfReserves
    <3>2. W > OnePpm /\ OnePpm \in Nat
      BY <1>1, <1>13, FormulaAssumption DEF InFormulaRange
    <3> QED
      BY <3>1, <3>2
  <2>2. pay[t] = LiquidateReturn(b[t], q, s, W)
    BY <1>3, <1>13 DEF pay, Returns
  <2>3. b[t] \in Nat /\ b2[t] = b[t] - pay[t] /\ q <= s
    BY <1>1, <1>3, <1>12, <1>13
  <2> HIDE DEF b, b2, s, W
  <2>4. Power(b[t], W) * Power(s - q, PPM_RESOLUTION)
          <= Power(b[t] - pay[t], W) * Power(s, PPM_RESOLUTION)
    <3>1. s \in Nat
      BY <1>3 DEF s
    <3> QED
      BY <1>11, <2>1, <2>2, <2>3, <3>1, LiquidateValue
  <2>5. s > 0 /\ s - q \in Nat
    BY <1>3, <1>11, <2>3 DEF s
  <2> QED
    BY <2>1, <2>3, <2>4, <2>5
<1>14. ValueStep(c)
  <2>1. \A t \in R : W > 0
    BY <1>13
  <2>2. \A t \in R : Power(b[t], W) * Power(ledger'.supply[c], PPM_RESOLUTION)
                       <= Power(b2[t], W) * Power(s, PPM_RESOLUTION)
    BY <1>10, <1>13
  <2> QED
    BY <1>1, <2>1, <2>2, AllReservesValue
<1>15. ActiveStep(c)
  <2> SUFFICES ASSUME Active(c), ~ Active(c)'
               PROVE  s > 0 /\ ledger'.supply[c] = 0
    BY DEF ActiveStep
  <2>1. PICK t \in R : b2[t] = 0
    BY <1>1, ReservesAfter
  <2>2. b[t] \in Nat /\ b[t] > 0
    BY <1>3 DEF Active
  <2>3. /\ W \in Nat \ {0} /\ s > 0 /\ s - q \in Nat
        /\ Power(b[t], W) * Power(s - q, PPM_RESOLUTION)
             <= Power(0, W) * Power(s, PPM_RESOLUTION)
    BY <1>13, <2>1
  <2>4. s \in Nat
    BY <1>3
  <2> HIDE DEF b, b2, s, W
  <2>5. /\ Power(0, W) = 0
        /\ Power(b[t], W) \in Nat /\ Power(b[t], W) > 0
    <3>1. W \in Nat /\ W > 0
      BY <2>3
    <3> QED
      BY <2>2, <3>1, NaturalPower
  <2>6. /\ Power(s - q, PPM_RESOLUTION) \in Nat
        /\ s - q > 0 => Power(s - q, PPM_RESOLUTION) > 0
        /\ Power(s, PPM_RESOLUTION) \in Nat
    BY <2>3, <2>4, FormulaAssumption, NaturalPower
  <2>7. Power(b[t], W) * Power(s - q, PPM_RESOLUTION) <= 0
    BY <2>3, <2>5, <2>6, TimesSign
  <2>8. ~ (s - q > 0)
    BY <2>5, <2>6, <2>7, TimesSign
  <2>9. s - q = 0
    BY <2>3, <2>8
  <2> QED
    BY <1>10, <2>3, <2>9 DEF s
<1> QED
  BY <1>1, <1>10, <1>12, <1>14, <1>15, OneConverter

----------------------------------------------------------------------------
(* The theorems.                                                           *)
LEMMA NextValue ==
  ASSUME CInv, CInv', Next
  PROVE  PoolOK
<1>1. ASSUME NEW auth \in Account, Administer(auth) PROVE PoolOK
  BY <1>1, AdministerValue
<1>2. ASSUME NEW auth \in Account, Provide(auth) PROVE PoolOK
  <2>1. PICK c \in Smart, q \in Quantity :
          \/ Fund(auth, c, q)
          \/ Liquidate(auth, c, q)
          \/ \E t \in ReserveToken : Deposit(auth, c, t, q) \/ Withdraw(auth, c, t, q)
    BY <1>2 DEF Provide
  <2> QED
    BY <2>1, FundValueKept, LiquidateValueKept, DepositValue
<1>3. ASSUME NEW auth \in Account, NEW to \in Payee, NEW t \in Symbol,
             NEW q \in Quantity, Transfer(auth, to, t, q)
      PROVE  PoolOK
  BY <1>3, TransferValue, ConverterAssumption
<1>4. ASSUME Trade PROVE PoolOK
  <2>1. PICK c \in Smart, t \in ReserveToken, q \in Quantity :
          \/ ConvertToSmart(c, t, q)
          \/ ConvertToReserve(c, t, q)
          \/ \E r \in ReserveToken : ConvertAcross(c, t, r, q)
    BY <1>4 DEF Trade
  <2>2. q \in Int
    BY ConverterAssumption
  <2> QED
    BY <2>1, <2>2, ConvertToSmartValue, ConvertToReserveValue, ConvertAcrossValue
<1> QED
  BY <1>1, <1>2, <1>3, <1>4 DEF Next

(* Whatever is bought, sold, exchanged, funded or liquidated, for any      *)
(* weights, fees and amounts, the value behind one smart token never       *)
(* falls: each formula rounds in favour of the reserves.                   *)
THEOREM ConverterPoolValueNeverFalls == Spec => PoolValueNeverFalls
<1>1. CInv /\ CInv' /\ [Next]_vars => [PoolOK]_vars
  BY NextValue
<1>2. PoolOK => \A c \in Smart : ValueStep(c)
  BY DEF PoolOK
<1> QED
  BY <1>1, <1>2, InvariantHolds, PTL DEF Spec, PoolValueNeverFalls, ValueStep

(* No trade, deposit or payment empties a reserve of an active converter:  *)
(* only a new reserve of its owner, or the end of its last smart token.    *)
THEOREM ConverterActivationIsStable == Spec => ActivationIsStable
<1>1. CInv /\ CInv' /\ [Next]_vars => [PoolOK]_vars
  BY NextValue
<1>2. PoolOK => \A c \in Smart : ActiveStep(c)
  BY DEF PoolOK
<1> QED
  BY <1>1, <1>2, InvariantHolds, PTL DEF Spec, ActivationIsStable, ActiveStep
=============================================================================
