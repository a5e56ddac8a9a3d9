---------------------------- MODULE TokenProofs ----------------------------
(***************************************************************************)
(* Theorems about Token, for every finite set of accounts, every set of    *)
(* symbols, every max_amount and every set of quantities.  The inductive   *)
(* invariant is LedgerOK: "supply is the sum of the balances" is inductive *)
(* only together with the ranges and with "no coins outside rows", because *)
(* create and close write 0 where coins might lie.                         *)
(***************************************************************************)
EXTENDS Token, TokenLedgerProofs

IInv == LedgerOK(ledger) /\ signer \in Account \cup {NoAccount}

LEMMA InitIInv == Init => IInv
BY EmptyLedgerOK DEF Init, IInv

LEMMA NextIInv == IInv /\ [Next]_vars => IInv'
<1> SUFFICES ASSUME IInv, [Next]_vars PROVE IInv'
  OBVIOUS
<1> USE DEF IInv
<1>1. ASSUME NEW auth \in Account, NEW a \in Account, NEW s \in Symbol, Open(auth, a, s)
      PROVE  IInv'
  BY <1>1, OpenKeepsLedgerOK DEF Open
<1>2. ASSUME NEW auth \in Account, NEW a \in Account, NEW s \in Symbol, Close(auth, a, s)
      PROVE  IInv'
  BY <1>2, CloseKeepsLedgerOK DEF Close
<1>3. ASSUME NEW auth \in Account, NEW a \in Account, NEW s \in Symbol,
             NEW q \in Quantity, Create(auth, a, s, q)
      PROVE  IInv'
  BY <1>3, QuantityAssumption, CreateKeepsLedgerOK DEF Create
<1>4. ASSUME NEW auth \in Account, NEW a \in Account, NEW s \in Symbol,
             NEW q \in Quantity, Issue(auth, a, s, q)
      PROVE  IInv'
  BY <1>4, QuantityAssumption, IssueKeepsLedgerOK DEF Issue
<1>5. ASSUME NEW auth \in Account, NEW s \in Symbol, NEW q \in Quantity,
             Retire(auth, s, q)
      PROVE  IInv'
  BY <1>5, QuantityAssumption, RetireKeepsLedgerOK DEF Retire
<1>6. ASSUME NEW auth \in Account, NEW a \in Account, NEW to \in Account,
             NEW s \in Symbol, NEW q \in Quantity, Transfer(auth, a, to, s, q)
      PROVE  IInv'
  BY <1>6, QuantityAssumption, TransferKeepsLedgerOK DEF Transfer
<1>7. CASE UNCHANGED vars
  BY <1>7 DEF vars
<1> QED
  BY <1>1, <1>2, <1>3, <1>4, <1>5, <1>6, <1>7 DEF Next

(* The inductive invariant holds in every reachable state.                 *)
THEOREM TokenInvariant == Spec => []IInv
BY InitIInv, NextIInv, PTL DEF Spec

(* The state of the contract is always well typed.                         *)
THEOREM TokenTypeCorrect == Spec => []TypeOK
<1>1. IInv => TypeOK
  BY DEF IInv, LedgerOK, TypeOK
<1> QED
  BY <1>1, TokenInvariant, PTL

(* The supply field always equals the sum of the balances.                 *)
THEOREM TokenSupplyIsBacked == Spec => []SupplyIsBacked
<1>1. IInv => SupplyIsBacked
  BY DEF IInv, LedgerOK, SupplyIsBacked
<1> QED
  BY <1>1, TokenInvariant, PTL

(* No supply exceeds its maximum and no balance is negative.               *)
THEOREM TokenAmountsInRange == Spec => []AmountsInRange
<1>1. IInv => AmountsInRange
  BY DEF IInv, LedgerOK, AmountsInRange
<1> QED
  BY <1>1, TokenInvariant, PTL

(* Coins lie only in rows, rows only in created symbols.                   *)
THEOREM TokenBalancesInRows == Spec => []BalancesInRows
<1>1. IInv => BalancesInRows
  BY DEF IInv, LedgerOK, BalancesInRows
<1> QED
  BY <1>1, TokenInvariant, PTL
----------------------------------------------------------------------------
(* A balance falls only under its owner's signature.                       *)
THEOREM TokenDebitIsAuthorised == Spec => DebitIsAuthorised
<1> DEFINE Debit == \A a \in Account, s \in Symbol :
             ledger'.balance[s][a] < ledger.balance[s][a] => signer' = a
<1>1. ASSUME IInv, [Next]_vars PROVE [Debit]_vars
  <2> SUFFICES ASSUME Next PROVE Debit
    BY <1>1
  <2>l. ledger \in Ledger
    BY <1>1 DEF IInv, LedgerOK
  <2> SUFFICES ASSUME NEW b \in Account, NEW t \in Symbol,
                      ledger'.balance[t][b] < ledger.balance[t][b]
               PROVE  signer' = b
    OBVIOUS
  <2>t. /\ ledger.balance \in [Symbol -> [Account -> Int]]
        /\ ledger.balance[t][b] \in Int
    BY <2>l DEF Ledger
  <2>1. PICK auth \in Account, a \in Account, s \in Symbol :
          \/ Open(auth, a, s)
          \/ Close(auth, a, s)
          \/ \E q \in Quantity :
               \/ Create(auth, a, s, q)
               \/ Issue(auth, a, s, q)
               \/ Retire(auth, s, q)
               \/ \E to \in Account : Transfer(auth, a, to, s, q)
    BY DEF Next
  <2>2. CASE Open(auth, a, s) \/ Close(auth, a, s)
    <3>0. ledger' \in {AfterOpen(ledger, a, s), AfterClose(ledger, a, s)}
      BY <2>2 DEF Open, Close
    <3>1. ledger'.balance = ledger.balance
      BY <2>l, <3>0, RowFacts
    <3> QED
      BY <2>t, <3>1
  <2>3. ASSUME NEW q \in Quantity, Create(auth, a, s, q) PROVE FALSE
    <3>0. ledger' = AfterCreate(ledger, a, s, q) /\ q \in Int
      BY <2>3, QuantityAssumption DEF Create
    <3>1. AfterCreate(ledger, a, s, q).balance = ledger.balance
      BY <2>l, <3>0, CreateKeepsBalance
    <3> QED
      BY <2>t, <3>0, <3>1
  <2>4. ASSUME NEW q \in Quantity, Issue(auth, a, s, q) PROVE FALSE
    <3>1. q \in Int /\ q > 0 /\ ledger' = AfterIssue(ledger, a, s, q)
      BY <2>4, QuantityAssumption DEF Issue, CanIssue
    <3>2. AfterIssue(ledger, a, s, q).balance = Credited(ledger.balance, a, s, q)
      BY <2>l, <3>1, IssueFacts
    <3> QED
      BY <2>t, <3>1, <3>2 DEF Credited
  <2>5. ASSUME NEW q \in Quantity, Retire(auth, s, q) PROVE signer' = b
    <3>1. ledger.issuer[s] \in Account /\ signer' = ledger.issuer[s] /\ q \in Int
      BY <2>l, <2>5, QuantityAssumption DEF Retire, CanRetire, Exists, Ledger
    <3>2. AfterRetire(ledger, s, q).balance = Credited(ledger.balance, ledger.issuer[s], s, -q)
      BY <2>l, <3>1, RetireFacts
    <3>3. ledger' = AfterRetire(ledger, s, q)
      BY <2>5 DEF Retire
    <3> QED
      BY <2>t, <3>1, <3>2, <3>3 DEF Credited
  <2>6. ASSUME NEW q \in Quantity, NEW to \in Account, Transfer(auth, a, to, s, q)
        PROVE  signer' = b
    <3>1. signer' = a /\ q \in Int /\ q > 0 /\ a # to
      BY <2>6, QuantityAssumption DEF Transfer, CanTransfer
    <3>2. AfterTransfer(ledger, a, to, s, q).balance =
            Credited(Credited(ledger.balance, a, s, -q), to, s, q)
      BY <2>l, <3>1, TransferFacts
    <3>3. ledger' = AfterTransfer(ledger, a, to, s, q)
      BY <2>6 DEF Transfer
    <3> QED
      BY <2>t, <3>1, <3>2, <3>3 DEF Credited
  <2> QED
    BY <2>1, <2>2, <2>3, <2>4, <2>5, <2>6
<1> QED
  BY <1>1, TokenInvariant, PTL DEF Spec, DebitIsAuthorised

(* The supply changes only under the issuer's signature; issuer and maximum *)
(* are fixed when a symbol is created.                                     *)
THEOREM TokenIssuerControlsSupply == Spec => IssuerControlsSupply
<1> DEFINE Control(t) ==
             /\ ledger'.supply[t] # ledger.supply[t] => signer' = ledger.issuer[t]
             /\ Exists(ledger, t) =>
                  /\ ledger'.issuer[t] = ledger.issuer[t]
                  /\ ledger'.max_supply[t] = ledger.max_supply[t]
           Controlled == \A s \in Symbol :
             /\ ledger'.supply[s] # ledger.supply[s] => signer' = ledger.issuer[s]
             /\ Exists(ledger, s) =>
                  /\ ledger'.issuer[s] = ledger.issuer[s]
                  /\ ledger'.max_supply[s] = ledger.max_supply[s]
<1>1. ASSUME IInv, [Next]_vars PROVE [Controlled]_vars
  <2> SUFFICES ASSUME Next, NEW t \in Symbol PROVE Control(t)
    BY <1>1
  <2>l. LedgerOK(ledger) /\ ledger \in Ledger
    BY <1>1 DEF IInv, LedgerOK
  <2>1. PICK auth \in Account, a \in Account, s \in Symbol :
          \/ Open(auth, a, s)
          \/ Close(auth, a, s)
          \/ \E q \in Quantity :
               \/ Create(auth, a, s, q)
               \/ Issue(auth, a, s, q)
               \/ Retire(auth, s, q)
               \/ \E to \in Account : Transfer(auth, a, to, s, q)
    BY DEF Next
  <2>2. CASE Open(auth, a, s) \/ Close(auth, a, s)
    <3>0. ledger' \in {AfterOpen(ledger, a, s), AfterClose(ledger, a, s)}
      BY <2>2 DEF Open, Close
    <3>1. /\ ledger'.supply = ledger.supply
          /\ ledger'.max_supply = ledger.max_supply
          /\ ledger'.issuer = ledger.issuer
      BY <2>l, <3>0, RowFacts
    <3> QED
      BY <3>1
  <2>3. ASSUME NEW q \in Quantity, Create(auth, a, s, q) PROVE Control(t)
    <3>1. /\ ~ Exists(ledger, s)
          /\ ledger' = AfterCreate(ledger, a, s, q)
      BY <2>3 DEF Create, CanCreate
    <3>2. /\ ledger'.supply[s] = 0
          /\ t # s => /\ ledger'.supply[t] = ledger.supply[t]
                      /\ ledger'.issuer[t] = ledger.issuer[t]
                      /\ ledger'.max_supply[t] = ledger.max_supply[t]
      BY <2>l, <3>1 DEF AfterCreate, Ledger
    <3>3. ledger.supply[s] = 0
      BY <2>l, <3>1, UncreatedIsEmpty
    <3> QED
      BY <3>1, <3>2, <3>3
  <2>4. ASSUME NEW q \in Quantity, Issue(auth, a, s, q) PROVE Control(t)
    <3>1. ledger' = AfterIssue(ledger, a, s, q) /\ signer' = ledger.issuer[s]
      BY <2>4 DEF Issue
    <3>2. /\ ledger'.issuer = ledger.issuer
          /\ ledger'.max_supply = ledger.max_supply
          /\ t # s => ledger'.supply[t] = ledger.supply[t]
      BY <2>l, <3>1 DEF AfterIssue, AddBalance, Ledger
    <3> QED
      BY <3>1, <3>2
  <2>5. ASSUME NEW q \in Quantity, Retire(auth, s, q) PROVE Control(t)
    <3>1. ledger' = AfterRetire(ledger, s, q) /\ signer' = ledger.issuer[s]
      BY <2>5 DEF Retire
    <3>2. /\ ledger'.issuer = ledger.issuer
          /\ ledger'.max_supply = ledger.max_supply
          /\ t # s => ledger'.supply[t] = ledger.supply[t]
      BY <2>l, <3>1 DEF AfterRetire, SubBalance, Ledger
    <3> QED
      BY <3>1, <3>2
  <2>6. ASSUME NEW q \in Quantity, NEW to \in Account, Transfer(auth, a, to, s, q)
        PROVE  Control(t)
    <3>1. ledger' = AfterTransfer(ledger, a, to, s, q)
      BY <2>6 DEF Transfer
    <3>2. /\ ledger'.supply = ledger.supply
          /\ ledger'.issuer = ledger.issuer
          /\ ledger'.max_supply = ledger.max_supply
      BY <2>l, <3>1 DEF AfterTransfer, SubBalance, AddBalance, Ledger
    <3> QED
      BY <3>2
  <2> QED
    BY <2>1, <2>2, <2>3, <2>4, <2>5, <2>6
<1> QED
  BY <1>1, TokenInvariant, PTL DEF Spec, IssuerControlsSupply

----------------------------------------------------------------------------
(* The contract implements money: with supply and rows forgotten, every    *)
(* action introduces a kind, mints under the cap, burns, moves, or does    *)
(* nothing.  Minting needs SupplyIsBacked: the code compares with the      *)
(* counter, the promise speaks of the coins in circulation.                *)
THEOREM TokenImplementsMoney == Spec => ImplementsMoney
<1>1. Init => Money!Init
  BY DEF Init, EmptyLedger, Money!Init
<1>2. ASSUME IInv, [Next]_vars PROVE [Money!Next]_Money!coinVars
  <2>l. /\ ledger \in Ledger /\ Backed(ledger) /\ Bounded(ledger)
        /\ [Next]_vars
    BY <1>2 DEF IInv, LedgerOK
  <2>t. ledger.balance \in [Symbol -> [Account -> Int]]
    BY <2>l DEF Ledger
  <2>1. CASE UNCHANGED vars
    BY <2>1 DEF vars, Money!coinVars
  <2>2. CASE Next
    <3>1. PICK auth \in Account, a \in Account, s \in Symbol :
            \/ Open(auth, a, s)
            \/ Close(auth, a, s)
            \/ \E q \in Quantity :
                 \/ Create(auth, a, s, q)
                 \/ Issue(auth, a, s, q)
                 \/ Retire(auth, s, q)
                 \/ \E to \in Account : Transfer(auth, a, to, s, q)
      BY <2>2 DEF Next
    <3>2. CASE Open(auth, a, s) \/ Close(auth, a, s)
      <4>1. UNCHANGED <<ledger.issuer, ledger.max_supply, ledger.balance>>
        BY <2>l, <3>2, RowFacts DEF Open, Close
      <4> QED
        BY <4>1 DEF Money!coinVars
    <3>3. ASSUME NEW q \in Quantity, Create(auth, a, s, q) PROVE Money!Next
      <4>1. /\ q \in 1..MaxAmount
            /\ ledger.issuer[s] = NoAccount
            /\ ledger' = AfterCreate(ledger, a, s, q)
        BY <3>3, QuantityAssumption, MaxAmountAssumption
        DEF Create, CanCreate, IsAmount, Exists
      <4>2. /\ ledger'.issuer = [ledger.issuer EXCEPT ![s] = a]
            /\ ledger'.max_supply = [ledger.max_supply EXCEPT ![s] = q]
            /\ ledger'.balance = ledger.balance
        BY <2>l, <4>1, CreateFacts
      <4>3. Money!Introduce(s, a, q)
        BY <4>1, <4>2 DEF Money!Introduce
      <4> QED
        BY <4>1, <4>3 DEF Money!Next
    <3>4. ASSUME NEW q \in Quantity, Issue(auth, a, s, q) PROVE Money!Next
      <4>1. /\ q \in Int /\ q > 0 /\ a = ledger.issuer[s]
            /\ ledger.issuer[s] # NoAccount
            /\ q <= ledger.max_supply[s] - ledger.supply[s]
            /\ ledger' = AfterIssue(ledger, a, s, q)
        BY <3>4, QuantityAssumption DEF Issue, CanIssue, Exists
      <4>2. /\ ledger'.issuer = ledger.issuer
            /\ ledger'.max_supply = ledger.max_supply
            /\ ledger'.balance = Credited(ledger.balance, a, s, q)
        BY <2>l, <4>1, IssueFacts
      <4>3. /\ ledger.supply[s] = SumFunctionOnSet(ledger.balance[s], Account)
            /\ ledger.supply[s] \in Int /\ ledger.supply[s] >= 0
            /\ ledger.max_supply[s] \in Int /\ ledger.max_supply[s] <= MaxAmount
        BY <2>l DEF Backed, TotalBalance, Bounded, Ledger
      <4>4. q \in 1..MaxAmount
        BY <4>1, <4>3, MaxAmountAssumption
      <4>5. Money!InCirculation(s) + q <= ledger.max_supply[s]
        <5>1. Money!InCirculation(s) = SumFunctionOnSet(ledger.balance[s], Account)
          BY DEF Money!InCirculation,
                 Money!SumFunctionOnSet, Money!FoldFunctionOnSet, Money!MapThenFoldSet,
                 SumFunctionOnSet, FoldFunctionOnSet, MapThenFoldSet
        <5> QED
          BY <4>1, <4>3, <5>1
      <4>6. Money!Mint(s, q)
        BY <4>1, <4>2, <4>5 DEF Money!Mint, Credited
      <4> QED
        BY <4>4, <4>6 DEF Money!Next
    <3>5. ASSUME NEW q \in Quantity, Retire(auth, s, q) PROVE Money!Next
      <4> DEFINE b == ledger.issuer[s]
      <4>1. /\ q \in 1..MaxAmount /\ b # NoAccount /\ b \in Account
            /\ ledger.balance[s][b] >= q
            /\ ledger' = AfterRetire(ledger, s, q)
        BY <2>l, <3>5, QuantityAssumption, MaxAmountAssumption
        DEF Retire, CanRetire, CanSub, IsAmount, Exists, Ledger
      <4>2. /\ ledger'.issuer = ledger.issuer
            /\ ledger'.max_supply = ledger.max_supply
            /\ ledger'.balance = Credited(ledger.balance, b, s, -q)
        BY <2>l, <4>1, RetireFacts
      <4>3. ledger'.balance = [ledger.balance EXCEPT ![s][b] = @ - q]
        BY <2>t, <4>1, <4>2 DEF Credited
      <4>4. q <= ledger.balance[s][b]
        BY <2>t, <4>1
      <4>5. Money!Burn(s, q)
        BY <4>1, <4>2, <4>3, <4>4 DEF Money!Burn
      <4> QED
        BY <4>1, <4>5 DEF Money!Next
    <3>6. ASSUME NEW q \in Quantity, NEW to \in Account, Transfer(auth, a, to, s, q)
          PROVE  Money!Next
      <4>1. /\ q \in 1..MaxAmount /\ a # to /\ ledger.issuer[s] # NoAccount
            /\ q <= ledger.balance[s][a]
            /\ ledger' = AfterTransfer(ledger, a, to, s, q)
        BY <2>t, <3>6, QuantityAssumption, MaxAmountAssumption
        DEF Transfer, CanTransfer, CanSub, IsAmount, Exists
      <4>2. /\ ledger'.issuer = ledger.issuer
            /\ ledger'.max_supply = ledger.max_supply
            /\ ledger'.balance = Credited(Credited(ledger.balance, a, s, -q), to, s, q)
        BY <2>l, <4>1, TransferFacts
      <4>3. ledger'.balance = [ledger.balance EXCEPT ![s][a] = @ - q, ![s][to] = @ + q]
        BY <2>t, <4>1, <4>2 DEF Credited
      <4>4. Money!Move(s, a, to, q)
        BY <4>1, <4>2, <4>3 DEF Money!Move
      <4> QED
        BY <4>1, <4>4 DEF Money!Next
    <3> QED
      BY <3>1, <3>2, <3>3, <3>4, <3>5, <3>6
  <2> QED
    BY <2>l, <2>1, <2>2
<1> QED
  BY <1>1, <1>2, TokenInvariant, PTL DEF Spec, ImplementsMoney, Money!Spec
=============================================================================
