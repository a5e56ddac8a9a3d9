------------------------- MODULE ConversionsProofs -------------------------
(***************************************************************************)
(* Whatever the path of a conversion, the balances and the settings: the   *)
(* terms of the trader survive every hop, the affiliate is paid once, the  *)
(* network keeps nothing, no switch is circumvented, and the transaction   *)
(* is one step of the abstract Exchange.                                   *)
(*                                                                         *)
(* All of this rests on one inductive invariant that says what can be      *)
(* pending in the middle of a transaction, and whose the tokens then are.  *)
(***************************************************************************)
EXTENDS Conversions, TokenLedgerProofs, SequenceTheorems

----------------------------------------------------------------------------
(* Memos: a contract of the path parses what the one before it has built,  *)
(* for memos with any fields.                                              *)

(* split, on the texts build_memo makes.                                   *)
LEMMA SplitOfTwo ==
  ASSUME NEW a, NEW b
  PROVE  /\ Split(<<a, b>>)[1] = a
         /\ IF b = Empty THEN Len(Split(<<a, b>>)) = 1
            ELSE Len(Split(<<a, b>>)) = 2 /\ Split(<<a, b>>)[2] = b
<1>1. CASE b = Empty
  <2>1. Split(<<a, b>>) = SubSeq(<<a, b>>, 1, 1)
    BY <1>1 DEF Split, Last, Front
  <2>2. Len(SubSeq(<<a, b>>, 1, 1)) = 1 /\ SubSeq(<<a, b>>, 1, 1)[1] = a
    OBVIOUS
  <2> QED
    BY <1>1, <2>1, <2>2
<1>2. CASE b # Empty
  BY <1>2 DEF Split, Last
<1> QED
  BY <1>1, <1>2

(* The memos a contract builds: the last word of the first part is not     *)
(* empty, for split would drop it.                                         *)
IsMemo(m) ==
  /\ m.trader_account # Empty \/ m.affiliate_account # Empty
       \/ m.dest_account # Empty
  /\ m.affiliate_account # Empty => m.affiliate_fee # Empty

(* parse_memo, given what split makes of the text.                         *)
LEMMA Parsed ==
  ASSUME NEW text, NEW parts, NEW m,
         Split(Split(text)[1]) = parts,
         Len(parts) \in 4..7,
         parts[1] = m.version, parts[2] = m.path, parts[3] = m.min_return,
         parts[4] = m.dest_account,
         m.trader_account = IF Len(parts) \in {5, 7} THEN parts[5] ELSE Empty,
         m.affiliate_account = IF Len(parts) \in {6, 7}
                               THEN parts[Len(parts) - 1] ELSE Empty,
         m.affiliate_account # Empty => m.affiliate_fee = parts[Len(parts)],
         m.affiliate_account = Empty => Len(parts) < 6
  PROVE  /\ ValidMemo(text)
         /\ parse_memo(text) =
              [version           |-> m.version,
               path              |-> m.path,
               min_return        |-> m.min_return,
               dest_account      |-> m.dest_account,
               trader_account    |-> m.trader_account,
               affiliate_account |-> m.affiliate_account,
               affiliate_fee     |-> IF m.affiliate_account = Empty
                                     THEN Empty ELSE m.affiliate_fee,
               receiver_memo     |-> IF Len(Split(text)) = 2
                                     THEN Split(text)[2] ELSE "convert"]
<1>1. (IF Len(parts) \in {6, 7} THEN parts[Len(parts)] ELSE Empty)
        = (IF m.affiliate_account = Empty THEN Empty ELSE m.affiliate_fee)
  <2>1. CASE m.affiliate_account = Empty
    BY <2>1
  <2>2. CASE m.affiliate_account # Empty
    BY <2>2
  <2> QED
    BY <2>1, <2>2
<1> QED
  BY <1>1 DEF ValidMemo, parse_memo

(* A memo is parsed back as it was built, whether or not it names a trader *)
(* and an affiliate, although nothing but the number of its parts tells    *)
(* the two apart.  Only an empty text for the receiver becomes "convert",  *)
(* and the share of an affiliate who is not named is lost.                 *)
THEOREM MemoSurvives ==
  ASSUME NEW m, IsMemo(m)
  PROVE  /\ ValidMemo(build_memo(m))
         /\ parse_memo(build_memo(m)) =
              [version           |-> m.version,
               path              |-> m.path,
               min_return        |-> m.min_return,
               dest_account      |-> m.dest_account,
               trader_account    |-> m.trader_account,
               affiliate_account |-> m.affiliate_account,
               affiliate_fee     |-> IF m.affiliate_account = Empty
                                     THEN Empty ELSE m.affiliate_fee,
               receiver_memo     |-> IF m.receiver_memo = Empty THEN "convert"
                                     ELSE m.receiver_memo]
<1> DEFINE first == <<m.version, m.path, m.min_return, m.dest_account>>
           parts == build_memo(m)[1]
           text  == build_memo(m)
<1>1. text = <<parts, m.receiver_memo>>
  BY DEF build_memo
<1> SUFFICES /\ Split(parts) = parts
             /\ Len(parts) \in 4..7
             /\ parts[1] = m.version /\ parts[2] = m.path
             /\ parts[3] = m.min_return /\ parts[4] = m.dest_account
             /\ m.trader_account =
                  IF Len(parts) \in {5, 7} THEN parts[5] ELSE Empty
             /\ m.affiliate_account =
                  IF Len(parts) \in {6, 7} THEN parts[Len(parts) - 1] ELSE Empty
             /\ m.affiliate_account # Empty => m.affiliate_fee = parts[Len(parts)]
             /\ m.affiliate_account = Empty => Len(parts) < 6
  <2> HIDE DEF parts, text
  <2>1. /\ Split(text)[1] = parts
        /\ IF m.receiver_memo = Empty THEN Len(Split(text)) = 1
           ELSE Len(Split(text)) = 2 /\ Split(text)[2] = m.receiver_memo
    BY <1>1, SplitOfTwo
  <2>2. /\ ValidMemo(text)
        /\ parse_memo(text) =
              [version           |-> m.version,
               path              |-> m.path,
               min_return        |-> m.min_return,
               dest_account      |-> m.dest_account,
               trader_account    |-> m.trader_account,
               affiliate_account |-> m.affiliate_account,
               affiliate_fee     |-> IF m.affiliate_account = Empty
                                     THEN Empty ELSE m.affiliate_fee,
               receiver_memo     |-> IF Len(Split(text)) = 2
                                     THEN Split(text)[2] ELSE "convert"]
    BY <2>1, Parsed
  <2>3. (IF Len(Split(text)) = 2 THEN Split(text)[2] ELSE "convert")
          = (IF m.receiver_memo = Empty THEN "convert" ELSE m.receiver_memo)
    BY <2>1
  <2>4. /\ ValidMemo(text)
        /\ parse_memo(text) =
              [version           |-> m.version,
               path              |-> m.path,
               min_return        |-> m.min_return,
               dest_account      |-> m.dest_account,
               trader_account    |-> m.trader_account,
               affiliate_account |-> m.affiliate_account,
               affiliate_fee     |-> IF m.affiliate_account = Empty
                                     THEN Empty ELSE m.affiliate_fee,
               receiver_memo     |-> IF m.receiver_memo = Empty THEN "convert"
                                     ELSE m.receiver_memo]
    BY <2>2, <2>3
  <2> QED
    BY <2>4 DEF text
<1>3. CASE m.trader_account = Empty /\ m.affiliate_account = Empty
  <2>1. parts = first
    BY <1>3 DEF build_memo, Unless
  <2>2. /\ Len(parts) = 4
        /\ parts[1] = m.version
        /\ parts[2] = m.path
        /\ parts[3] = m.min_return
        /\ parts[4] = m.dest_account
    BY <2>1
  <2>3. parts[Len(parts)] # Empty
    BY <1>3, <2>2 DEF IsMemo
  <2> HIDE DEF parts
  <2>4. Split(parts) = parts
    BY <2>2, <2>3 DEF Split, Last
  <2> QED
    BY <1>3, <2>2, <2>4 DEF IsMemo
<1>4. CASE m.trader_account # Empty /\ m.affiliate_account = Empty
  <2>1. parts = Append(first, m.trader_account)
    BY <1>4 DEF build_memo, Unless
  <2>2. /\ Len(parts) = 5
        /\ parts[1] = m.version
        /\ parts[2] = m.path
        /\ parts[3] = m.min_return
        /\ parts[4] = m.dest_account
        /\ parts[5] = m.trader_account
    BY <2>1
  <2>3. parts[Len(parts)] # Empty
    BY <1>4, <2>2 DEF IsMemo
  <2> HIDE DEF parts
  <2>4. Split(parts) = parts
    BY <2>2, <2>3 DEF Split, Last
  <2> QED
    BY <1>4, <2>2, <2>4 DEF IsMemo
<1>5. CASE m.trader_account = Empty /\ m.affiliate_account # Empty
  <2>1. parts = Append(Append(first, m.affiliate_account), m.affiliate_fee)
    BY <1>5 DEF build_memo, Unless
  <2>2. /\ Len(parts) = 6
        /\ parts[1] = m.version
        /\ parts[2] = m.path
        /\ parts[3] = m.min_return
        /\ parts[4] = m.dest_account
        /\ parts[5] = m.affiliate_account
        /\ parts[6] = m.affiliate_fee
    BY <2>1
  <2>3. parts[Len(parts)] # Empty
    BY <1>5, <2>2 DEF IsMemo
  <2> HIDE DEF parts
  <2>4. Split(parts) = parts
    BY <2>2, <2>3 DEF Split, Last
  <2> QED
    BY <1>5, <2>2, <2>4 DEF IsMemo
<1>6. CASE m.trader_account # Empty /\ m.affiliate_account # Empty
  <2>1. parts = Append(Append(Append(first, m.trader_account),
                              m.affiliate_account), m.affiliate_fee)
    BY <1>6 DEF build_memo, Unless
  <2>2. /\ Len(parts) = 7
        /\ parts[1] = m.version
        /\ parts[2] = m.path
        /\ parts[3] = m.min_return
        /\ parts[4] = m.dest_account
        /\ parts[5] = m.trader_account
        /\ parts[6] = m.affiliate_account
        /\ parts[7] = m.affiliate_fee
    BY <2>1
  <2>3. parts[Len(parts)] # Empty
    BY <1>6, <2>2 DEF IsMemo
  <2> HIDE DEF parts
  <2>4. Split(parts) = parts
    BY <2>2, <2>3 DEF Split, Last
  <2> QED
    BY <1>6, <2>2, <2>4 DEF IsMemo
<1> QED
  BY <1>3, <1>4, <1>5, <1>6

----------------------------------------------------------------------------
(***************************************************************************)
(* The inductive invariant.  r is the transfer the transaction began with. *)
(***************************************************************************)
Request  == order[1].request
Asked(r) == parse_memo(r.memo)

(* Whether the tokens are sent to the network to be converted.             *)
Swaps(r) ==
  r.to = Network /\ r.from \notin SystemAccount /\ ValidMemo(r.memo)

IsTransfer(a) ==
  /\ a = transfer(a.from, a.to, a.token, a.quantity, a.memo)
  /\ a.from \in Account /\ a.to \in Account
  /\ a.token \in Symbol /\ a.quantity \in Int

(* The accounts in the first i words of the path are converters.           *)
Passed(r, i) ==
  \A k \in 1..i : k % 2 = 1 => Asked(r).path[k].account \in Converter

Again(receiver_memo) ==
  IF receiver_memo = Empty THEN "convert" ELSE receiver_memo

Trader(r) ==
  IF Asked(r).trader_account = Empty THEN r.from ELSE Asked(r).trader_account

(* The memo m holds what was asked for, less the first i words of the path *)
(* and less the affiliate once it has been paid.                           *)
Carries(r, m, i, paid) ==
  /\ i \in 0..Len(Asked(r).path) /\ i % 2 = 0 /\ Passed(r, i)
  /\ m.path = SubSeq(Asked(r).path, i + 1, Len(Asked(r).path))
  /\ m.min_return = Asked(r).min_return
  /\ m.dest_account = Asked(r).dest_account
  /\ m.trader_account = Trader(r)
  /\ Again(m.receiver_memo) = Again(Asked(r).receiver_memo)
  /\ IF paid \/ Asked(r).affiliate_account = Empty
     THEN m.affiliate_account = Empty
     ELSE /\ m.affiliate_account = Asked(r).affiliate_account
          /\ m.affiliate_fee = Asked(r).affiliate_fee

(* The token that comes out of the first i words of the path.              *)
Comes(r, u, i) ==
  IF i = 0 THEN u = r.token ELSE CodeOf[u] = Asked(r).path[i]

(* What the holders have lost and gained on the way from the ledger S to   *)
(* the ledger L, with T paid to affiliates and n of u still in the hands   *)
(* of the network.                                                         *)
Offered(r, j, h) == IF j = r.token /\ h = r.from THEN r.quantity ELSE 0

Tipped(r, T, j, h) ==
  IF T # <<>> /\ j = T[1].token /\ h = Asked(r).affiliate_account
  THEN T[1].fee ELSE 0

InHand(j, h, u, n) == IF j = u /\ h = Network THEN n ELSE 0

Holds(r, L, S, T, u, n) ==
  \A j \in Symbol, h \in Holders :
    L.balance[j][h] =
      S.balance[j][h] - Offered(r, j, h) + Tipped(r, T, j, h) + InHand(j, h, u, n)

(* The same, once the transfer a has delivered what was in hand.           *)
Delivered(r, L, S, T, a) ==
  \A j \in Symbol, h \in Holders :
    L.balance[j][h] =
      S.balance[j][h] - Offered(r, j, h) + Tipped(r, T, j, h)
        + (IF j = a.token /\ h = a.to THEN a.quantity ELSE 0)

(* The transfer a takes what the network has in hand to the next account   *)
(* of the path, or to the receiver.                                        *)
Forwards(r, a, paid) ==
  /\ IsTransfer(a) /\ a.from = Network
  /\ \E i \in 0..Len(Asked(r).path) :
       /\ Comes(r, a.token, i)
       /\ \/ /\ i < Len(Asked(r).path)
             /\ a.to = Asked(r).path[i + 1].account
             /\ ValidMemo(a.memo)
             /\ Carries(r, parse_memo(a.memo), i, paid)
          \/ /\ i = Len(Asked(r).path) /\ i % 2 = 0 /\ Passed(r, i)
             /\ a.to = Asked(r).dest_account
             /\ a.quantity >= MinReturn(Asked(r))
             /\ ValidMemo(a.memo) => parse_memo(a.memo).path = <<>>

(* fee of the token t is a due share of fee + rest.                        *)
Due(t, fee, rest) ==
  /\ t \in Symbol /\ fee \in Nat \ {0} /\ rest \in Int
  /\ CodeOf[t] = BNT
  /\ ContractOf[t] = network_settings.network_token
  /\ fee * MAX_FEE < network_settings.max_fee * (fee + rest)

Tips(r, T) ==
  T # <<>> =>
    /\ Swaps(r)
    /\ Asked(r).affiliate_account \in Account \ {Network}
    /\ T = <<T[1]>>
    /\ Due(T[1].token, T[1].fee, T[1].net)
    /\ T[1].fee <= MaxAmount

(* A converter sells the token t.                                          *)
Sells(c, t) ==
  /\ settings[c].enabled
  /\ IF HasSettings(c) /\ t = settings[c].smart THEN settings[c].smart_enabled
     ELSE reserves[c][t].sale_enabled

(* M is the ledger L after the transfer a.                                 *)
Moves(L, M, a) ==
  /\ a.from # a.to /\ a.quantity \in 1..MaxAmount
  /\ M.supply = L.supply /\ M.issuer = L.issuer
  /\ \A j \in Symbol, h \in Account :
       M.balance[j][h] = L.balance[j][h]
         - (IF j = a.token /\ h = a.from THEN a.quantity ELSE 0)
         + (IF j = a.token /\ h = a.to THEN a.quantity ELSE 0)

(* What is still to be retired of a conversion.                            *)
Owed(p, t, c) ==
  IF p[1].action = "retire" /\ p[1].token = t /\ p[1].from = c
  THEN p[1].quantity ELSE 0

Guarded(r, L, S, p) ==
  \A c \in Converter, t \in Symbol :
    (c # r.from /\ ~ Sells(c, t)) =>
      /\ L.balance[t][c] - Owed(p, t, c) >= S.balance[t][c]
      /\ (HasSettings(c) /\ t = settings[c].smart /\ S.issuer[t] = c)
           => L.supply[t] <= S.supply[t]

(* What a converter sends before its reply a.                              *)
Counterpart(b, a) ==
  \/ b = issue(a.from, a.token, a.quantity)
  \/ /\ b = retire(a.from, b.token, b.quantity)
     /\ b.token \in Symbol /\ b.quantity \in Int

(* A converter sends p in reply to a: d, after b if it issues or retires.  *)
Answers(a, p, b, d) ==
  /\ \/ p = <<d>>
     \/ /\ p = <<b, d>> /\ Counterpart(b, d)
        /\ b.action = "retire" => b.token = a.token /\ b.quantity = a.quantity
  /\ IsTransfer(d) /\ d.from = a.to /\ d.to = a.from
  /\ HasSettings(a.to) /\ settings[a.to].network = a.from
  /\ Sells(a.to, d.token)

(* The reply a of a converter to who sent it tokens: the network, or, in a *)
(* transaction that began with a transfer to a converter, another account. *)
Replies(r, L, S, T, a) ==
  /\ IsTransfer(a) /\ a.from \in Converter /\ HasSettings(a.from)
  /\ a.to = settings[a.from].network
  /\ Sells(a.from, a.token)
  /\ IF a.to = Network
     THEN /\ Swaps(r)
          /\ Holds(r, L, S, T, a.token, 0)
          /\ ValidMemo(a.memo)
          /\ parse_memo(a.memo).receiver_memo = Again(Asked(r).receiver_memo)
          /\ \E i \in 1..Len(Asked(r).path) :
               /\ Comes(r, a.token, i)
               /\ Carries(r, parse_memo(a.memo), i, T # <<>>)
     ELSE /\ r.to # Network
          /\ T = <<>>
          /\ \A t \in Symbol : L.balance[t][Network] = S.balance[t][Network]

(* The stages of a transaction, with p pending.  Its first action;         *)
Requested == pending = <<Request>> /\ ledger = start /\ tips = <<>>

(* the network sends the tokens on;                                        *)
Delivering(r, p, L, S, T) ==
  /\ Len(p) = 1 /\ p = <<p[1]>>
  /\ Swaps(r)
  /\ Holds(r, L, S, T, p[1].token, p[1].quantity)
  /\ Forwards(r, p[1], T # <<>>)

(* the network pays the affiliate and then sends on the rest;              *)
Tipping(r, p, L, S, T) ==
  LET tip == p[1]
      a   == p[2]
  IN  /\ Len(p) = 2 /\ p = <<tip, a>>
      /\ Swaps(r)
      /\ Asked(r).affiliate_account \in Account
      /\ tip = transfer(Network, Asked(r).affiliate_account, a.token, tip.quantity,
                        Plain("affiliate pay"))
      /\ T = <<>>
      /\ Due(a.token, tip.quantity, a.quantity)
      /\ Holds(r, L, S, T, a.token, tip.quantity + a.quantity)
      /\ Forwards(r, a, TRUE)

(* a converter issues or retires smart tokens and then replies;            *)
Balancing(r, p, L, S, T) ==
  /\ Len(p) = 2 /\ p = <<p[1], p[2]>>
  /\ Counterpart(p[1], p[2])
  /\ Replies(r, L, S, T, p[2])

(* a converter replies.                                                    *)
Returning(r, p, L, S, T) ==
  /\ Len(p) = 1 /\ p = <<p[1]>>
  /\ Replies(r, L, S, T, p[1])

Onward(r, p, L, S, T) ==
  \/ Delivering(r, p, L, S, T) \/ Tipping(r, p, L, S, T)
  \/ Balancing(r, p, L, S, T)  \/ Returning(r, p, L, S, T)

Underway ==
  /\ order = <<[request |-> Request, terms |-> Terms(Request)]>>
  /\ IsTransfer(Request) /\ Request.from # Network
  /\ WellFormed(Request.memo)
  /\ ledger.issuer = start.issuer
  /\ Guarded(Request, ledger, start, pending)
  /\ Tips(Request, tips)
  /\ Requested \/ Onward(Request, pending, ledger, start, tips)

IInv ==
  /\ TypeOK
  /\ LedgerOK(start)
  /\ pending # <<>> => Underway

(* What a step that leaves the ledger M, q to execute and V paid to        *)
(* affiliates has to show: the next stage, or the end.                     *)
Stays(r, M, S) ==
  r.from \in SystemAccount
    \/ \A t \in Symbol : M.balance[t][Network] = S.balance[t][Network]

Keeps(r, M, q, V) ==
  /\ LedgerOK(M) /\ M.issuer = start.issuer
  /\ q = <<>> => Guarded(r, M, start, <<r>>) /\ Stays(r, M, start)
  /\ q # <<>> => Guarded(r, M, start, q) /\ Tips(r, V) /\ Onward(r, q, M, start, V)

----------------------------------------------------------------------------
(* Executing an action.                                                    *)

LEMMA IsTransferFields ==
  ASSUME NEW a, IsTransfer(a)
  PROVE  a.action = "transfer"
BY DEF IsTransfer, transfer

LEMMA TransferIs ==
  ASSUME NEW from \in Account, NEW to \in Account, NEW t \in Symbol,
         NEW q \in Int, NEW text
  PROVE  /\ IsTransfer(transfer(from, to, t, q, text))
         /\ transfer(from, to, t, q, text).from = from
         /\ transfer(from, to, t, q, text).to = to
         /\ transfer(from, to, t, q, text).token = t
         /\ transfer(from, to, t, q, text).quantity = q
         /\ transfer(from, to, t, q, text).memo = text
BY DEF IsTransfer, transfer

LEMMA PlainDiffers ==
  /\ \A v, w : v # w => Plain(v) # Plain(w)
  /\ \A w : ~ ValidMemo(Plain(w))
<1>1. ASSUME NEW v, NEW w, Plain(v) = Plain(w)
      PROVE  v = w
  <2>1. Plain(v)[1][1] = v /\ Plain(w)[1][1] = w
    BY DEF Plain
  <2> QED
    BY <1>1, <2>1
<1>2. ASSUME NEW w
      PROVE  ~ ValidMemo(Plain(w))
  <2>1. Split(Plain(w)) = Plain(w) /\ Split(<<w>>) = <<w>> /\ Plain(w)[1] = <<w>>
    BY DEF Plain, Split
  <2>2. Len(Split(Split(Plain(w))[1])) = 1
    BY <2>1
  <2> QED
    BY <2>2 DEF ValidMemo
<1> QED
  BY <1>1, <1>2

(* A transfer moves its quantity from one account to another.              *)
LEMMA TransferMoves ==
  ASSUME NEW L, LedgerOK(L), NEW from \in Account, NEW to \in Account,
         NEW s \in Symbol, NEW q \in Int, CanTransfer(L, from, to, s, q)
  PROVE  LET M == AfterTransfer(L, from, to, s, q)
         IN  /\ LedgerOK(M)
             /\ M.issuer = L.issuer /\ M.supply = L.supply
             /\ from # to /\ q \in 1..MaxAmount
             /\ \A j \in Symbol, h \in Account :
                  M.balance[j][h] = L.balance[j][h]
                    - (IF j = s /\ h = from THEN q ELSE 0)
                    + (IF j = s /\ h = to THEN q ELSE 0)
<1> DEFINE M == AfterTransfer(L, from, to, s, q)
<1>1. L \in Ledger
  BY DEF LedgerOK
<1>2. from # to /\ q \in 1..MaxAmount
  BY MaxAmountAssumption DEF CanTransfer, IsAmount
<1>3. M = [issuer     |-> L.issuer,
           max_supply |-> L.max_supply,
           supply     |-> L.supply,
           rows       |-> [L.rows EXCEPT ![s] = @ \cup {to}],
           balance    |-> Credited(Credited(L.balance, from, s, -q), to, s, q)]
  BY <1>1, TransferFacts
<1>4. LedgerOK(M)
  BY TransferKeepsLedgerOK
<1> HIDE DEF M
<1>5. M.issuer = L.issuer /\ M.supply = L.supply
      /\ M.balance = Credited(Credited(L.balance, from, s, -q), to, s, q)
  BY <1>3
<1>6. L.balance \in [Symbol -> [Account -> Int]]
  BY <1>1 DEF Ledger
<1>7. ASSUME NEW j \in Symbol, NEW h \in Account
      PROVE  M.balance[j][h] = L.balance[j][h]
               - (IF j = s /\ h = from THEN q ELSE 0)
               + (IF j = s /\ h = to THEN q ELSE 0)
  BY <1>2, <1>5, <1>6 DEF Credited
<1> QED
  BY <1>2, <1>4, <1>5, <1>7 DEF M

(* An issue and a retirement change the balance of the issuer and the      *)
(* supply.                                                                 *)
LEMMA IssueMoves ==
  ASSUME NEW L, LedgerOK(L), NEW to \in Account, NEW s \in Symbol, NEW q \in Int,
         CanIssue(L, to, s, q)
  PROVE  LET M == AfterIssue(L, to, s, q)
         IN  /\ LedgerOK(M)
             /\ M.issuer = L.issuer /\ to = L.issuer[s] /\ q > 0
             /\ \A j \in Symbol :
                  M.supply[j] = L.supply[j] + (IF j = s THEN q ELSE 0)
             /\ \A j \in Symbol, h \in Account :
                  M.balance[j][h] = L.balance[j][h]
                    + (IF j = s /\ h = to THEN q ELSE 0)
<1> DEFINE M == AfterIssue(L, to, s, q)
<1>1. L \in Ledger
  BY DEF LedgerOK
<1>2. to = L.issuer[s] /\ q > 0
  BY DEF CanIssue
<1>3. M = [issuer     |-> L.issuer,
           max_supply |-> L.max_supply,
           supply     |-> [L.supply EXCEPT ![s] = L.supply[s] + q],
           rows       |-> [L.rows EXCEPT ![s] = @ \cup {to}],
           balance    |-> Credited(L.balance, to, s, q)]
  BY <1>1, IssueFacts
<1>4. LedgerOK(M)
  BY IssueKeepsLedgerOK
<1> HIDE DEF M
<1>5. /\ M.issuer = L.issuer
      /\ M.supply = [L.supply EXCEPT ![s] = L.supply[s] + q]
      /\ M.balance = Credited(L.balance, to, s, q)
  BY <1>3
<1>6. L.balance \in [Symbol -> [Account -> Int]] /\ L.supply \in [Symbol -> Int]
  BY <1>1 DEF Ledger
<1>7. ASSUME NEW j \in Symbol, NEW h \in Account
      PROVE  M.balance[j][h] = L.balance[j][h]
               + (IF j = s /\ h = to THEN q ELSE 0)
  BY <1>5, <1>6 DEF Credited
<1>8. ASSUME NEW j \in Symbol
      PROVE  M.supply[j] = L.supply[j] + (IF j = s THEN q ELSE 0)
  BY <1>5, <1>6
<1> QED
  BY <1>2, <1>4, <1>5, <1>7, <1>8 DEF M

LEMMA RetireMoves ==
  ASSUME NEW L, LedgerOK(L), NEW s \in Symbol, NEW q \in Int, CanRetire(L, s, q)
  PROVE  LET M == AfterRetire(L, s, q)
         IN  /\ LedgerOK(M)
             /\ M.issuer = L.issuer /\ q > 0
             /\ \A j \in Symbol :
                  M.supply[j] = L.supply[j] - (IF j = s THEN q ELSE 0)
             /\ \A j \in Symbol, h \in Account :
                  M.balance[j][h] = L.balance[j][h]
                    - (IF j = s /\ h = L.issuer[s] THEN q ELSE 0)
<1> DEFINE M == AfterRetire(L, s, q)
<1>1. L \in Ledger
  BY DEF LedgerOK
<1>2. q > 0 /\ L.issuer[s] \in Account
  BY <1>1 DEF CanRetire, Exists, Ledger
<1>3. M = [issuer     |-> L.issuer,
           max_supply |-> L.max_supply,
           supply     |-> [L.supply EXCEPT ![s] = L.supply[s] - q],
           rows       |-> L.rows,
           balance    |-> Credited(L.balance, L.issuer[s], s, -q)]
  BY <1>1, <1>2, RetireFacts
<1>4. LedgerOK(M)
  BY RetireKeepsLedgerOK
<1> HIDE DEF M
<1>5. /\ M.issuer = L.issuer
      /\ M.supply = [L.supply EXCEPT ![s] = L.supply[s] - q]
      /\ M.balance = Credited(L.balance, L.issuer[s], s, -q)
  BY <1>3
<1>6. L.balance \in [Symbol -> [Account -> Int]] /\ L.supply \in [Symbol -> Int]
  BY <1>1 DEF Ledger
<1>7. ASSUME NEW j \in Symbol, NEW h \in Account
      PROVE  M.balance[j][h] = L.balance[j][h]
               - (IF j = s /\ h = L.issuer[s] THEN q ELSE 0)
  BY <1>2, <1>5, <1>6 DEF Credited
<1>8. ASSUME NEW j \in Symbol
      PROVE  M.supply[j] = L.supply[j] - (IF j = s THEN q ELSE 0)
  BY <1>5, <1>6
<1> QED
  BY <1>2, <1>4, <1>5, <1>7, <1>8 DEF M

(* What executing each kind of action requires and does.                   *)
LEMMA ExecutedTransfer ==
  ASSUME LedgerOK(ledger), NEW a, IsTransfer(a), Succeeds(a)
  PROVE  /\ LedgerOK(Executed(a))
         /\ Moves(ledger, Executed(a), a)
         /\ a.to = Network =>
              NetworkAccepts(Executed(a), a.from, a.token, a.quantity, a.memo)
         /\ a.to \in Converter =>
              ConverterAccepts(Executed(a), a.to, a.from, a.token, a.quantity, a.memo)
<1>1. a.action = "transfer"
  BY IsTransferFields
<1>2. /\ a.from \in Account /\ a.to \in Account
      /\ a.token \in Symbol /\ a.quantity \in Int
  BY DEF IsTransfer
<1>3. CanTransfer(ledger, a.from, a.to, a.token, a.quantity)
  BY <1>1 DEF Succeeds, CanExecute
<1>4. Executed(a) = AfterTransfer(ledger, a.from, a.to, a.token, a.quantity)
  BY <1>1 DEF Executed
<1>5. /\ a.to = Network =>
           NetworkAccepts(Executed(a), a.from, a.token, a.quantity, a.memo)
      /\ a.to \in Converter =>
           ConverterAccepts(Executed(a), a.to, a.from, a.token, a.quantity, a.memo)
  BY <1>1 DEF Succeeds, Accepts
<1> QED
  BY <1>2, <1>3, <1>4, <1>5, TransferMoves DEF Moves

LEMMA ExecutedCounterpart ==
  ASSUME LedgerOK(ledger), NEW a, IsTransfer(a), NEW b, Counterpart(b, a), Succeeds(b)
  PROVE  /\ LedgerOK(Executed(b))
         /\ Executed(b).issuer = ledger.issuer
         /\ \/ /\ b.action = "issue"
               /\ a.from = ledger.issuer[a.token] /\ a.quantity > 0
               /\ \A j \in Symbol : Executed(b).supply[j] =
                    ledger.supply[j] + (IF j = a.token THEN a.quantity ELSE 0)
               /\ \A j \in Symbol, h \in Account :
                    Executed(b).balance[j][h] = ledger.balance[j][h]
                      + (IF j = a.token /\ h = a.from THEN a.quantity ELSE 0)
            \/ /\ b.action = "retire" /\ b.from = a.from /\ b.token \in Symbol
               /\ b.quantity \in Int /\ b.quantity > 0
               /\ \A j \in Symbol : Executed(b).supply[j] =
                    ledger.supply[j] - (IF j = b.token THEN b.quantity ELSE 0)
               /\ \A j \in Symbol, h \in Account :
                    Executed(b).balance[j][h] = ledger.balance[j][h]
                      - (IF j = b.token /\ h = a.from THEN b.quantity ELSE 0)
         /\ Sends(Executed(b), b) = <<>> /\ Tip(b) = <<>>
<1>0. /\ a.from \in Account /\ a.token \in Symbol /\ a.quantity \in Int
  BY DEF IsTransfer
<1>1. CASE b = issue(a.from, a.token, a.quantity)
  <2>1. /\ b.action = "issue" /\ b.to = a.from /\ b.token = a.token
        /\ b.quantity = a.quantity /\ b.memo = Plain("issue")
    BY <1>1 DEF issue
  <2>2. CanIssue(ledger, a.from, a.token, a.quantity)
    BY <2>1 DEF Succeeds, CanExecute
  <2>3. Executed(b) = AfterIssue(ledger, a.from, a.token, a.quantity)
    BY <2>1 DEF Executed
  <2>4. Sends(Executed(b), b) = <<>>
    BY <2>1 DEF Sends
  <2>5. Tip(b) = <<>>
    BY <2>1, PlainDiffers DEF Tip
  <2> QED
    BY <1>0, <2>1, <2>2, <2>3, <2>4, <2>5, IssueMoves
<1>2. CASE /\ b = retire(a.from, b.token, b.quantity)
           /\ b.token \in Symbol /\ b.quantity \in Int
  <2>0. PICK t \in Symbol, q \in Int : b = retire(a.from, t, q)
    BY <1>2
  <2>1. /\ b.action = "retire" /\ b.from = a.from /\ b.token = t
        /\ b.quantity = q /\ b.memo = Plain("destroy on conversion")
    BY <2>0 DEF retire
  <2>2. CanRetire(ledger, b.token, b.quantity) /\ a.from = ledger.issuer[b.token]
    BY <2>1 DEF Succeeds, CanExecute
  <2>3. Executed(b) = AfterRetire(ledger, b.token, b.quantity)
    BY <2>1 DEF Executed
  <2>4. Sends(Executed(b), b) = <<>>
    BY <2>1 DEF Sends
  <2>5. Tip(b) = <<>>
    BY <2>1, PlainDiffers DEF Tip
  <2>7. b.token \in Symbol /\ b.quantity \in Int
    BY <2>1
  <2>6. /\ LedgerOK(Executed(b))
        /\ Executed(b).issuer = ledger.issuer /\ b.quantity > 0
        /\ \A j \in Symbol : Executed(b).supply[j] =
             ledger.supply[j] - (IF j = b.token THEN b.quantity ELSE 0)
        /\ \A j \in Symbol, h \in Account :
             Executed(b).balance[j][h] = ledger.balance[j][h]
               - (IF j = b.token /\ h = a.from THEN b.quantity ELSE 0)
    BY <2>2, <2>3, <2>7, RetireMoves
  <2> QED
    BY <2>1, <2>4, <2>5, <2>6, <2>7
<1> QED
  BY <1>1, <1>2 DEF Counterpart

----------------------------------------------------------------------------
(* The reactions to a transfer.                                            *)

LEMMA Concatenations ==
  ASSUME NEW b, NEW d
  PROVE  /\ <<b>> \o <<d>> = <<b, d>>
         /\ <<>> \o <<d>> = <<d>> /\ <<d>> \o <<>> = <<d>>
         /\ <<b, d>> \o <<>> = <<b, d>>
         /\ <<b>> \o <<>> \o <<d>> = <<b, d>>
         /\ <<>> \o <<b>> \o <<d>> = <<b, d>>
         /\ <<>> \o <<>> \o <<d>> = <<d>>
<1>1. <<b>> \o <<d>> = <<b, d>>
  <2> DEFINE s == <<b>> \o <<d>>
  <2>1. s \in Seq({b, d}) /\ Len(s) = 2 /\ s[1] = b /\ s[2] = d
    OBVIOUS
  <2>2. <<b, d>> \in Seq({b, d}) /\ Len(<<b, d>>) = 2
    OBVIOUS
  <2> HIDE DEF s
  <2>3. \A i \in 1..2 : s[i] = <<b, d>>[i]
    BY <2>1
  <2>4. s = <<b, d>>
    BY <2>1, <2>2, <2>3, SeqEqual
  <2> QED
    BY <2>4 DEF s
<1>2. <<b>> \o <<>> = <<b>> /\ <<>> \o <<b>> = <<b>>
  OBVIOUS
<1>3. <<>> \o <<d>> = <<d>> /\ <<d>> \o <<>> = <<d>>
  OBVIOUS
<1>4. <<>> \o <<>> = <<>>
  OBVIOUS
<1>5. <<b, d>> \o <<>> = <<b, d>>
  OBVIOUS
<1> QED
  BY <1>1, <1>2, <1>3, <1>4, <1>5, Zenon

LEMMA TokenOfFacts ==
  ASSUME settings \in [Converter -> Settings], NEW c \in Converter, NEW code,
         HasToken(c, code)
  PROVE  TokenOf(c, code) \in Symbol /\ CodeOf[TokenOf(c, code)] = code
<1>1. settings[c].smart \in Symbol
  BY DEF Settings
<1>2. CASE IsSmart(c, code)
  BY <1>1, <1>2 DEF TokenOf, IsSmart
<1>3. CASE ~ IsSmart(c, code)
  <2>1. \E t \in Reserves(c) : CodeOf[t] = code
    BY <1>3 DEF HasToken
  <2>2. TokenOf(c, code) \in Reserves(c) /\ CodeOf[TokenOf(c, code)] = code
    BY <1>3, <2>1 DEF TokenOf
  <2> QED
    BY <2>2 DEF Reserves
<1> QED
  BY <1>2, <1>3

(* A converter that reacts at all has been named next on the path by the   *)
(* account it takes for the network, and replies to it with a token it     *)
(* sells, whose code is the next word.                                     *)
LEMMA ConverterReacts ==
  ASSUME settings \in [Converter -> Settings], NEW L, NEW a, IsTransfer(a),
         a.to \in Converter,
         ConverterAccepts(L, a.to, a.from, a.token, a.quantity, a.memo),
         ConverterSends(L, a.to, a.from, a.token, a.quantity, a.memo) # <<>>
  PROVE  LET m == parse_memo(a.memo)
             p == ConverterSends(L, a.to, a.from, a.token, a.quantity, a.memo)
         IN  /\ ValidMemo(a.memo)
             /\ Len(m.path) > 1 /\ m.path[1].account = a.to
             /\ \E b, d :
                  /\ Answers(a, p, b, d)
                  /\ CodeOf[d.token] = m.path[2]
                  /\ d.memo = build_memo([m EXCEPT
                                !.path = SubSeq(m.path, 3, Len(m.path))])
<1> DEFINE c == a.to
           m == parse_memo(a.memo)
           u == TokenOf(c, m.path[2])
           n == Return(L, c, a.token, u, a.quantity)
           p == ConverterSends(L, c, a.from, a.token, a.quantity, a.memo)
           rest == build_memo([m EXCEPT !.path = SubSeq(m.path, 3, Len(m.path))])
           d == transfer(c, a.from, u, n, rest)
           smart == settings[c].smart
<1>1. a.from \notin SystemAccount /\ a.memo # Plain("setup")
  BY DEF ConverterSends
<1>2. CanConvert(L, c, a.from, a.token, a.quantity, a.memo)
  BY <1>1 DEF ConverterAccepts
<1>3. /\ ValidMemo(a.memo) /\ Len(m.path) > 1
      /\ m.path[1].account = c
      /\ HasSettings(c) /\ settings[c].enabled /\ settings[c].network = a.from
      /\ CodeOf[a.token] # m.path[2] /\ HasToken(c, m.path[2])
      /\ SaleEnabled(c, u)
      /\ n \in 1..MaxFixed
  BY <1>2 DEF CanConvert
<1>4. u \in Symbol /\ CodeOf[u] = m.path[2]
  BY <1>3, TokenOfFacts
<1>5. n \in Int
  BY <1>3
<1>6. a.from \in Account /\ c \in Account /\ a.token \in Symbol /\ a.quantity \in Int
  BY DEF IsTransfer
<1>7. /\ IsTransfer(d) /\ d.from = c /\ d.to = a.from /\ d.token = u
      /\ d.quantity = n /\ d.memo = rest
  BY <1>4, <1>5, <1>6, TransferIs
<1>8. Sells(c, u)
  BY <1>3 DEF SaleEnabled, Sells
<1>9. p = (IF a.token = smart THEN <<retire(c, a.token, a.quantity)>> ELSE <<>>)
            \o (IF u = smart THEN <<issue(c, u, n)>> ELSE <<>>) \o <<d>>
  BY <1>1, <1>3 DEF ConverterSends, Converted
<1>10. a.token # u
  BY <1>3, <1>4
<1> HIDE DEF d, u, n, p, m, rest
<1>11. CASE a.token = smart
  <2> DEFINE b == retire(c, a.token, a.quantity)
  <2>1. p = <<b, d>>
    <3>1. p = <<b>> \o <<>> \o <<d>>
      BY <1>9, <1>10, <1>11, Zenon
    <3> QED
      BY <3>1, Concatenations, Zenon
  <2>2. b.token = a.token /\ b.quantity = a.quantity
    BY DEF retire
  <2>3. Counterpart(b, d)
    BY <1>6, <1>7, <2>2 DEF Counterpart
  <2> QED
    BY <1>3, <1>4, <1>7, <1>8, <2>1, <2>2, <2>3 DEF p, m, rest, Answers
<1>12. CASE a.token # smart /\ u = smart
  <2> DEFINE b == issue(c, u, n)
  <2>1. p = <<b, d>>
    <3>1. p = <<>> \o <<b>> \o <<d>>
      BY <1>9, <1>12, Zenon
    <3> QED
      BY <3>1, Concatenations, Zenon
  <2>2. Counterpart(b, d) /\ b.action = "issue"
    BY <1>7 DEF Counterpart, issue
  <2> QED
    BY <1>3, <1>4, <1>7, <1>8, <2>1, <2>2 DEF p, m, rest, Answers
<1>13. CASE a.token # smart /\ u # smart
  <2>1. p = <<d>>
    <3>1. p = <<>> \o <<>> \o <<d>>
      BY <1>9, <1>13, Zenon
    <3> QED
      BY <3>1, Concatenations, Zenon
  <2> QED
    BY <1>3, <1>4, <1>7, <1>8, <2>1 DEF p, m, rest, Answers
<1> QED
  BY <1>11, <1>12, <1>13

(* The share of an affiliate is less than the whole, and less than the     *)
(* maximum share of it.                                                    *)
LEMMA ShareBound ==
  ASSUME NEW q \in Nat \ {0}, NEW f \in Nat, NEW M \in Nat \ {0}, NEW most \in 0..M,
         f < most
  PROVE  LET fee == (q * f) \div M
         IN  fee \in Nat /\ fee < q /\ fee * M < most * q
<1> DEFINE fee == (q * f) \div M
<1>1. q * f \in Nat /\ q * f < most * q /\ most * q <= q * M
  BY Z3
<1>2. fee \in Nat /\ fee * M <= q * f
  <2> DEFINE x == q * f
  <2>1. x \in Nat
    BY <1>1
  <2> HIDE DEF x
  <2>2. x \div M \in Nat /\ (x \div M) * M <= x
    BY <2>1, Z3
  <2> QED
    BY <2>2 DEF x
<1> HIDE DEF fee
<1>3. fee * M < most * q /\ fee * M < q * M
  BY <1>1, <1>2
<1>4. fee < q
  BY <1>2, <1>3, Z3
<1> QED
  BY <1>2, <1>3, <1>4 DEF fee


(* What the network does with the tokens somebody sends it: it sends all   *)
(* of them on, or pays the affiliate and sends on the rest.                *)
LEMMA NetworkReacts ==
  ASSUME NEW L \in Ledger, NEW a, IsTransfer(a), a.quantity > 0,
         a.to = Network, a.from \notin SystemAccount,
         NetworkAccepts(L, a.from, a.token, a.quantity, a.memo),
         parse_memo(a.memo).affiliate_account # Empty =>
           parse_memo(a.memo).affiliate_fee \in Nat,
         network_settings.max_fee \in 0..MAX_FEE
  PROVE  LET m   == parse_memo(a.memo)
             fee == IF Entering(m) THEN 0 ELSE AffiliateFee(a.token, a.quantity, m)
             p   == NetworkSends(L, a.from, a.token, a.quantity, a.memo)
         IN  /\ ValidMemo(a.memo)
             /\ m.path # <<>> => Len(m.path) % 2 = 0
             /\ \E tip, d :
                  /\ IsTransfer(d) /\ d.from = Network /\ d.token = a.token
                  /\ d.quantity = a.quantity - fee
                  /\ d.to = IF m.path = <<>> THEN m.dest_account ELSE m.path[1].account
                  /\ m.path = <<>> =>
                       m.trader_account \in Account /\ d.quantity >= MinReturn(m)
                  /\ \/ /\ fee = 0 /\ p = <<d>>
                        /\ d.memo = CASE Entering(m) ->
                                           build_memo([m EXCEPT !.trader_account = a.from])
                                      [] m.path = <<>> -> Plain(m.receiver_memo)
                                      [] OTHER -> a.memo
                     \/ /\ ~ Entering(m) /\ p = <<tip, d>>
                        /\ m.affiliate_account # Empty
                        /\ m.affiliate_account \in Account
                        /\ tip = transfer(Network, m.affiliate_account, a.token, fee,
                                          Plain("affiliate pay"))
                        /\ Due(a.token, fee, d.quantity)
                        /\ d.memo = build_memo([m EXCEPT !.affiliate_account = Empty,
                                                         !.affiliate_fee = Empty])
<1> DEFINE m   == parse_memo(a.memo)
           t   == a.token
           q   == a.quantity
           fee == IF Entering(m) THEN 0 ELSE AffiliateFee(t, q, m)
           p   == NetworkSends(L, a.from, t, q, a.memo)
           to  == IF m.path = <<>> THEN m.dest_account ELSE m.path[1].account
           text == CASE Entering(m) -> build_memo([m EXCEPT !.trader_account = a.from])
                     [] fee > 0 -> build_memo(WithoutAffiliate(t, m))
                     [] Leaving(m) /\ fee = 0 -> Plain(m.receiver_memo)
                     [] OTHER -> a.memo
           d   == transfer(Network, to, t, q - fee, text)
<1>1. q \in Int /\ q > 0 /\ t \in Symbol /\ Network \in Account
  BY NetworkAssumption DEF IsTransfer
<1>2. /\ ValidMemo(a.memo)
      /\ Entering(m) \/ CanPayAffiliate(t, m)
      /\ m.path = <<>> =>
           /\ m.trader_account \in Account
           /\ verify_min_return(q - AffiliateFee(t, q, m), AffiliateFee(t, q, m), m)
           /\ m.dest_account \in L.rows[t]
      /\ m.path # <<>> =>
           Len(m.path) % 2 = 0 /\ m.path[1].account \in L.rows[t]
  BY DEF NetworkAccepts, Leaving
<1>3. to \in Account
  <2>1. L.rows[t] \subseteq Account
    BY <1>1 DEF Ledger
  <2> QED
    BY <1>2, <2>1
<1>4. /\ fee \in Nat
      /\ fee # 0 => /\ ~ Entering(m) /\ AffiliateDue(t, m)
                    /\ m.affiliate_account \in Account
                    /\ Due(t, fee, q - fee)
  <2>1. CASE Entering(m) \/ ~ AffiliateDue(t, m)
    BY <2>1 DEF AffiliateFee
  <2>2. CASE ~ Entering(m) /\ AffiliateDue(t, m)
    <3>1. /\ ContractOf[t] = network_settings.network_token
          /\ m.affiliate_fee \in Nat /\ network_settings.max_fee > m.affiliate_fee
          /\ m.affiliate_account \in Account
          /\ CodeOf[t] = BNT
      BY <1>2, <2>2 DEF CanPayAffiliate, AffiliateDue
    <3>2. fee = (q * m.affiliate_fee) \div MAX_FEE
      BY <2>2 DEF AffiliateFee
    <3>3. fee \in Nat /\ fee < q /\ fee * MAX_FEE < network_settings.max_fee * q
      BY <1>1, <3>1, <3>2, FormulaAssumption, ShareBound
    <3> HIDE DEF fee
    <3>4. q = fee + (q - fee) /\ q - fee \in Int
      BY <1>1, <3>3
    <3>5. fee * MAX_FEE < network_settings.max_fee * (fee + (q - fee))
      BY <3>3, <3>4
    <3> QED
      BY <1>1, <2>2, <3>1, <3>3, <3>4, <3>5 DEF Due
  <2> QED
    BY <2>1, <2>2
<1>5. m.path = <<>> => m.trader_account \in Account /\ q - fee >= MinReturn(m)
  BY <1>2 DEF Entering, verify_min_return
<1>6. p = PayAffiliate(t, fee, m) \o <<d>>
  BY DEF NetworkSends, Leaving
<1> HIDE DEF fee, text
<1>7. /\ IsTransfer(d) /\ d.from = Network /\ d.to = to /\ d.token = t
      /\ d.quantity = q - fee /\ d.memo = text
  BY <1>1, <1>3, <1>4, TransferIs
<1> HIDE DEF d, p, to
<1>8. CASE fee = 0
  <2>1. p = <<d>>
    BY <1>6, <1>8, Concatenations DEF PayAffiliate
  <2>2. text = CASE Entering(m) -> build_memo([m EXCEPT !.trader_account = a.from])
                 [] m.path = <<>> -> Plain(m.receiver_memo)
                 [] OTHER -> a.memo
    BY <1>8 DEF text, Leaving, Entering
  <2> QED
    BY <1>2, <1>5, <1>7, <1>8, <2>1, <2>2 DEF fee, to, p
<1>9. CASE fee # 0
  <2> DEFINE tip == transfer(Network, m.affiliate_account, t, fee, Plain("affiliate pay"))
  <2>1. p = <<tip, d>>
    <3>0. fee > 0
      BY <1>4, <1>9
    <3>1. PayAffiliate(t, fee, m) = <<tip>>
      BY <3>0, Zenon DEF PayAffiliate
    <3> HIDE DEF tip
    <3> QED
      BY <1>6, <3>1, Concatenations, Zenon
  <2>2. text = build_memo(WithoutAffiliate(t, m))
    BY <1>4, <1>9 DEF text
  <2>3. WithoutAffiliate(t, m) = [m EXCEPT !.affiliate_account = Empty, !.affiliate_fee = Empty]
    BY <1>4, <1>9 DEF WithoutAffiliate
  <2>4. m.affiliate_account # Empty
    BY <1>4, <1>9 DEF AffiliateDue
  <2> QED
    BY <1>2, <1>4, <1>5, <1>7, <1>9, <2>1, <2>2, <2>3, <2>4 DEF fee, to, p
<1> QED
  BY <1>8, <1>9

----------------------------------------------------------------------------
(* The memos of the hops.                                                  *)

LEMMA Rebuilt ==
  ASSUME NEW m, IsMemo(m)
  PROVE  LET k == parse_memo(build_memo(m))
         IN  /\ ValidMemo(build_memo(m))
             /\ k.path = m.path /\ k.min_return = m.min_return
             /\ k.dest_account = m.dest_account
             /\ k.trader_account = m.trader_account
             /\ k.affiliate_account = m.affiliate_account
             /\ m.affiliate_account # Empty => k.affiliate_fee = m.affiliate_fee
             /\ k.receiver_memo = Again(m.receiver_memo)
<1> DEFINE k == parse_memo(build_memo(m))
<1>1. ValidMemo(build_memo(m))
      /\ k = [version           |-> m.version,
              path              |-> m.path,
              min_return        |-> m.min_return,
              dest_account      |-> m.dest_account,
              trader_account    |-> m.trader_account,
              affiliate_account |-> m.affiliate_account,
              affiliate_fee     |-> IF m.affiliate_account = Empty
                                    THEN Empty ELSE m.affiliate_fee,
              receiver_memo     |-> IF m.receiver_memo = Empty THEN "convert"
                                    ELSE m.receiver_memo]
  BY MemoSurvives
<1> HIDE DEF k
<1> QED
  BY <1>1 DEF Again, k

(* The memos the contracts make of one they have parsed.                   *)
LEMMA ChangedMemos ==
  ASSUME NEW text, NEW x
  PROVE  LET m == parse_memo(text)
             k == [m EXCEPT !.trader_account = x]
             l == [m EXCEPT !.path = x]
             n == [m EXCEPT !.affiliate_account = Empty, !.affiliate_fee = Empty]
         IN  /\ /\ k.trader_account = x
                /\ k.path = m.path /\ k.min_return = m.min_return
                /\ k.dest_account = m.dest_account
                /\ k.affiliate_account = m.affiliate_account
                /\ k.affiliate_fee = m.affiliate_fee
                /\ k.receiver_memo = m.receiver_memo
             /\ /\ l.trader_account = m.trader_account
                /\ l.path = x /\ l.min_return = m.min_return
                /\ l.dest_account = m.dest_account
                /\ l.affiliate_account = m.affiliate_account
                /\ l.affiliate_fee = m.affiliate_fee
                /\ l.receiver_memo = m.receiver_memo
             /\ /\ n.trader_account = m.trader_account
                /\ n.path = m.path /\ n.min_return = m.min_return
                /\ n.dest_account = m.dest_account
                /\ n.affiliate_account = Empty
                /\ n.receiver_memo = m.receiver_memo
<1> DEFINE m == parse_memo(text)
<1>1. PICK a, b, c, d, e, f, g, h :
        m = [version |-> a, path |-> b, min_return |-> c, dest_account |-> d,
             trader_account |-> e, affiliate_account |-> f, affiliate_fee |-> g,
             receiver_memo |-> h]
  BY DEF parse_memo
<1> HIDE DEF m
<1> QED
  BY <1>1 DEF m

(* What is left of a path.                                                 *)
LEMMA RestOfPath ==
  ASSUME NEW P, P \in Seq(Range(P)), NEW i \in 0..Len(P)
  PROVE  LET rest == SubSeq(P, i + 1, Len(P))
         IN  /\ Len(P) \in Nat
             /\ Len(rest) = Len(P) - i
             /\ rest = <<>> <=> i = Len(P)
             /\ \A k \in 1..Len(P) - i : rest[k] = P[i + k]
             /\ SubSeq(P, 1, Len(P)) = P
             /\ i + 2 <= Len(P) =>
                  SubSeq(rest, 3, Len(rest)) = SubSeq(P, i + 3, Len(P))
<1> DEFINE S == Range(P)
           n == Len(P)
           rest == SubSeq(P, i + 1, n)
<1> HIDE DEF S
<1>1. P \in Seq(S) /\ n \in Nat
  BY DEF S
<1>2. /\ rest \in Seq(S) /\ Len(rest) = n - i
      /\ \A k \in 1..n - i : rest[k] = P[i + k]
  BY <1>1
<1>3. rest = <<>> <=> i = n
  <2> HIDE DEF rest
  <2>1. rest = <<>> <=> Len(rest) = 0
    BY <1>2, EmptySeq
  <2> QED
    BY <1>1, <1>2, <2>1
<1>4. SubSeq(P, 1, n) = P
  BY <1>1
<1>5. ASSUME i + 2 <= n
      PROVE  SubSeq(rest, 3, Len(rest)) = SubSeq(P, i + 3, n)
  <2> DEFINE s == SubSeq(rest, 3, Len(rest))
             t == SubSeq(P, i + 3, n)
  <2>1. /\ s \in Seq(S) /\ Len(s) = n - i - 2
        /\ \A k \in 1..n - i - 2 : s[k] = rest[2 + k]
    <3> HIDE DEF rest
    <3> QED
      BY <1>1, <1>2, <1>5
  <2>2. /\ t \in Seq(S) /\ Len(t) = n - i - 2
        /\ \A k \in 1..n - i - 2 : t[k] = P[i + 2 + k]
    BY <1>1, <1>5
  <2>3. \A k \in 1..n - i - 2 : rest[2 + k] = P[i + 2 + k]
    <3> HIDE DEF rest
    <3> TAKE k \in 1..n - i - 2
    <3>1. 2 + k \in 1..n - i
      BY <1>1, <1>5
    <3> QED
      BY <1>2, <3>1
  <2> HIDE DEF s, t, rest
  <2>4. \A k \in 1..Len(s) : s[k] = t[k]
    BY <2>1, <2>2, <2>3
  <2>5. Len(s) = Len(t)
    BY <2>1, <2>2
  <2>6. s = t
    BY <2>1, <2>2, <2>4, <2>5, SeqEqual
  <2> QED
    BY <2>6 DEF s, t, rest
<1> QED
  BY <1>1, <1>2, <1>3, <1>4, <1>5

LEMMA PathFacts ==
  ASSUME NEW r, WellFormed(r.memo), ValidMemo(r.memo)
  PROVE  /\ Asked(r).path \in Seq(Range(Asked(r).path))
         /\ Len(Asked(r).path) \in Nat
         /\ Asked(r).affiliate_account # Empty =>
              Asked(r).affiliate_fee \in Nat \ {Empty}
<1>1. /\ Asked(r).path \in Seq(Range(Asked(r).path))
      /\ Asked(r).affiliate_account # Empty =>
              Asked(r).affiliate_fee \in Nat \ {Empty}
  BY DEF WellFormed, Asked
<1> QED
  BY <1>1

(* The path of a memo that carries the terms.                              *)
LEMMA CarriesPath ==
  ASSUME NEW r, WellFormed(r.memo), ValidMemo(r.memo), NEW m, NEW i, NEW paid,
         Carries(r, m, i, paid)
  PROVE  /\ i \in 0..Len(Asked(r).path)
         /\ m.path = <<>> <=> i = Len(Asked(r).path)
         /\ m.path # <<>> => m.path[1] = Asked(r).path[i + 1]
         /\ Len(m.path) > 1 =>
              /\ i + 2 <= Len(Asked(r).path)
              /\ m.path[1] = Asked(r).path[i + 1]
              /\ m.path[2] = Asked(r).path[i + 2]
              /\ SubSeq(m.path, 3, Len(m.path)) =
                   SubSeq(Asked(r).path, i + 3, Len(Asked(r).path))
<1> DEFINE P == Asked(r).path
<1>1. P \in Seq(Range(P)) /\ Len(P) \in Nat
  BY PathFacts
<1>2. i \in 0..Len(P) /\ m.path = SubSeq(P, i + 1, Len(P))
  BY DEF Carries
<1> HIDE DEF P
<1>3. /\ Len(m.path) = Len(P) - i
      /\ m.path = <<>> <=> i = Len(P)
      /\ \A k \in 1..Len(P) - i : m.path[k] = P[i + k]
      /\ i + 2 <= Len(P) =>
           SubSeq(m.path, 3, Len(m.path)) = SubSeq(P, i + 3, Len(P))
  <2> DEFINE rest == SubSeq(P, i + 1, Len(P))
  <2>1. i \in 0..Len(P) /\ m.path = rest
    BY <1>2
  <2>2. /\ Len(rest) = Len(P) - i
        /\ rest = <<>> <=> i = Len(P)
        /\ \A k \in 1..Len(P) - i : rest[k] = P[i + k]
        /\ i + 2 <= Len(P) =>
             SubSeq(rest, 3, Len(rest)) = SubSeq(P, i + 3, Len(P))
    <3>1. i \in 0..Len(P)
      BY <1>2
    <3> QED
      BY <1>1, <3>1, RestOfPath
  <2> HIDE DEF rest
  <2> QED
    BY <2>1, <2>2
<1>4. m.path # <<>> => m.path[1] = P[i + 1]
  BY <1>1, <1>2, <1>3
<1>5. ASSUME Len(m.path) > 1
      PROVE  i + 2 <= Len(P) /\ m.path[1] = P[i + 1] /\ m.path[2] = P[i + 2]
  BY <1>1, <1>2, <1>3, <1>5
<1> QED
  BY <1>2, <1>3, <1>4, <1>5 DEF P

(* The memo the transaction began with, if it names the trader itself.     *)
LEMMA AskedCarries ==
  ASSUME NEW r, WellFormed(r.memo), ValidMemo(r.memo),
         NEW m, m.trader_account = Trader(r),
         m.path = Asked(r).path, m.min_return = Asked(r).min_return,
         m.dest_account = Asked(r).dest_account,
         Again(m.receiver_memo) = Again(Asked(r).receiver_memo),
         m.affiliate_account = Asked(r).affiliate_account,
         m.affiliate_account # Empty => m.affiliate_fee = Asked(r).affiliate_fee
  PROVE  Carries(r, m, 0, FALSE)
<1> DEFINE P == Asked(r).path
<1>1. P \in Seq(Range(P)) /\ Len(P) \in Nat
  BY PathFacts
<1>2. 0 \in 0..Len(P) /\ 0 % 2 = 0 /\ Passed(r, 0)
  BY <1>1 DEF Passed
<1>3. m.path = SubSeq(P, 0 + 1, Len(P))
  BY <1>1, <1>2, RestOfPath
<1> QED
  BY <1>2, <1>3 DEF Carries

(* The memo of what the network sends on carries the terms: it is the memo *)
(* received, or it has been given the name of the trader, or it has lost   *)
(* the affiliate with the fee.                                             *)
LEMMA NetworkForwards ==
  ASSUME NEW r, IsTransfer(r), WellFormed(r.memo), ValidMemo(r.memo),
         NEW L \in Ledger, NEW a, IsTransfer(a), a.quantity > 0,
         a.to = Network, a.from \notin SystemAccount,
         NetworkAccepts(L, a.from, a.token, a.quantity, a.memo),
         network_settings.max_fee \in 0..MAX_FEE,
         NEW i \in 0..Len(Asked(r).path), NEW paid \in BOOLEAN,
         Comes(r, a.token, i),
         (a = r /\ i = 0 /\ ~ paid) \/ Carries(r, parse_memo(a.memo), i, paid)
  PROVE  LET p == NetworkSends(L, a.from, a.token, a.quantity, a.memo)
         IN  \/ \E d : /\ p = <<d>>
                       /\ d.token = a.token /\ d.quantity = a.quantity
                       /\ Forwards(r, d, paid)
             \/ \E tip, d :
                  /\ p = <<tip, d>> /\ ~ paid
                  /\ d.token = a.token /\ tip.quantity + d.quantity = a.quantity
                  /\ Asked(r).affiliate_account \in Account
                  /\ tip = transfer(Network, Asked(r).affiliate_account, d.token,
                                    tip.quantity, Plain("affiliate pay"))
                  /\ Due(d.token, tip.quantity, d.quantity)
                  /\ Forwards(r, d, TRUE)
<1> DEFINE m == parse_memo(a.memo)
           P == Asked(r).path
           fee == IF Entering(m) THEN 0 ELSE AffiliateFee(a.token, a.quantity, m)
           p == NetworkSends(L, a.from, a.token, a.quantity, a.memo)
<1>1. r.from \in Account /\ r.from # Empty
  BY ChainAssumption DEF IsTransfer
<1>2. Trader(r) # Empty
  BY <1>1 DEF Trader
<1>3. m.trader_account # Empty => Carries(r, m, i, paid)
  <2>1. ASSUME a = r, i = 0, ~ paid, m.trader_account # Empty
        PROVE  Carries(r, m, i, paid)
    <3>1. m = Asked(r)
      BY <2>1 DEF Asked
    <3>2. m.trader_account = Trader(r)
      BY <2>1, <3>1 DEF Trader
    <3>3. Carries(r, m, 0, FALSE)
      BY <3>1, <3>2, AskedCarries
    <3> QED
      BY <2>1, <3>3
  <2> QED
    BY <2>1
<1>4. m.trader_account = Empty => a = r /\ i = 0 /\ ~ paid /\ m = Asked(r)
  BY <1>2 DEF Carries, Asked
<1>5. m.affiliate_account # Empty =>
        /\ ~ paid /\ m.affiliate_fee \in Nat \ {Empty}
        /\ m.affiliate_account = Asked(r).affiliate_account
  <2>1. CASE m.trader_account = Empty
    BY <1>4, <2>1, PathFacts
  <2>2. CASE m.trader_account # Empty
    BY <1>3, <2>2, PathFacts DEF Carries
  <2> QED
    BY <2>1, <2>2
<1>6. /\ ValidMemo(a.memo)
      /\ \E tip, d :
           /\ IsTransfer(d) /\ d.from = Network /\ d.token = a.token
           /\ d.quantity = a.quantity - fee
           /\ d.to = IF m.path = <<>> THEN m.dest_account ELSE m.path[1].account
           /\ m.path = <<>> =>
                m.trader_account \in Account /\ d.quantity >= MinReturn(m)
           /\ \/ /\ fee = 0 /\ p = <<d>>
                 /\ d.memo = CASE Entering(m) ->
                                    build_memo([m EXCEPT !.trader_account = a.from])
                               [] m.path = <<>> -> Plain(m.receiver_memo)
                               [] OTHER -> a.memo
              \/ /\ ~ Entering(m) /\ p = <<tip, d>>
                 /\ m.affiliate_account # Empty
                 /\ m.affiliate_account \in Account
                 /\ tip = transfer(Network, m.affiliate_account, a.token, fee,
                                   Plain("affiliate pay"))
                 /\ Due(a.token, fee, d.quantity)
                 /\ d.memo = build_memo([m EXCEPT !.affiliate_account = Empty,
                                                  !.affiliate_fee = Empty])
  BY <1>5, NetworkReacts
<1> HIDE DEF fee, p
<1>7. PICK tip, d :
        /\ IsTransfer(d) /\ d.from = Network /\ d.token = a.token
        /\ d.quantity = a.quantity - fee
        /\ d.to = IF m.path = <<>> THEN m.dest_account ELSE m.path[1].account
        /\ m.path = <<>> =>
             m.trader_account \in Account /\ d.quantity >= MinReturn(m)
        /\ \/ /\ fee = 0 /\ p = <<d>>
              /\ d.memo = CASE Entering(m) ->
                                 build_memo([m EXCEPT !.trader_account = a.from])
                            [] m.path = <<>> -> Plain(m.receiver_memo)
                            [] OTHER -> a.memo
           \/ /\ ~ Entering(m) /\ p = <<tip, d>>
              /\ m.affiliate_account # Empty
              /\ m.affiliate_account \in Account
              /\ tip = transfer(Network, m.affiliate_account, a.token, fee,
                                Plain("affiliate pay"))
              /\ Due(a.token, fee, d.quantity)
              /\ d.memo = build_memo([m EXCEPT !.affiliate_account = Empty,
                                               !.affiliate_fee = Empty])
  BY <1>6
<1>8. a.quantity \in Int
  BY DEF IsTransfer
(* A transfer sent on with the memo k, or with another text at the end of  *)
(* the path, forwards the tokens.                                          *)
<1>9. ASSUME NEW x \in BOOLEAN, m.path = <<>>,
             ValidMemo(d.memo) => parse_memo(d.memo).path = <<>>
      PROVE  Forwards(r, d, x)
  <2>1. m.trader_account # Empty
    BY <1>7, <1>9, ChainAssumption
  <2>2. Carries(r, m, i, paid)
    BY <1>3, <2>1
  <2>3. i = Len(P)
    BY <1>9, <2>2, CarriesPath
  <2>4. /\ i % 2 = 0 /\ Passed(r, i)
        /\ m.dest_account = Asked(r).dest_account
        /\ MinReturn(m) = MinReturn(Asked(r))
    BY <2>2 DEF Carries, MinReturn
  <2> QED
    BY <1>7, <1>9, <2>3, <2>4 DEF Forwards
<1>10. ASSUME NEW x \in BOOLEAN, m.path # <<>>,
              ValidMemo(d.memo), Carries(r, parse_memo(d.memo), i, x),
              parse_memo(d.memo).path = m.path
       PROVE  Forwards(r, d, x)
  <2>1. i \in 0..Len(P) /\ i # Len(P) /\ m.path[1] = P[i + 1]
    BY <1>10, CarriesPath
  <2>2. i < Len(P)
    BY <2>1, PathFacts
  <2> QED
    BY <1>7, <1>10, <2>1, <2>2 DEF Forwards
<1>11. CASE fee = 0 /\ p = <<d>> /\ Entering(m)
  <2> DEFINE k == [m EXCEPT !.trader_account = a.from]
  <2>1. m.path # <<>> /\ m.trader_account = Empty
    BY <1>11 DEF Entering
  <2>2. a = r /\ i = 0 /\ ~ paid /\ m = Asked(r) /\ a.from = Trader(r)
    BY <1>4, <2>1 DEF Trader
  <2>3. /\ k.trader_account = a.from
        /\ k.path = m.path /\ k.min_return = m.min_return
        /\ k.dest_account = m.dest_account
        /\ k.affiliate_account = m.affiliate_account
        /\ k.affiliate_fee = m.affiliate_fee
        /\ k.receiver_memo = m.receiver_memo
    BY ChangedMemos
  <2>4. d.memo = build_memo(k)
    <3>1. d.memo = CASE Entering(m) -> build_memo(k)
                     [] m.path = <<>> -> Plain(m.receiver_memo)
                     [] OTHER -> a.memo
      BY <1>7, <1>11, Zenon
    <3>2. m.path # <<>>
      BY <2>1
    <3> HIDE DEF k
    <3> QED
      BY <1>11, <3>1, <3>2
  <2> HIDE DEF k
  <2>5. IsMemo(k)
    BY <1>1, <1>5, <2>2, <2>3 DEF IsMemo
  <2> DEFINE l == parse_memo(d.memo)
  <2>6. /\ ValidMemo(d.memo)
        /\ l.path = k.path /\ l.min_return = k.min_return
        /\ l.dest_account = k.dest_account
        /\ l.trader_account = k.trader_account
        /\ l.affiliate_account = k.affiliate_account
        /\ k.affiliate_account # Empty => l.affiliate_fee = k.affiliate_fee
        /\ l.receiver_memo = Again(k.receiver_memo)
    BY <2>4, <2>5, Rebuilt
  <2>7. Again(l.receiver_memo) = Again(m.receiver_memo)
    BY <2>3, <2>6 DEF Again
  <2> HIDE DEF l
  <2>8. Carries(r, l, 0, FALSE)
    BY <2>2, <2>3, <2>6, <2>7, AskedCarries
  <2>9. Forwards(r, d, paid)
    BY <1>10, <2>1, <2>2, <2>3, <2>6, <2>8 DEF l
  <2> QED
    BY <1>7, <1>8, <1>11, <2>9 DEF p
<1>12. CASE fee = 0 /\ p = <<d>> /\ ~ Entering(m)
  <2>1. CASE m.path = <<>>
    <3>1. d.memo = Plain(m.receiver_memo)
      BY <1>7, <1>8, <1>12, <2>1 DEF Due
    <3>2. Forwards(r, d, paid)
      BY <1>9, <2>1, <3>1, PlainDiffers
    <3> QED
      BY <1>7, <1>8, <1>12, <3>2 DEF p
  <2>2. CASE m.path # <<>>
    <3>1. d.memo = a.memo
      BY <1>7, <1>8, <1>12, <2>2 DEF Due
    <3>2. Carries(r, m, i, paid)
      BY <1>3, <1>12, <2>2 DEF Entering
    <3>3. Forwards(r, d, paid)
      BY <1>6, <1>10, <2>2, <3>1, <3>2
    <3> QED
      BY <1>7, <1>8, <1>12, <3>3 DEF p
  <2> QED
    BY <2>1, <2>2
<1>13. CASE ~ (fee = 0 /\ p = <<d>>)
  <2> DEFINE k == [m EXCEPT !.affiliate_account = Empty, !.affiliate_fee = Empty]
             l == parse_memo(d.memo)
  <2>1. /\ ~ Entering(m) /\ p = <<tip, d>>
        /\ m.affiliate_account # Empty
        /\ m.affiliate_account \in Account
        /\ tip = transfer(Network, m.affiliate_account, a.token, fee,
                          Plain("affiliate pay"))
        /\ Due(a.token, fee, d.quantity)
        /\ d.memo = build_memo(k)
    BY <1>7, <1>13
  <2>2. m.trader_account # Empty
    BY <1>7, <2>1, ChainAssumption DEF Entering
  <2>3. Carries(r, m, i, paid)
    BY <1>3, <2>2
  <2>4. /\ k.trader_account = m.trader_account
        /\ k.path = m.path /\ k.min_return = m.min_return
        /\ k.dest_account = m.dest_account
        /\ k.affiliate_account = Empty
        /\ k.receiver_memo = m.receiver_memo
    BY ChangedMemos
  <2> HIDE DEF k
  <2>5. IsMemo(k)
    BY <2>2, <2>4 DEF IsMemo
  <2>6. /\ ValidMemo(d.memo)
        /\ l.path = k.path /\ l.min_return = k.min_return
        /\ l.dest_account = k.dest_account
        /\ l.trader_account = k.trader_account
        /\ l.affiliate_account = k.affiliate_account
        /\ l.receiver_memo = Again(k.receiver_memo)
    BY <2>1, <2>5, Rebuilt
  <2>7. Again(l.receiver_memo) = Again(m.receiver_memo)
    BY <2>4, <2>6 DEF Again
  <2> HIDE DEF l
  <2>8. Carries(r, l, i, TRUE)
    BY <2>3, <2>4, <2>6, <2>7 DEF Carries
  <2>9. Forwards(r, d, TRUE)
    BY <1>9, <1>10, <2>4, <2>6, <2>8 DEF l
  <2>10. /\ tip.quantity = fee /\ fee \in Int
         /\ tip.quantity + d.quantity = a.quantity
    <3>1. tip.quantity = fee
      BY <2>1 DEF transfer
    <3>2. fee \in Int
      <4>1. Due(a.token, fee, d.quantity)
        BY <2>1
      <4> QED
        BY <4>1 DEF Due
    <3>3. d.quantity = a.quantity - fee
      BY <1>7
    <3> QED
      BY <1>8, <3>1, <3>2, <3>3
  <2>11. /\ ~ paid
         /\ m.affiliate_account = Asked(r).affiliate_account
    BY <1>5, <2>1
  <2>12. /\ Asked(r).affiliate_account \in Account
         /\ tip = transfer(Network, Asked(r).affiliate_account, d.token,
                           tip.quantity, Plain("affiliate pay"))
         /\ Due(d.token, tip.quantity, d.quantity)
    <3>1. d.token = a.token /\ tip.quantity = fee
      BY <1>7, <2>10
    <3> QED
      BY <2>1, <2>11, <3>1, Zenon
  <2>13. p = <<tip, d>> /\ d.token = a.token
    BY <1>7, <2>1
  <2> HIDE DEF m, P
  <2> QED
    BY <2>9, <2>10, <2>11, <2>12, <2>13 DEF p
<1> QED
  BY <1>11, <1>12, <1>13


(* What a converter sends back carries the terms, less the hop it was.     *)
LEMMA ConverterForwards ==
  ASSUME settings \in [Converter -> Settings],
         NEW r, IsTransfer(r), WellFormed(r.memo), ValidMemo(r.memo),
         NEW L, NEW a, IsTransfer(a), a.to \in Converter,
         ConverterAccepts(L, a.to, a.from, a.token, a.quantity, a.memo),
         ConverterSends(L, a.to, a.from, a.token, a.quantity, a.memo) # <<>>,
         NEW i, NEW paid, Carries(r, parse_memo(a.memo), i, paid)
  PROVE  \E b, d :
           /\ Answers(a, ConverterSends(L, a.to, a.from, a.token, a.quantity, a.memo),
                      b, d)
           /\ ValidMemo(d.memo)
           /\ parse_memo(d.memo).receiver_memo = Again(Asked(r).receiver_memo)
           /\ i + 2 \in 1..Len(Asked(r).path)
           /\ Comes(r, d.token, i + 2)
           /\ Carries(r, parse_memo(d.memo), i + 2, paid)
<1> DEFINE m == parse_memo(a.memo)
           P == Asked(r).path
           k == [m EXCEPT !.path = SubSeq(m.path, 3, Len(m.path))]
           p == ConverterSends(L, a.to, a.from, a.token, a.quantity, a.memo)
<1> HIDE DEF p
<1>0. /\ Len(m.path) > 1 /\ m.path[1].account = a.to
      /\ \E b, d : /\ Answers(a, p, b, d)
                   /\ CodeOf[d.token] = m.path[2]
                   /\ d.memo = build_memo(k)
  BY ConverterReacts DEF p
<1>1. PICK b, d :
        /\ Answers(a, p, b, d)
        /\ CodeOf[d.token] = m.path[2]
        /\ d.memo = build_memo(k)
  BY <1>0
<1> HIDE DEF P, m
<1>2. /\ i \in 0..Len(P) /\ i + 2 <= Len(P)
      /\ m.path[1] = P[i + 1] /\ m.path[2] = P[i + 2]
      /\ SubSeq(m.path, 3, Len(m.path)) = SubSeq(P, i + 3, Len(P))
      /\ Len(P) \in Nat
  BY <1>0, CarriesPath, PathFacts DEF P, m
<1>3. /\ k.trader_account = m.trader_account
      /\ k.path = SubSeq(P, i + 3, Len(P)) /\ k.min_return = m.min_return
      /\ k.dest_account = m.dest_account
      /\ k.affiliate_account = m.affiliate_account
      /\ k.affiliate_fee = m.affiliate_fee
      /\ k.receiver_memo = m.receiver_memo
  BY <1>2, ChangedMemos DEF m
<1> HIDE DEF k
<1>4. /\ i % 2 = 0 /\ Passed(r, i)
      /\ m.min_return = Asked(r).min_return
      /\ m.dest_account = Asked(r).dest_account
      /\ m.trader_account = Trader(r)
      /\ Again(m.receiver_memo) = Again(Asked(r).receiver_memo)
      /\ IF paid \/ Asked(r).affiliate_account = Empty
         THEN m.affiliate_account = Empty
         ELSE /\ m.affiliate_account = Asked(r).affiliate_account
              /\ m.affiliate_fee = Asked(r).affiliate_fee
  BY DEF Carries, m
<1>5. IsMemo(k)
  <2>1. m.trader_account # Empty
    BY <1>4, ChainAssumption DEF Trader, IsTransfer
  <2>2. m.affiliate_account # Empty => m.affiliate_fee # Empty
    BY <1>4, PathFacts
  <2> QED
    BY <1>3, <2>1, <2>2 DEF IsMemo
<1> DEFINE l == parse_memo(d.memo)
<1>6. /\ ValidMemo(d.memo)
      /\ l.path = k.path /\ l.min_return = k.min_return
      /\ l.dest_account = k.dest_account
      /\ l.trader_account = k.trader_account
      /\ l.affiliate_account = k.affiliate_account
      /\ k.affiliate_account # Empty => l.affiliate_fee = k.affiliate_fee
      /\ l.receiver_memo = Again(k.receiver_memo)
  BY <1>1, <1>5, Rebuilt
<1> HIDE DEF l
<1>7. /\ l.receiver_memo = Again(Asked(r).receiver_memo)
      /\ Again(l.receiver_memo) = Again(Asked(r).receiver_memo)
  BY <1>3, <1>4, <1>6 DEF Again
<1>8. i + 2 \in 0..Len(P) /\ i + 2 \in 1..Len(P) /\ (i + 2) % 2 = 0 /\ (i + 2) + 1 = i + 3
  BY <1>2, <1>4
<1>9. Passed(r, i + 2)
  <2> SUFFICES ASSUME NEW n \in 1..(i + 2), n % 2 = 1
               PROVE  P[n].account \in Converter
    BY DEF Passed, P
  <2>1. CASE n \in 1..i
    BY <1>4, <2>1 DEF Passed, P
  <2>2. CASE n = i + 1
    BY <1>0, <1>2, <2>2
  <2>3. n # i + 2
    BY <1>8
  <2> QED
    BY <1>2, <2>1, <2>2, <2>3
<1>10. Carries(r, l, i + 2, paid)
  BY <1>3, <1>4, <1>6, <1>7, <1>8, <1>9 DEF Carries, P
<1>11. Comes(r, d.token, i + 2)
  BY <1>1, <1>2, <1>8 DEF Comes, P
<1> QED
  BY <1>1, <1>6, <1>7, <1>8, <1>10, <1>11 DEF p, P, l

----------------------------------------------------------------------------
(* What a step does to the balances.                                       *)

(* A transfer out of a converter whose switches forbid it is one that it   *)
(* has signed itself; what it retires it has just received.                *)
LEMMA GuardedByTransfer ==
  ASSUME NEW L \in Ledger, NEW M \in Ledger, NEW S \in Ledger, NEW r,
         NEW a, IsTransfer(a), Moves(L, M, a),
         NEW p, p[1] = a, Guarded(r, L, S, p),
         a.from \in Converter => a.from = r.from \/ Sells(a.from, a.token),
         NEW q,
         q[1].action = "retire" =>
           q[1].from = a.to /\ q[1].token = a.token /\ q[1].quantity = a.quantity
  PROVE  Guarded(r, M, S, q)
<1> SUFFICES ASSUME NEW c \in Converter, NEW t \in Symbol, c # r.from, ~ Sells(c, t)
             PROVE  /\ M.balance[t][c] - Owed(q, t, c) >= S.balance[t][c]
                    /\ (HasSettings(c) /\ t = settings[c].smart /\ S.issuer[t] = c)
                         => M.supply[t] <= S.supply[t]
  BY DEF Guarded
<1>1. c \in Account
  BY LegacyAssumption
<1>2. a.action = "transfer" /\ a.quantity \in Nat
  BY IsTransferFields DEF Moves
<1>3. /\ L.balance[t][c] >= S.balance[t][c]
      /\ (HasSettings(c) /\ t = settings[c].smart /\ S.issuer[t] = c)
           => L.supply[t] <= S.supply[t]
  <2>1. Owed(p, t, c) = 0
    BY <1>2 DEF Owed
  <2>2. /\ L.balance[t][c] - Owed(p, t, c) >= S.balance[t][c]
        /\ (HasSettings(c) /\ t = settings[c].smart /\ S.issuer[t] = c)
             => L.supply[t] <= S.supply[t]
    BY DEF Guarded
  <2>3. L.balance[t][c] \in Int
    BY <1>1 DEF Ledger
  <2> QED
    BY <2>1, <2>2, <2>3
<1>4. ~ (t = a.token /\ c = a.from)
  OBVIOUS
<1>5. M.supply = L.supply
  BY DEF Moves
<1> DEFINE x == IF t = a.token /\ c = a.to THEN a.quantity ELSE 0
<1>6. M.balance[t][c] = L.balance[t][c] + x
  <2>1. M.balance[t][c] = L.balance[t][c]
          - (IF t = a.token /\ c = a.from THEN a.quantity ELSE 0)
          + (IF t = a.token /\ c = a.to THEN a.quantity ELSE 0)
    BY <1>1 DEF Moves
  <2>2. L.balance[t][c] \in Int
    BY <1>1 DEF Ledger
  <2> QED
    BY <1>2, <1>4, <2>1, <2>2
<1>7. x \in Int /\ x >= Owed(q, t, c)  /\ Owed(q, t, c) \in Int
  BY <1>2 DEF Owed
<1>8. L.balance[t][c] \in Int /\ S.balance[t][c] \in Int
  BY <1>1 DEF Ledger
<1> HIDE DEF x
<1>9. M.balance[t][c] - Owed(q, t, c) >= S.balance[t][c]
  BY <1>3, <1>6, <1>7, <1>8
<1> QED
  BY <1>3, <1>5, <1>9

LEMMA GuardedByCounterpart ==
  ASSUME LedgerOK(ledger), NEW S \in Ledger, ledger.issuer = S.issuer, NEW r,
         NEW a, IsTransfer(a), a.from \in Converter, Sells(a.from, a.token),
         NEW b, Counterpart(b, a), Succeeds(b),
         NEW p, p[1] = b, Guarded(r, ledger, S, p),
         NEW q, q[1] = a
  PROVE  Guarded(r, Executed(b), S, q)
<1> DEFINE M == Executed(b)
<1> SUFFICES ASSUME NEW c \in Converter, NEW t \in Symbol, c # r.from, ~ Sells(c, t)
             PROVE  /\ M.balance[t][c] - Owed(q, t, c) >= S.balance[t][c]
                    /\ (HasSettings(c) /\ t = settings[c].smart /\ S.issuer[t] = c)
                         => M.supply[t] <= S.supply[t]
  BY DEF Guarded
<1>1. c \in Account /\ ledger \in Ledger
  BY LegacyAssumption DEF LedgerOK
<1>2. Owed(q, t, c) = 0
  BY IsTransferFields DEF Owed
<1>3. /\ ledger.balance[t][c] \in Int /\ S.balance[t][c] \in Int
      /\ ledger.supply[t] \in Int /\ S.supply[t] \in Int
  BY <1>1 DEF Ledger
<1>4. /\ ledger.balance[t][c] - Owed(p, t, c) >= S.balance[t][c]
      /\ (HasSettings(c) /\ t = settings[c].smart /\ S.issuer[t] = c)
           => ledger.supply[t] <= S.supply[t]
  BY DEF Guarded
<1>5. a.quantity \in Int
  BY DEF IsTransfer
<1>6. \/ /\ b.action = "issue"
         /\ a.from = ledger.issuer[a.token] /\ a.quantity > 0
         /\ M.supply[t] = ledger.supply[t] + (IF t = a.token THEN a.quantity ELSE 0)
         /\ M.balance[t][c] = ledger.balance[t][c]
              + (IF t = a.token /\ c = a.from THEN a.quantity ELSE 0)
      \/ /\ b.action = "retire" /\ b.from = a.from
         /\ b.quantity \in Int /\ b.quantity > 0
         /\ M.supply[t] = ledger.supply[t] - (IF t = b.token THEN b.quantity ELSE 0)
         /\ M.balance[t][c] = ledger.balance[t][c]
              - (IF t = b.token /\ c = a.from THEN b.quantity ELSE 0)
  BY <1>1, ExecutedCounterpart
<1> HIDE DEF M
<1>7. CASE b.action = "issue"
  <2>1. Owed(p, t, c) = 0
    BY <1>7 DEF Owed
  <2>2. ~ (t = a.token /\ c = a.from)
    OBVIOUS
  <2>3. M.balance[t][c] = ledger.balance[t][c]
    BY <1>3, <1>6, <1>7, <2>2
  <2>4. ASSUME HasSettings(c), t = settings[c].smart, S.issuer[t] = c
        PROVE  M.supply[t] <= S.supply[t]
    <3>1. t # a.token
      BY <1>6, <1>7, <2>2, <2>4
    <3> QED
      BY <1>3, <1>4, <1>6, <1>7, <2>4, <3>1
  <2> QED
    BY <1>2, <1>3, <1>4, <2>1, <2>3, <2>4
<1>8. CASE b.action = "retire"
  <2>1. b.from = a.from /\ b.quantity \in Int /\ b.quantity > 0
    BY <1>6, <1>8
  <2>2. Owed(p, t, c) = IF t = b.token /\ c = a.from THEN b.quantity ELSE 0
    BY <1>8, <2>1 DEF Owed
  <2>3. M.balance[t][c] = ledger.balance[t][c] - Owed(p, t, c)
    BY <1>6, <1>8, <2>2
  <2>4. M.balance[t][c] - Owed(q, t, c) >= S.balance[t][c]
    BY <1>2, <1>3, <1>4, <2>1, <2>2, <2>3
  <2>5. M.supply[t] <= ledger.supply[t] /\ M.supply[t] \in Int
    BY <1>3, <1>6, <1>8, <2>1
  <2> QED
    BY <1>3, <1>4, <2>4, <2>5
<1> QED
  BY <1>6, <1>7, <1>8

(* What the holders have after a transfer, if Holds says it before.        *)
LEMMA HoldsByTransfer ==
  ASSUME NEW L \in Ledger, NEW M \in Ledger, NEW S \in Ledger,
         NEW r, r.quantity \in Int,
         NEW T, T # <<>> => T[1].fee \in Int,
         NEW a, IsTransfer(a), Moves(L, M, a),
         NEW n \in Int, Holds(r, L, S, T, a.token, n)
  PROVE  /\ (a.from = Network /\ n = a.quantity) => Delivered(r, M, S, T, a)
         /\ (a.from = Network /\ n = a.quantity /\ a.to \in Converter) =>
              \A u : Holds(r, M, S, T, u, 0)
         /\ (a.from \in Converter /\ a.to = Network /\ n = 0) =>
              Holds(r, M, S, T, a.token, a.quantity)
         /\ \A k \in Int :
              (/\ a.from = Network /\ n = a.quantity + k /\ T = <<>>
               /\ a.to = Asked(r).affiliate_account) =>
                Holds(r, M, S,
                      <<[token |-> a.token, fee |-> a.quantity, net |-> k]>>,
                      a.token, k)
<1>1. /\ a.token \in Symbol /\ a.quantity \in Int /\ a.from # a.to
  BY DEF IsTransfer, Moves
<1> SUFFICES ASSUME NEW j \in Symbol, NEW h \in Holders
    PROVE  /\ (a.from = Network /\ n = a.quantity) =>
                M.balance[j][h] = S.balance[j][h] - Offered(r, j, h)
                  + Tipped(r, T, j, h)
                  + (IF j = a.token /\ h = a.to THEN a.quantity ELSE 0)
           /\ (a.from = Network /\ n = a.quantity /\ a.to \in Converter) =>
                \A u : M.balance[j][h] = S.balance[j][h] - Offered(r, j, h)
                         + Tipped(r, T, j, h) + InHand(j, h, u, 0)
           /\ (a.from \in Converter /\ a.to = Network /\ n = 0) =>
                M.balance[j][h] = S.balance[j][h] - Offered(r, j, h)
                  + Tipped(r, T, j, h) + InHand(j, h, a.token, a.quantity)
           /\ \A k \in Int :
                (/\ a.from = Network /\ n = a.quantity + k /\ T = <<>>
                 /\ a.to = Asked(r).affiliate_account) =>
                  M.balance[j][h] = S.balance[j][h] - Offered(r, j, h)
                    + Tipped(r, <<[token |-> a.token, fee |-> a.quantity,
                                   net |-> k]>>, j, h)
                    + InHand(j, h, a.token, k)
  BY DEF Holds, Delivered
<1> DEFINE m == M.balance[j][h]
           l == L.balance[j][h]
           s == S.balance[j][h]
           o == Offered(r, j, h)
           g == Tipped(r, T, j, h)
<1>2. h \in Account /\ h \notin Converter
  BY DEF Holders
<1>3. /\ l \in Int /\ s \in Int /\ o \in Int /\ g \in Int /\ m \in Int
  BY <1>2 DEF Ledger, Offered, Tipped
<1>4. m = l - (IF j = a.token /\ h = a.from THEN a.quantity ELSE 0)
            + (IF j = a.token /\ h = a.to THEN a.quantity ELSE 0)
  BY <1>2 DEF Moves
<1>5. l = s - o + g + (IF j = a.token /\ h = Network THEN n ELSE 0)
  BY DEF Holds, InHand
<1>6. T = <<>> => g = 0
  BY DEF Tipped
<1>7. ASSUME NEW k \in Int
      PROVE  Tipped(r, <<[token |-> a.token, fee |-> a.quantity, net |-> k]>>, j, h)
               = IF j = a.token /\ h = Asked(r).affiliate_account
                 THEN a.quantity ELSE 0
  <2> DEFINE V == <<[token |-> a.token, fee |-> a.quantity, net |-> k]>>
  <2>1. V # <<>> /\ V[1].token = a.token /\ V[1].fee = a.quantity
    OBVIOUS
  <2> HIDE DEF V
  <2>2. Tipped(r, V, j, h) = IF j = a.token /\ h = Asked(r).affiliate_account
                             THEN a.quantity ELSE 0
    BY <2>1 DEF Tipped
  <2> QED
    BY <2>2 DEF V
<1> HIDE DEF m, l, s, o, g
<1>8. ASSUME a.from = Network, n = a.quantity
      PROVE  m = s - o + g + (IF j = a.token /\ h = a.to THEN a.quantity ELSE 0)
  BY <1>1, <1>3, <1>4, <1>5, <1>8
<1>9. ASSUME a.from = Network, n = a.quantity, a.to \in Converter, NEW u
      PROVE  m = s - o + g + InHand(j, h, u, 0)
  BY <1>2, <1>3, <1>8, <1>9 DEF InHand
<1>10. ASSUME a.from \in Converter, a.to = Network, n = 0
       PROVE  m = s - o + g + InHand(j, h, a.token, a.quantity)
  BY <1>1, <1>2, <1>3, <1>4, <1>5, <1>10 DEF InHand
<1>11. ASSUME NEW k \in Int, a.from = Network, n = a.quantity + k, T = <<>>,
              a.to = Asked(r).affiliate_account
       PROVE  m = s - o + Tipped(r, <<[token |-> a.token, fee |-> a.quantity,
                                       net |-> k]>>, j, h)
                    + InHand(j, h, a.token, k)
  <2> DEFINE v == Tipped(r, <<[token |-> a.token, fee |-> a.quantity,
                                       net |-> k]>>, j, h)
  <2>1. v = IF j = a.token /\ h = a.to THEN a.quantity ELSE 0
    BY <1>7, <1>11
  <2> HIDE DEF v
  <2>2. m = s - o + v + InHand(j, h, a.token, k)
    BY <1>1, <1>3, <1>4, <1>5, <1>6, <1>11, <2>1 DEF InHand
  <2> QED
    BY <2>2 DEF v
<1> QED
  BY <1>8, <1>9, <1>10, <1>11 DEF m, s, o, g

LEMMA HoldsDelivered ==
  ASSUME NEW L \in Ledger, NEW M \in Ledger, NEW S \in Ledger,
         NEW r, r.quantity \in Int,
         NEW T, T # <<>> => T[1].fee \in Int,
         NEW a, IsTransfer(a), Moves(L, M, a), a.from = Network,
         Holds(r, L, S, T, a.token, a.quantity)
  PROVE  /\ Delivered(r, M, S, T, a)
         /\ a.to \in Converter => \A u : Holds(r, M, S, T, u, 0)
<1>1. PICK n \in Int : n = a.quantity
  BY DEF IsTransfer
<1>2. Holds(r, L, S, T, a.token, n)
  BY <1>1
<1> QED
  BY <1>1, <1>2, HoldsByTransfer

LEMMA HoldsReturned ==
  ASSUME NEW L \in Ledger, NEW M \in Ledger, NEW S \in Ledger,
         NEW r, r.quantity \in Int,
         NEW T, T # <<>> => T[1].fee \in Int,
         NEW a, IsTransfer(a), Moves(L, M, a), a.from \in Converter, a.to = Network,
         Holds(r, L, S, T, a.token, 0)
  PROVE  Holds(r, M, S, T, a.token, a.quantity)
<1>1. PICK n \in Int : n = 0
  OBVIOUS
<1>2. Holds(r, L, S, T, a.token, n)
  BY <1>1
<1> QED
  BY <1>1, <1>2, HoldsByTransfer

----------------------------------------------------------------------------
(* Executing the next action leaves the transaction in one of its stages.  *)

LEMMA AnswersOnward ==
  ASSUME NEW r, NEW M, NEW S, NEW T, NEW a, NEW q, NEW b, NEW d,
         Answers(a, q, b, d), Replies(r, M, S, T, d)
  PROVE  /\ Onward(r, q, M, S, T)
         /\ q[1].action = "retire" =>
              q[1].from = a.to /\ q[1].token = a.token /\ q[1].quantity = a.quantity
<1>1. d.action = "transfer"
  BY IsTransferFields DEF Answers
<1>2. CASE q = <<d>>
  <2>1. Len(q) = 1 /\ q[1] = d /\ q = <<q[1]>>
    BY <1>2
  <2>2. Returning(r, q, M, S, T)
    BY <2>1 DEF Returning
  <2> QED
    BY <1>1, <2>1, <2>2 DEF Onward
<1>3. CASE q = <<b, d>> /\ Counterpart(b, d)
           /\ (b.action = "retire" => b.token = a.token /\ b.quantity = a.quantity)
  <2>1. Len(q) = 2 /\ q[1] = b /\ q[2] = d /\ q = <<q[1], q[2]>>
    BY <1>3
  <2>2. Balancing(r, q, M, S, T)
    BY <1>3, <2>1 DEF Balancing
  <2>3. b.action = "retire" => b.from = a.to
    <3>1. d.from = a.to
      BY DEF Answers
    <3>2. ASSUME NEW t, NEW x, b = retire(d.from, t, x)
          PROVE  b.from = a.to
      BY <3>1, <3>2 DEF retire
    <3>3. ASSUME NEW t, NEW x, b = issue(d.from, t, x)
          PROVE  b.action # "retire"
      BY <3>3 DEF issue
    <3> QED
      BY <1>3, <3>2, <3>3 DEF Counterpart
  <2> QED
    BY <1>3, <2>1, <2>2, <2>3 DEF Onward
<1> QED
  BY <1>2, <1>3 DEF Answers

LEMMA NetworkOnward ==
  ASSUME NEW r, IsTransfer(r), WellFormed(r.memo), Swaps(r),
         NEW M \in Ledger, NEW S, NEW T, NEW a, IsTransfer(a), a.quantity > 0,
         a.to = Network, a.from \notin SystemAccount,
         NetworkAccepts(M, a.from, a.token, a.quantity, a.memo),
         network_settings.max_fee \in 0..MAX_FEE,
         NEW i \in 0..Len(Asked(r).path), Comes(r, a.token, i),
         (a = r /\ i = 0 /\ T = <<>>) \/ Carries(r, parse_memo(a.memo), i, T # <<>>),
         Holds(r, M, S, T, a.token, a.quantity)
  PROVE  LET q == NetworkSends(M, a.from, a.token, a.quantity, a.memo)
         IN  /\ q # <<>> /\ q[1].action = "transfer"
             /\ Onward(r, q, M, S, T)
<1> DEFINE q == NetworkSends(M, a.from, a.token, a.quantity, a.memo)
<1>1. PICK paid \in BOOLEAN : paid = (T # <<>>)
  OBVIOUS
<1>2. /\ ValidMemo(r.memo)
      /\ (a = r /\ i = 0 /\ ~ paid) \/ Carries(r, parse_memo(a.memo), i, paid)
  BY <1>1 DEF Swaps
<1>3. \/ \E d : /\ q = <<d>>
                /\ d.token = a.token /\ d.quantity = a.quantity
                /\ Forwards(r, d, paid)
      \/ \E tip, d :
           /\ q = <<tip, d>> /\ ~ paid
           /\ d.token = a.token /\ tip.quantity + d.quantity = a.quantity
           /\ Asked(r).affiliate_account \in Account
           /\ tip = transfer(Network, Asked(r).affiliate_account, d.token,
                             tip.quantity, Plain("affiliate pay"))
           /\ Due(d.token, tip.quantity, d.quantity)
           /\ Forwards(r, d, TRUE)
  BY <1>1, <1>2, NetworkForwards
<1> HIDE DEF q
<1>4. ASSUME NEW d, q = <<d>>, d.token = a.token, d.quantity = a.quantity,
             Forwards(r, d, paid)
      PROVE  q # <<>> /\ q[1].action = "transfer" /\ Onward(r, q, M, S, T)
  <2>1. Len(q) = 1 /\ q[1] = d /\ q = <<q[1]>> /\ q # <<>>
    BY <1>4
  <2>2. d.action = "transfer"
    BY <1>4, IsTransferFields DEF Forwards
  <2>3. Delivering(r, q, M, S, T)
    BY <1>1, <1>4, <2>1 DEF Delivering
  <2> QED
    BY <2>1, <2>2, <2>3 DEF Onward
<1>5. ASSUME NEW tip, NEW d, q = <<tip, d>>, ~ paid,
             d.token = a.token, tip.quantity + d.quantity = a.quantity,
             Asked(r).affiliate_account \in Account,
             tip = transfer(Network, Asked(r).affiliate_account, d.token,
                            tip.quantity, Plain("affiliate pay")),
             Due(d.token, tip.quantity, d.quantity),
             Forwards(r, d, TRUE)
      PROVE  q # <<>> /\ q[1].action = "transfer" /\ Onward(r, q, M, S, T)
  <2>1. Len(q) = 2 /\ q[1] = tip /\ q[2] = d /\ q = <<q[1], q[2]>> /\ q # <<>>
    BY <1>5
  <2>2. tip.action = "transfer"
    <3>1. ASSUME NEW x, NEW t, NEW n, NEW m, tip = transfer(Network, x, t, n, m)
          PROVE  tip.action = "transfer"
      BY <3>1 DEF transfer
    <3> QED
      BY <1>5, <3>1
  <2>3. Tipping(r, q, M, S, T)
    <3>1. Holds(r, M, S, T, d.token, tip.quantity + d.quantity)
      BY <1>5
    <3> QED
      BY <1>1, <1>5, <2>1, <3>1 DEF Tipping
  <2> QED
    BY <2>1, <2>2, <2>3 DEF Onward
<1> QED
  BY <1>3, <1>4, <1>5 DEF q

(* What all transfers have in common.                                      *)
LEMMA TransferStep ==
  ASSUME LedgerOK(ledger), LedgerOK(start), ledger.issuer = start.issuer,
         NEW r, IsTransfer(r), NEW a, IsTransfer(a), Succeeds(a),
         pending[1] = a, Guarded(r, ledger, start, pending),
         a.from \in Converter => a.from = r.from \/ Sells(a.from, a.token)
  PROVE  LET M == Executed(a)
         IN  /\ LedgerOK(M) /\ M.issuer = start.issuer
             /\ M \in Ledger /\ ledger \in Ledger /\ start \in Ledger
             /\ Moves(ledger, M, a)
             /\ a.from # a.to /\ a.quantity \in Int /\ a.quantity > 0
             /\ Guarded(r, M, start, <<r>>)
             /\ \A q : (q[1].action = "retire" =>
                          /\ q[1].from = a.to /\ q[1].token = a.token
                          /\ q[1].quantity = a.quantity) => Guarded(r, M, start, q)
             /\ a.to = Network =>
                  NetworkAccepts(M, a.from, a.token, a.quantity, a.memo)
             /\ a.to \in Converter =>
                  ConverterAccepts(M, a.to, a.from, a.token, a.quantity, a.memo)
             /\ Sends(M, a) =
                  IF a.to = Network
                  THEN NetworkSends(M, a.from, a.token, a.quantity, a.memo)
                  ELSE IF a.to \in Converter
                  THEN ConverterSends(M, a.to, a.from, a.token, a.quantity, a.memo)
                  ELSE <<>>
             /\ ValidMemo(a.memo) => Tip(a) = <<>>
<1> DEFINE M == Executed(a)
<1>1. /\ LedgerOK(M) /\ M.issuer = ledger.issuer
      /\ Moves(ledger, M, a)
      /\ a.to = Network =>
           NetworkAccepts(M, a.from, a.token, a.quantity, a.memo)
      /\ a.to \in Converter =>
           ConverterAccepts(M, a.to, a.from, a.token, a.quantity, a.memo)
  BY ExecutedTransfer DEF Moves
<1>2. Sends(M, a) = IF a.to = Network
                    THEN NetworkSends(M, a.from, a.token, a.quantity, a.memo)
                    ELSE IF a.to \in Converter
                    THEN ConverterSends(M, a.to, a.from, a.token, a.quantity, a.memo)
                    ELSE <<>>
  BY IsTransferFields, ConversionsAssumption DEF Sends
<1> HIDE DEF M
<1>3. M \in Ledger /\ ledger \in Ledger /\ start \in Ledger
  BY <1>1 DEF LedgerOK
<1>4. ASSUME NEW q,
             q[1].action = "retire" =>
               q[1].from = a.to /\ q[1].token = a.token /\ q[1].quantity = a.quantity
      PROVE  Guarded(r, M, start, q)
  BY <1>1, <1>3, <1>4, GuardedByTransfer
<1>5. Guarded(r, M, start, <<r>>)
  <2>1. <<r>>[1].action # "retire"
    BY IsTransferFields
  <2> QED
    BY <1>4, <2>1
<1>6. ValidMemo(a.memo) => Tip(a) = <<>>
  BY PlainDiffers DEF Tip
<1>7. a.from # a.to /\ a.quantity \in Int /\ a.quantity > 0
  BY <1>1 DEF Moves
<1> QED
  BY <1>1, <1>2, <1>3, <1>4, <1>5, <1>6, <1>7 DEF M

LEMMA AfterRequest ==
  ASSUME TypeOK, LedgerOK(start), NEW r, IsTransfer(r), r.from # Network,
         WellFormed(r.memo), ledger = start, tips = <<>>, pending = <<r>>,
         Guarded(r, ledger, start, pending), Succeeds(r)
  PROVE  LET M == Executed(r)
         IN  /\ Keeps(r, M, Sends(M, r), <<>>)
             /\ Sends(M, r) # <<>> => Tip(r) = <<>>
<1> DEFINE M == Executed(r)
           q == Sends(M, r)
<1>1. /\ LedgerOK(M) /\ M.issuer = start.issuer
      /\ M \in Ledger /\ start \in Ledger
      /\ Moves(start, M, r)
      /\ r.from # r.to /\ r.quantity \in Int /\ r.quantity > 0
      /\ Guarded(r, M, start, <<r>>)
      /\ \A p : (p[1].action = "retire" =>
                   /\ p[1].from = r.to /\ p[1].token = r.token
                   /\ p[1].quantity = r.quantity) => Guarded(r, M, start, p)
      /\ r.to = Network =>
           NetworkAccepts(M, r.from, r.token, r.quantity, r.memo)
      /\ r.to \in Converter =>
           ConverterAccepts(M, r.to, r.from, r.token, r.quantity, r.memo)
      /\ q = IF r.to = Network
             THEN NetworkSends(M, r.from, r.token, r.quantity, r.memo)
             ELSE IF r.to \in Converter
             THEN ConverterSends(M, r.to, r.from, r.token, r.quantity, r.memo)
             ELSE <<>>
      /\ ValidMemo(r.memo) => Tip(r) = <<>>
  <2>1. pending[1] = r
    OBVIOUS
  <2>2. LedgerOK(ledger) /\ ledger.issuer = start.issuer
    OBVIOUS
  <2> QED
    BY <2>1, <2>2, TransferStep
<1>2. /\ settings \in [Converter -> Settings]
      /\ network_settings.max_fee \in 0..MAX_FEE
  BY DEF TypeOK, NetworkSettings
<1>3. Tips(r, <<>>)
  BY DEF Tips
<1> HIDE DEF M, q
<1>4. r.to # Network =>
        \A t \in Symbol : M.balance[t][Network] = start.balance[t][Network]
  <2> SUFFICES ASSUME r.to # Network, NEW t \in Symbol
               PROVE  M.balance[t][Network] = start.balance[t][Network]
    OBVIOUS
  <2>1. Network \in Account
    BY NetworkAssumption
  <2>2. start.balance[t][Network] \in Int
    BY <1>1, <2>1 DEF Ledger
  <2> QED
    BY <1>1, <2>1, <2>2 DEF Moves
<1>5. CASE r.to # Network /\ q = <<>>
  BY <1>1, <1>4, <1>5 DEF Keeps, Stays, M, q
<1>6. CASE r.to # Network /\ q # <<>>
  <2>1. r.to \in Converter
        /\ q = ConverterSends(M, r.to, r.from, r.token, r.quantity, r.memo)
    BY <1>1, <1>6
  <2>2. /\ ValidMemo(r.memo)
        /\ \E b, d : Answers(r, q, b, d)
    BY <1>1, <1>2, <1>6, <2>1, ConverterReacts
  <2>3. PICK b, d : Answers(r, q, b, d)
    BY <2>2
  <2>4. Replies(r, M, start, <<>>, d)
    BY <1>4, <1>6, <2>1, <2>3 DEF Answers, Replies
  <2>5. Onward(r, q, M, start, <<>>) /\ Guarded(r, M, start, q)
    BY <1>1, <2>3, <2>4, AnswersOnward
  <2> QED
    BY <1>1, <1>3, <1>6, <2>2, <2>5 DEF Keeps, M, q
<1>7. CASE r.to = Network /\ r.from \in SystemAccount
  <2>1. q = <<>>
    BY <1>1, <1>7 DEF NetworkSends
  <2> QED
    BY <1>1, <1>7, <2>1 DEF Keeps, Stays, M, q
<1>8. CASE r.to = Network /\ r.from \notin SystemAccount
  <2>1. Swaps(r)
    BY <1>1, <1>8 DEF Swaps, NetworkAccepts
  <2>2. 0 \in 0..Len(Asked(r).path) /\ Comes(r, r.token, 0)
    BY <2>1, PathFacts DEF Swaps, Comes
  <2>3. Holds(r, M, start, <<>>, r.token, r.quantity)
    <3> SUFFICES ASSUME NEW j \in Symbol, NEW h \in Holders
        PROVE  M.balance[j][h] = start.balance[j][h] - Offered(r, j, h)
                 + Tipped(r, <<>>, j, h) + InHand(j, h, r.token, r.quantity)
      BY DEF Holds
    <3>1. h \in Account
      BY DEF Holders
    <3>2. start.balance[j][h] \in Int
      BY <1>1, <3>1 DEF Ledger
    <3>3. M.balance[j][h] = start.balance[j][h]
            - (IF j = r.token /\ h = r.from THEN r.quantity ELSE 0)
            + (IF j = r.token /\ h = r.to THEN r.quantity ELSE 0)
      BY <1>1, <3>1 DEF Moves
    <3> QED
      BY <1>1, <1>8, <3>2, <3>3 DEF Offered, Tipped, InHand
  <2>4. q # <<>> /\ q[1].action = "transfer" /\ Onward(r, q, M, start, <<>>)
    <3>1. q = NetworkSends(M, r.from, r.token, r.quantity, r.memo)
      BY <1>1, <1>8
    <3> QED
      BY <1>1, <1>2, <1>8, <2>1, <2>2, <2>3, <3>1, NetworkOnward
  <2>5. Guarded(r, M, start, q)
    BY <1>1, <2>4
  <2>6. ValidMemo(r.memo)
    BY <2>1 DEF Swaps
  <2> QED
    BY <1>1, <1>3, <2>4, <2>5, <2>6 DEF Keeps, M, q
<1> QED
  BY <1>5, <1>6, <1>7, <1>8

(* The network sends tokens on.                                            *)
LEMMA DeliveryFacts ==
  ASSUME TypeOK, LedgerOK(start), ledger.issuer = start.issuer,
         NEW r, IsTransfer(r), r.from # Network, WellFormed(r.memo),
         Guarded(r, ledger, start, pending), Tips(r, tips),
         NEW a, pending = <<a>>, Delivering(r, pending, ledger, start, tips),
         Succeeds(a)
  PROVE  LET M == Executed(a)
             q == Sends(M, a)
         IN  /\ IsTransfer(a) /\ a.from = Network /\ Swaps(r)
             /\ Forwards(r, a, tips # <<>>)
             /\ LedgerOK(M) /\ M.issuer = start.issuer
             /\ M \in Ledger /\ start \in Ledger
             /\ a.from # a.to /\ a.quantity \in 1..MaxAmount
             /\ Guarded(r, M, start, <<r>>)
             /\ \A p : (p[1].action = "retire" =>
                          /\ p[1].from = a.to /\ p[1].token = a.token
                          /\ p[1].quantity = a.quantity) => Guarded(r, M, start, p)
             /\ a.to \in Converter =>
                  ConverterAccepts(M, a.to, a.from, a.token, a.quantity, a.memo)
             /\ q = IF a.to = Network
                    THEN NetworkSends(M, a.from, a.token, a.quantity, a.memo)
                    ELSE IF a.to \in Converter
                    THEN ConverterSends(M, a.to, a.from, a.token, a.quantity, a.memo)
                    ELSE <<>>
             /\ ValidMemo(a.memo) => Tip(a) = <<>>
             /\ Delivered(r, M, start, tips, a)
             /\ a.to \in Converter => \A u : Holds(r, M, start, tips, u, 0)
<1> DEFINE M == Executed(a)
           q == Sends(M, a)
<1>1. /\ IsTransfer(a) /\ a.from = Network /\ Swaps(r)
      /\ Holds(r, ledger, start, tips, a.token, a.quantity)
      /\ Forwards(r, a, tips # <<>>)
  BY DEF Delivering, Forwards
<1>2. /\ LedgerOK(M) /\ M.issuer = start.issuer
      /\ M \in Ledger /\ ledger \in Ledger /\ start \in Ledger
      /\ Moves(ledger, M, a)
      /\ a.from # a.to /\ a.quantity \in Int /\ a.quantity > 0
      /\ Guarded(r, M, start, <<r>>)
      /\ \A p : (p[1].action = "retire" =>
                   /\ p[1].from = a.to /\ p[1].token = a.token
                   /\ p[1].quantity = a.quantity) => Guarded(r, M, start, p)
      /\ a.to \in Converter =>
           ConverterAccepts(M, a.to, a.from, a.token, a.quantity, a.memo)
      /\ q = IF a.to = Network
             THEN NetworkSends(M, a.from, a.token, a.quantity, a.memo)
             ELSE IF a.to \in Converter
             THEN ConverterSends(M, a.to, a.from, a.token, a.quantity, a.memo)
             ELSE <<>>
      /\ ValidMemo(a.memo) => Tip(a) = <<>>
  <2>1. pending[1] = a /\ LedgerOK(ledger)
    BY DEF TypeOK
  <2>2. a.from \notin Converter
    BY <1>1, ConversionsAssumption
  <2> QED
    BY <1>1, <2>1, <2>2, TransferStep
<1>4. tips # <<>> => tips[1].fee \in Int
  BY DEF Tips, Due
<1>5. r.quantity \in Int
  BY DEF IsTransfer
<1>6. /\ Delivered(r, M, start, tips, a)
      /\ a.to \in Converter => \A u : Holds(r, M, start, tips, u, 0)
  <2>1. /\ M \in Ledger /\ ledger \in Ledger /\ start \in Ledger
        /\ Moves(ledger, M, a)
        /\ a.quantity \in Int
    BY <1>2
  <2>2. /\ IsTransfer(a) /\ a.from = Network
        /\ Holds(r, ledger, start, tips, a.token, a.quantity)
    BY <1>1
  <2> HIDE DEF M
  <2> QED
    BY <1>4, <1>5, <2>1, <2>2, HoldsDelivered
<1>3. a.quantity \in 1..MaxAmount
  BY <1>2 DEF Moves
<1> HIDE DEF M, q
<1> QED
  BY <1>1, <1>2, <1>3, <1>6 DEF M, q

LEMMA AfterDelivery ==
  ASSUME TypeOK, LedgerOK(start), ledger.issuer = start.issuer,
         NEW r, IsTransfer(r), r.from # Network, WellFormed(r.memo),
         Guarded(r, ledger, start, pending), Tips(r, tips),
         NEW a, pending = <<a>>, Delivering(r, pending, ledger, start, tips),
         Succeeds(a)
  PROVE  LET M == Executed(a)
         IN  /\ Keeps(r, M, Sends(M, a), tips)
             /\ Sends(M, a) # <<>> => Tip(a) = <<>>
<1> DEFINE M == Executed(a)
           q == Sends(M, a)
<1>1. /\ IsTransfer(a) /\ a.from = Network /\ Swaps(r)
      /\ Forwards(r, a, tips # <<>>)
      /\ LedgerOK(M) /\ M.issuer = start.issuer
      /\ M \in Ledger /\ start \in Ledger
      /\ a.from # a.to /\ a.quantity \in 1..MaxAmount
      /\ Guarded(r, M, start, <<r>>)
      /\ \A p : (p[1].action = "retire" =>
                   /\ p[1].from = a.to /\ p[1].token = a.token
                   /\ p[1].quantity = a.quantity) => Guarded(r, M, start, p)
      /\ a.to \in Converter =>
           ConverterAccepts(M, a.to, a.from, a.token, a.quantity, a.memo)
      /\ q = IF a.to = Network
             THEN NetworkSends(M, a.from, a.token, a.quantity, a.memo)
             ELSE IF a.to \in Converter
             THEN ConverterSends(M, a.to, a.from, a.token, a.quantity, a.memo)
             ELSE <<>>
      /\ ValidMemo(a.memo) => Tip(a) = <<>>
      /\ Delivered(r, M, start, tips, a)
      /\ a.to \in Converter => \A u : Holds(r, M, start, tips, u, 0)
  BY DeliveryFacts
<1>2. settings \in [Converter -> Settings]
  BY DEF TypeOK
<1> HIDE DEF M, q
<1>3. CASE q = <<>>
  <2>1. ASSUME NEW t \in Symbol
        PROVE  M.balance[t][Network] = start.balance[t][Network]
    <3>1. Network \in Holders /\ Network \in Account
      BY NetworkAssumption, ConversionsAssumption DEF Holders
    <3>2. start.balance[t][Network] \in Int
      BY <1>1, <3>1 DEF Ledger
    <3>3. Offered(r, t, Network) = 0 /\ Tipped(r, tips, t, Network) = 0
      BY DEF Offered, Tipped, Tips
    <3>4. Network # a.to
      BY <1>1
    <3> QED
      BY <1>1, <3>1, <3>2, <3>3, <3>4 DEF Delivered
  <2> QED
    BY <1>1, <1>3, <2>1 DEF Keeps, Stays, M, q
<1>4. CASE q # <<>>
  <2>1. a.to \in Converter
        /\ q = ConverterSends(M, a.to, a.from, a.token, a.quantity, a.memo)
    BY <1>1, <1>4
  <2>2. ValidMemo(a.memo) /\ Len(parse_memo(a.memo).path) > 1
    BY <1>1, <1>2, <1>4, <2>1, ConverterReacts
  <2>3. parse_memo(a.memo).path # <<>>
    BY <2>2
  <2>4. PICK paid \in BOOLEAN : paid = (tips # <<>>)
    OBVIOUS
  <2>5. PICK i : Carries(r, parse_memo(a.memo), i, paid)
    BY <1>1, <2>2, <2>3, <2>4 DEF Forwards
  <2>6. ValidMemo(r.memo)
    BY <1>1 DEF Swaps
  <2>7. PICK b, d :
          /\ Answers(a, q, b, d)
          /\ ValidMemo(d.memo)
          /\ parse_memo(d.memo).receiver_memo = Again(Asked(r).receiver_memo)
          /\ i + 2 \in 1..Len(Asked(r).path)
          /\ Comes(r, d.token, i + 2)
          /\ Carries(r, parse_memo(d.memo), i + 2, paid)
    <3>1. ConverterAccepts(M, a.to, a.from, a.token, a.quantity, a.memo)
      BY <1>1, <2>1
    <3>2. IsTransfer(a) /\ a.to \in Converter
      BY <1>1, <2>1
    <3>3. ConverterSends(M, a.to, a.from, a.token, a.quantity, a.memo) # <<>>
      BY <1>4, <2>1
    <3>4. \E b, d :
            /\ Answers(a, ConverterSends(M, a.to, a.from, a.token, a.quantity, a.memo),
                       b, d)
            /\ ValidMemo(d.memo)
            /\ parse_memo(d.memo).receiver_memo = Again(Asked(r).receiver_memo)
            /\ i + 2 \in 1..Len(Asked(r).path)
            /\ Comes(r, d.token, i + 2)
            /\ Carries(r, parse_memo(d.memo), i + 2, paid)
      BY <1>2, <2>5, <2>6, <3>1, <3>2, <3>3, ConverterForwards
    <3> QED
      BY <2>1, <3>4
  <2>8. Replies(r, M, start, tips, d)
    <3>1. /\ IsTransfer(d) /\ d.from \in Converter /\ HasSettings(d.from)
          /\ d.to = settings[d.from].network /\ d.to = Network
          /\ Sells(d.from, d.token)
      BY <1>1, <2>1, <2>7 DEF Answers
    <3>2. Holds(r, M, start, tips, d.token, 0)
      BY <1>1, <2>1
    <3> QED
      BY <1>1, <2>4, <2>7, <3>1, <3>2 DEF Replies
  <2>9. Onward(r, q, M, start, tips) /\ Guarded(r, M, start, q)
    BY <1>1, <2>7, <2>8, AnswersOnward
  <2> QED
    BY <1>1, <1>4, <2>2, <2>9 DEF Keeps, M, q
<1> QED
  BY <1>3, <1>4

LEMMA AfterTip ==
  ASSUME TypeOK, LedgerOK(start), ledger.issuer = start.issuer,
         NEW r, IsTransfer(r), r.from # Network, WellFormed(r.memo),
         Guarded(r, ledger, start, pending),
         NEW a, NEW d, pending = <<a, d>>, Tipping(r, pending, ledger, start, tips),
         Succeeds(a)
  PROVE  LET M == Executed(a)
         IN  /\ Keeps(r, M, <<d>>, Tip(a))
             /\ Sends(M, a) = <<>> /\ tips = <<>> /\ Tip(a) = <<Tip(a)[1]>>
<1> DEFINE M == Executed(a)
           V == <<[token |-> a.token, fee |-> a.quantity, net |-> d.quantity]>>
           who == Asked(r).affiliate_account
<1>1. /\ pending[1] = a /\ pending[2] = d
      /\ Swaps(r) /\ who \in Account /\ tips = <<>>
      /\ a = transfer(Network, who, d.token, a.quantity, Plain("affiliate pay"))
      /\ Due(d.token, a.quantity, d.quantity)
      /\ Holds(r, ledger, start, tips, d.token, a.quantity + d.quantity)
      /\ Forwards(r, d, TRUE)
  BY DEF Tipping
<1>2. /\ d.token \in Symbol /\ a.quantity \in Nat /\ d.quantity \in Int
      /\ Network \in Account
  BY <1>1, NetworkAssumption DEF Due
<1>3. /\ IsTransfer(a) /\ a.from = Network /\ a.to = who /\ a.token = d.token
      /\ a.memo = Plain("affiliate pay")
  <2>1. ASSUME NEW t, NEW x, a = transfer(Network, who, t, x, Plain("affiliate pay"))
        PROVE  /\ a.from = Network /\ a.to = who /\ a.token = t
               /\ a.memo = Plain("affiliate pay")
    BY <2>1 DEF transfer
  <2>2. /\ a.from = Network /\ a.to = who /\ a.token = d.token
        /\ a.memo = Plain("affiliate pay")
    BY <1>1, <2>1
  <2>3. a = transfer(a.from, a.to, a.token, a.quantity, a.memo)
    BY <1>1, <2>2, Zenon
  <2>4. /\ a.from \in Account /\ a.to \in Account
        /\ a.token \in Symbol /\ a.quantity \in Int
    <3>1. who \in Account
      BY <1>1
    <3>2. a.quantity \in Int
      BY <1>2
    <3> HIDE DEF who
    <3> QED
      BY <1>2, <2>2, <3>1, <3>2, Zenon
  <2> QED
    BY <2>2, <2>3, <2>4 DEF IsTransfer
<1>4. Tip(a) = V
  BY <1>1, <1>3 DEF Tip
<1>5. /\ LedgerOK(M) /\ M.issuer = start.issuer
      /\ M \in Ledger /\ ledger \in Ledger /\ start \in Ledger
      /\ Moves(ledger, M, a)
      /\ a.from # a.to
      /\ \A p : (p[1].action = "retire" =>
                   /\ p[1].from = a.to /\ p[1].token = a.token
                   /\ p[1].quantity = a.quantity) => Guarded(r, M, start, p)
      /\ a.to \in Converter =>
           ConverterAccepts(M, a.to, a.from, a.token, a.quantity, a.memo)
      /\ Sends(M, a) = IF a.to = Network
             THEN NetworkSends(M, a.from, a.token, a.quantity, a.memo)
             ELSE IF a.to \in Converter
             THEN ConverterSends(M, a.to, a.from, a.token, a.quantity, a.memo)
             ELSE <<>>
  <2>1. LedgerOK(ledger)
    BY DEF TypeOK
  <2>2. a.from \notin Converter
    BY <1>3, ConversionsAssumption
  <2> QED
    BY <1>1, <1>3, <2>1, <2>2, TransferStep
<1> HIDE DEF M
(* A converter refuses what the memo "affiliate pay" comes with.           *)
<1>6. a.to \notin Converter
  <2>1. a.from \notin SystemAccount
    BY <1>3, NetworkAssumption
  <2>2. ~ ValidMemo(a.memo) /\ a.memo # Plain("setup")
    BY <1>3, PlainDiffers
  <2> QED
    BY <1>5, <2>1, <2>2 DEF ConverterAccepts, CanConvert
<1>7. Sends(M, a) = <<>>
  BY <1>3, <1>5, <1>6
<1>8. V # <<>> /\ V = <<V[1]>> /\ V[1].token = d.token
      /\ V[1].fee = a.quantity /\ V[1].net = d.quantity
  BY <1>3
<1>9. Holds(r, M, start, V, d.token, d.quantity)
  <2>1. r.quantity \in Int /\ a.quantity + d.quantity \in Int
    BY <1>2 DEF IsTransfer
  <2>2. Holds(r, ledger, start, <<>>, a.token, a.quantity + d.quantity)
    BY <1>1, <1>3
  <2>3. Holds(r, M, start, V, a.token, d.quantity)
    BY <1>2, <1>3, <1>5, <2>1, <2>2, HoldsByTransfer
  <2> QED
    BY <1>3, <2>3
<1> HIDE DEF V
<1>10. Delivering(r, <<d>>, M, start, V)
  <2> DEFINE p == <<d>>
  <2>1. Len(p) = 1 /\ p[1] = d /\ p = <<p[1]>>
    OBVIOUS
  <2> HIDE DEF p
  <2>2. Delivering(r, p, M, start, V)
    BY <1>1, <1>8, <1>9, <2>1 DEF Delivering
  <2> QED
    BY <2>2 DEF p
<1>11. Tips(r, V)
  <2>1. a.quantity <= MaxAmount
    BY <1>5 DEF Moves
  <2>2. who \in Account \ {Network}
    BY <1>1, <1>3, <1>5
  <2> QED
    BY <1>1, <1>8, <2>1, <2>2 DEF Tips
<1>12. Guarded(r, M, start, <<d>>)
  <2>1. <<d>>[1].action # "retire"
    BY <1>1, IsTransferFields DEF Forwards
  <2> QED
    BY <1>5, <2>1
<1>13. Keeps(r, M, <<d>>, V)
  <2>1. <<d>> # <<>>
    OBVIOUS
  <2> QED
    BY <1>5, <1>10, <1>11, <1>12, <2>1 DEF Keeps, Onward
<1> QED
  BY <1>1, <1>4, <1>7, <1>8, <1>13 DEF M

LEMMA AfterCounterpart ==
  ASSUME TypeOK, LedgerOK(start), ledger.issuer = start.issuer,
         NEW r, IsTransfer(r), Guarded(r, ledger, start, pending), Tips(r, tips),
         NEW b, NEW a, pending = <<b, a>>,
         Balancing(r, pending, ledger, start, tips), Succeeds(b)
  PROVE  LET M == Executed(b)
         IN  /\ Keeps(r, M, <<a>>, tips)
             /\ Sends(M, b) = <<>> /\ Tip(b) = <<>>
<1> DEFINE M == Executed(b)
<1>1. /\ pending[1] = b /\ Counterpart(b, a)
      /\ Replies(r, ledger, start, tips, a)
  BY DEF Balancing
<1>2. IsTransfer(a) /\ a.from \in Converter /\ Sells(a.from, a.token)
      /\ a.from \in Account
  BY <1>1, LegacyAssumption DEF Replies
<1>3. LedgerOK(ledger) /\ ledger \in Ledger /\ start \in Ledger
  BY DEF TypeOK, LedgerOK
<1>4. /\ LedgerOK(M) /\ M.issuer = start.issuer
      /\ Sends(M, b) = <<>> /\ Tip(b) = <<>>
  BY <1>1, <1>2, <1>3, ExecutedCounterpart
<1>5. ASSUME NEW j \in Symbol, NEW h \in Account, h # a.from
      PROVE  M.balance[j][h] = ledger.balance[j][h]
  <2>1. \/ M.balance[j][h] = ledger.balance[j][h]
             + (IF j = a.token /\ h = a.from THEN a.quantity ELSE 0)
        \/ M.balance[j][h] = ledger.balance[j][h]
             - (IF j = b.token /\ h = a.from THEN b.quantity ELSE 0)
    BY <1>1, <1>2, <1>3, ExecutedCounterpart
  <2>2. ledger.balance[j][h] \in Int
    BY <1>3 DEF Ledger
  <2> HIDE DEF M
  <2> QED
    BY <1>5, <2>1, <2>2
<1>6. Guarded(r, M, start, <<a>>)
  <2>1. <<a>>[1] = a
    OBVIOUS
  <2> QED
    BY <1>1, <1>2, <1>3, <2>1, GuardedByCounterpart
<1> HIDE DEF M
<1>7. Network \in Account /\ Network # a.from
  BY <1>2, NetworkAssumption, ConversionsAssumption
<1>8. ASSUME Holds(r, ledger, start, tips, a.token, 0)
      PROVE  Holds(r, M, start, tips, a.token, 0)
  BY <1>2, <1>5, <1>8 DEF Holds, Holders
<1>9. Replies(r, M, start, tips, a)
  <2>1. \A t \in Symbol : M.balance[t][Network] = ledger.balance[t][Network]
    BY <1>5, <1>7
  <2> QED
    BY <1>1, <1>8, <2>1 DEF Replies
<1>10. Returning(r, <<a>>, M, start, tips)
  <2> DEFINE p == <<a>>
  <2>1. Len(p) = 1 /\ p[1] = a /\ p = <<p[1]>>
    OBVIOUS
  <2> HIDE DEF p
  <2>2. Returning(r, p, M, start, tips)
    BY <1>9, <2>1 DEF Returning
  <2> QED
    BY <2>2 DEF p
<1>11. <<a>> # <<>>
  OBVIOUS
<1>12. Keeps(r, M, <<a>>, tips)
  BY <1>4, <1>6, <1>10, <1>11 DEF Keeps, Onward
<1> QED
  BY <1>4, <1>12 DEF M

LEMMA AfterReply ==
  ASSUME TypeOK, LedgerOK(start), ledger.issuer = start.issuer,
         NEW r, IsTransfer(r), r.from # Network, WellFormed(r.memo),
         Guarded(r, ledger, start, pending), Tips(r, tips),
         NEW a, pending = <<a>>, Returning(r, pending, ledger, start, tips),
         Succeeds(a)
  PROVE  LET M == Executed(a)
         IN  /\ Keeps(r, M, Sends(M, a), tips)
             /\ Sends(M, a) # <<>> => Tip(a) = <<>>
             /\ Sends(M, a) = <<>> => a.to # Network
<1> DEFINE M == Executed(a)
           q == Sends(M, a)
<1>1. pending[1] = a /\ Replies(r, ledger, start, tips, a)
  BY DEF Returning
<1>2. /\ IsTransfer(a) /\ a.from \in Converter /\ HasSettings(a.from)
      /\ a.to = settings[a.from].network
      /\ Sells(a.from, a.token)
  BY <1>1 DEF Replies
<1>3. /\ LedgerOK(M) /\ M.issuer = start.issuer
      /\ M \in Ledger /\ ledger \in Ledger /\ start \in Ledger
      /\ Moves(ledger, M, a)
      /\ a.from # a.to /\ a.quantity \in Int /\ a.quantity > 0
      /\ Guarded(r, M, start, <<r>>)
      /\ \A p : (p[1].action = "retire" =>
                   /\ p[1].from = a.to /\ p[1].token = a.token
                   /\ p[1].quantity = a.quantity) => Guarded(r, M, start, p)
      /\ a.to = Network =>
           NetworkAccepts(M, a.from, a.token, a.quantity, a.memo)
      /\ a.to \in Converter =>
           ConverterAccepts(M, a.to, a.from, a.token, a.quantity, a.memo)
      /\ q = IF a.to = Network
             THEN NetworkSends(M, a.from, a.token, a.quantity, a.memo)
             ELSE IF a.to \in Converter
             THEN ConverterSends(M, a.to, a.from, a.token, a.quantity, a.memo)
             ELSE <<>>
      /\ ValidMemo(a.memo) => Tip(a) = <<>>
  <2>1. LedgerOK(ledger)
    BY DEF TypeOK
  <2> QED
    BY <1>1, <1>2, <2>1, TransferStep
<1>4. /\ settings \in [Converter -> Settings]
      /\ network_settings.max_fee \in 0..MAX_FEE
  BY DEF TypeOK, NetworkSettings
<1> HIDE DEF M, q
<1>5. CASE a.to = Network
  <2>1. /\ Swaps(r) /\ ValidMemo(a.memo)
        /\ Holds(r, ledger, start, tips, a.token, 0)
        /\ \E i \in 1..Len(Asked(r).path) :
             /\ Comes(r, a.token, i)
             /\ Carries(r, parse_memo(a.memo), i, tips # <<>>)
    BY <1>1, <1>5 DEF Replies
  <2>2. Holds(r, M, start, tips, a.token, a.quantity)
    <3>1. tips # <<>> => tips[1].fee \in Int
      BY DEF Tips, Due
    <3>2. r.quantity \in Int
      BY DEF IsTransfer
    <3>3. M \in Ledger /\ ledger \in Ledger /\ start \in Ledger /\ Moves(ledger, M, a)
      BY <1>3
    <3> QED
      BY <1>2, <1>5, <2>1, <3>1, <3>2, <3>3, HoldsReturned
  <2>3. PICK i \in 0..Len(Asked(r).path) :
          /\ Comes(r, a.token, i)
          /\ Carries(r, parse_memo(a.memo), i, tips # <<>>)
    <3>1. Len(Asked(r).path) \in Nat
      BY <2>1, PathFacts DEF Swaps
    <3> QED
      BY <2>1, <3>1
  <2>4. a.from \notin SystemAccount
    BY <1>2, LegacyAssumption
  <2>5. q = NetworkSends(M, a.from, a.token, a.quantity, a.memo)
        /\ NetworkAccepts(M, a.from, a.token, a.quantity, a.memo)
        /\ M \in Ledger /\ a.quantity > 0
    BY <1>3, <1>5
  <2>6. q # <<>> /\ q[1].action = "transfer" /\ Onward(r, q, M, start, tips)
    BY <1>2, <1>4, <1>5, <2>1, <2>2, <2>3, <2>4, <2>5, NetworkOnward
  <2>7. Guarded(r, M, start, q)
    BY <1>3, <2>6
  <2> QED
    BY <1>3, <1>5, <2>1, <2>6, <2>7 DEF Keeps, M, q
<1>6. CASE a.to # Network
  <2>1. /\ r.to # Network /\ tips = <<>>
        /\ \A t \in Symbol : ledger.balance[t][Network] = start.balance[t][Network]
    BY <1>1, <1>6 DEF Replies
  <2>2. \A t \in Symbol : M.balance[t][Network] = start.balance[t][Network]
    <3> SUFFICES ASSUME NEW t \in Symbol
                 PROVE  M.balance[t][Network] = start.balance[t][Network]
      OBVIOUS
    <3>1. Network \in Account /\ Network # a.from
      BY <1>2, NetworkAssumption, ConversionsAssumption
    <3>2. ledger.balance[t][Network] \in Int
      BY <1>3, <3>1 DEF Ledger
    <3> QED
      BY <1>3, <1>6, <2>1, <3>1, <3>2 DEF Moves
  <2>3. CASE q = <<>>
    BY <1>3, <1>6, <2>2, <2>3 DEF Keeps, Stays, M, q
  <2>4. CASE q # <<>>
    <3>1. a.to \in Converter
          /\ q = ConverterSends(M, a.to, a.from, a.token, a.quantity, a.memo)
      BY <1>3, <1>6, <2>4
    <3>2. /\ ValidMemo(a.memo)
          /\ \E b, d : Answers(a, q, b, d)
      BY <1>2, <1>3, <1>4, <2>4, <3>1, ConverterReacts
    <3>3. PICK b, d : Answers(a, q, b, d)
      BY <3>2
    <3>4. Replies(r, M, start, tips, d)
      <4>1. d.to # Network
        BY <1>2, <3>3, ConversionsAssumption DEF Answers
      <4> QED
        BY <2>1, <2>2, <3>1, <3>3, <4>1 DEF Answers, Replies
    <3>5. Onward(r, q, M, start, tips) /\ Guarded(r, M, start, q)
      BY <1>3, <3>3, <3>4, AnswersOnward
    <3> QED
      BY <1>3, <1>6, <2>4, <3>2, <3>5 DEF Keeps, M, q
  <2> QED
    BY <2>3, <2>4
<1> QED
  BY <1>5, <1>6

(* A step of the contracts, whatever the stage.                            *)
LEMMA ExecuteKeeps ==
  ASSUME IInv, pending # <<>>, Succeeds(Head(pending))
  PROVE  LET a == Head(pending)
             M == Executed(a)
             q == Sends(M, a) \o Tail(pending)
         IN  Keeps(Request, M, q, tips \o Tip(a))
<1> DEFINE r == Request
           a == Head(pending)
           M == Executed(a)
           s == Sends(M, a)
           q == s \o Tail(pending)
<1>1. /\ TypeOK /\ LedgerOK(start) /\ IsTransfer(r) /\ r.from # Network
      /\ WellFormed(r.memo) /\ ledger.issuer = start.issuer
      /\ Guarded(r, ledger, start, pending) /\ Tips(r, tips)
      /\ Requested \/ Onward(r, pending, ledger, start, tips)
  BY DEF IInv, Underway
<1> HIDE DEF r
<1>2. tips = <<>> \/ tips = <<tips[1]>>
  BY <1>1 DEF Tips
<1>3. tips \o <<>> = tips
  BY <1>2, Concatenations
(* With one action pending, what is pending next is what it sends.         *)
<1>4. ASSUME NEW x, pending = <<x>>,
             Keeps(r, Executed(x), Sends(Executed(x), x), tips),
             Sends(Executed(x), x) # <<>> => Tip(x) = <<>>
      PROVE  Keeps(r, M, q, tips \o Tip(a))
  <2>1. a = x /\ Tail(pending) = <<>>
    BY <1>4
  <2> HIDE DEF a
  <2>2. Keeps(r, M, s, tips) /\ (s # <<>> => Tip(a) = <<>>)
    BY <1>4, <2>1
  <2> HIDE DEF s, M
  <2>3. CASE s = <<>>
    <3>1. q = <<>>
      BY <2>1, <2>3
    <3> QED
      BY <2>2, <2>3, <3>1 DEF Keeps
  <2>4. CASE s # <<>>
    <3>1. s = <<s[1]>> \/ s = <<s[1], s[2]>>
      BY <2>2, <2>4 DEF Keeps, Onward, Delivering, Tipping, Balancing, Returning
    <3>2. s \o <<>> = s
      BY <3>1, Concatenations
    <3>3. q = s /\ tips \o Tip(a) = tips
      BY <1>3, <2>1, <2>2, <2>4, <3>2
    <3> HIDE DEF q
    <3> QED
      BY <2>2, <3>3
  <2> QED
    BY <2>3, <2>4
(* With two, it is the second.                                             *)
<1>5. ASSUME NEW x, NEW d, NEW V, pending = <<x, d>>,
             Keeps(r, Executed(x), <<d>>, V), Sends(Executed(x), x) = <<>>,
             V = tips \o Tip(x)
      PROVE  Keeps(r, M, q, tips \o Tip(a))
  <2>1. a = x /\ Tail(pending) = <<d>>
    BY <1>5
  <2>2. <<>> \o <<d>> = <<d>>
    BY Concatenations
  <2> HIDE DEF a
  <2>3. q = <<d>>
    BY <1>5, <2>1, <2>2
  <2> HIDE DEF q
  <2> QED
    BY <1>5, <2>1, <2>3
<1>6. ASSUME Requested
      PROVE  Keeps(r, M, q, tips \o Tip(a))
  <2>1. pending = <<r>> /\ ledger = start /\ tips = <<>>
    BY <1>6 DEF Requested, r
  <2>2. Head(pending) = r
    BY <2>1
  <2>3. Keeps(r, Executed(r), Sends(Executed(r), r), <<>>)
        /\ (Sends(Executed(r), r) # <<>> => Tip(r) = <<>>)
    BY <1>1, <2>1, <2>2, AfterRequest
  <2>4. Keeps(r, Executed(r), Sends(Executed(r), r), tips)
    BY <2>1, <2>3
  <2> HIDE DEF a, M, s, q
  <2> QED
    BY <1>4, <2>1, <2>3, <2>4
<1>7. ASSUME Delivering(r, pending, ledger, start, tips)
      PROVE  Keeps(r, M, q, tips \o Tip(a))
  <2>1. PICK x : pending = <<x>>
    BY <1>7 DEF Delivering
  <2>2. Succeeds(x)
    BY <2>1
  <2>3. Keeps(r, Executed(x), Sends(Executed(x), x), tips)
        /\ (Sends(Executed(x), x) # <<>> => Tip(x) = <<>>)
    BY <1>1, <1>7, <2>1, <2>2, AfterDelivery
  <2> HIDE DEF a, M, s, q
  <2> QED
    BY <1>4, <2>1, <2>3
<1>8. ASSUME Returning(r, pending, ledger, start, tips)
      PROVE  Keeps(r, M, q, tips \o Tip(a))
  <2>1. PICK x : pending = <<x>>
    BY <1>8 DEF Returning
  <2>2. Succeeds(x)
    BY <2>1
  <2>3. Keeps(r, Executed(x), Sends(Executed(x), x), tips)
        /\ (Sends(Executed(x), x) # <<>> => Tip(x) = <<>>)
    BY <1>1, <1>8, <2>1, <2>2, AfterReply
  <2> HIDE DEF a, M, s, q
  <2> QED
    BY <1>4, <2>1, <2>3
<1>9. ASSUME Tipping(r, pending, ledger, start, tips)
      PROVE  Keeps(r, M, q, tips \o Tip(a))
  <2>1. PICK x, d : pending = <<x, d>>
    BY <1>9 DEF Tipping
  <2>2. Succeeds(x)
    BY <2>1
  <2>3. Keeps(r, Executed(x), <<d>>, Tip(x))
        /\ Sends(Executed(x), x) = <<>> /\ tips = <<>> /\ Tip(x) = <<Tip(x)[1]>>
    BY <1>1, <1>9, <2>1, <2>2, AfterTip
  <2>4. tips \o Tip(x) = Tip(x)
    BY <2>3, Concatenations
  <2> HIDE DEF a, M, s, q
  <2> QED
    BY <1>5, <2>1, <2>3, <2>4
<1>10. ASSUME Balancing(r, pending, ledger, start, tips)
       PROVE  Keeps(r, M, q, tips \o Tip(a))
  <2>1. PICK x, d : pending = <<x, d>>
    BY <1>10 DEF Balancing
  <2>2. Succeeds(x)
    BY <2>1
  <2>3. Keeps(r, Executed(x), <<d>>, tips)
        /\ Sends(Executed(x), x) = <<>> /\ Tip(x) = <<>>
    BY <1>1, <1>10, <2>1, <2>2, AfterCounterpart
  <2>4. tips \o Tip(x) = tips
    BY <1>3, <2>3
  <2> HIDE DEF a, M, s, q
  <2> QED
    BY <1>5, <2>1, <2>3, <2>4
<1> QED
  BY <1>1, <1>6, <1>7, <1>8, <1>9, <1>10 DEF Onward, r

----------------------------------------------------------------------------
(* The invariant is inductive.                                             *)

LEMMA Persist ==
  ASSUME UNCHANGED <<settings, reserves, network_settings>>
  PROVE  /\ \A r, L, S, p : Guarded(r, L, S, p)' <=> Guarded(r, L, S, p)
         /\ \A r, T : Tips(r, T)' <=> Tips(r, T)
         /\ \A r, p, L, S, T : Onward(r, p, L, S, T)' <=> Onward(r, p, L, S, T)
         /\ \A a : Terms(a)' = Terms(a)
<1>1. \A c, t : Sells(c, t)' <=> Sells(c, t)
  BY DEF Sells, HasSettings
<1>2. \A c : HasSettings(c)' <=> HasSettings(c)
  BY DEF HasSettings
<1>3. \A t, fee, rest : Due(t, fee, rest)' <=> Due(t, fee, rest)
  BY DEF Due
<1>4. \A r, L, S, p : Guarded(r, L, S, p)' <=> Guarded(r, L, S, p)
  BY <1>1, <1>2 DEF Guarded
<1>5. \A r, T : Tips(r, T)' <=> Tips(r, T)
  BY <1>3 DEF Tips
<1>6. \A r, L, S, T, a : Replies(r, L, S, T, a)' <=> Replies(r, L, S, T, a)
  BY <1>1, <1>2 DEF Replies
<1>7. \A r, p, L, S, T : Delivering(r, p, L, S, T)' <=> Delivering(r, p, L, S, T)
  OBVIOUS
<1>8. \A r, p, L, S, T : Tipping(r, p, L, S, T)' <=> Tipping(r, p, L, S, T)
  <2> TAKE r, p, L, S, T
  <2>1. Due(p[2].token, p[1].quantity, p[2].quantity)'
          <=> Due(p[2].token, p[1].quantity, p[2].quantity)
    BY <1>3
  <2> QED
    BY <2>1, Zenon DEF Tipping
<1>9. \A r, p, L, S, T : Balancing(r, p, L, S, T)' <=> Balancing(r, p, L, S, T)
  BY <1>6 DEF Balancing
<1>10. \A r, p, L, S, T : Returning(r, p, L, S, T)' <=> Returning(r, p, L, S, T)
  BY <1>6 DEF Returning
<1>11. \A r, p, L, S, T : Onward(r, p, L, S, T)' <=> Onward(r, p, L, S, T)
  BY <1>7, <1>8, <1>9, <1>10 DEF Onward
<1>12. \A a : Terms(a)' = Terms(a)
  BY DEF Terms
<1> QED
  BY <1>4, <1>5, <1>11, <1>12

(* What holds of the tables that a transaction leaves alone.               *)
TablesOK ==
  /\ settings \in [Converter -> Settings]
  /\ reserves \in [Converter -> [Symbol -> ReserveRows]]
  /\ network_settings \in NetworkSettings
  /\ \A c \in Converter : settings[c].fee <= settings[c].max_fee
  /\ \A c \in Converter : RatioSum(reserves[c]) <= PPM_RESOLUTION

LEMMA TablesStay ==
  ASSUME TablesOK, UNCHANGED <<settings, reserves, network_settings>>
  PROVE  TablesOK'
BY DEF TablesOK, RatioSum

LEMMA TypeIs ==
  TypeOK <=>
    /\ TablesOK
    /\ LedgerOK(ledger)
    /\ pending = <<>> <=> order = <<>>
    /\ pending = <<>> => start = ledger /\ tips = <<>>
    /\ Len(pending) <= 2
BY DEF TypeOK, TablesOK

LEMMA ExecuteKeepsIInv ==
  ASSUME IInv, Execute
  PROVE  IInv'
<1> DEFINE r == Request
           a == Head(pending)
           M == Executed(a)
           q == Sends(M, a) \o Tail(pending)
           V == tips \o Tip(a)
<1>1. /\ pending # <<>> /\ Succeeds(a)
      /\ ledger' = M /\ pending' = q
      /\ q = <<>> => start' = M /\ order' = <<>> /\ tips' = <<>>
      /\ q # <<>> => UNCHANGED <<start, order>> /\ tips' = V
      /\ UNCHANGED <<settings, reserves, network_settings>>
  BY DEF Execute
<1>2. Keeps(r, M, q, V)
  BY <1>1, ExecuteKeeps
<1>3. /\ TablesOK /\ LedgerOK(start) /\ order # <<>>
      /\ order = <<[request |-> r, terms |-> Terms(r)]>>
      /\ IsTransfer(r) /\ r.from # Network /\ WellFormed(r.memo)
  BY <1>1, TypeIs DEF IInv, Underway
<1> HIDE DEF M, q, V
<1>4. TablesOK'
  BY <1>1, <1>3, TablesStay
<1>5. CASE q = <<>>
  <2>1. /\ pending' = <<>> /\ order' = <<>> /\ tips' = <<>> /\ start' = ledger'
        /\ ledger' = M
    BY <1>1, <1>5
  <2>2. LedgerOK(M)
    BY <1>2 DEF Keeps
  <2>3. LedgerOK(ledger') /\ LedgerOK(start') /\ Len(pending') <= 2
    BY <2>1, <2>2
  <2>4. TypeOK'
    BY <1>4, <2>1, <2>3 DEF TypeOK, TablesOK
  <2> QED
    BY <2>1, <2>3, <2>4 DEF IInv
<1>6. CASE q # <<>>
  <2>1. /\ pending' # <<>> /\ order' = order /\ tips' = V /\ start' = start
        /\ ledger' = M /\ pending' = q
    BY <1>1, <1>6
  <2>2. /\ LedgerOK(M) /\ M.issuer = start.issuer
        /\ Guarded(r, M, start, q) /\ Tips(r, V) /\ Onward(r, q, M, start, V)
    BY <1>2, <1>6 DEF Keeps
  <2>3. Request' = r
    BY <2>1 DEF Request
  <2>4. Len(q) <= 2
    <3>1. Len(q) = 1 \/ Len(q) = 2
      BY <2>2, Zenon DEF Onward, Delivering, Tipping, Balancing, Returning
    <3>2. \A n : (n = 1 \/ n = 2) => n <= 2
      OBVIOUS
    <3> QED
      BY <3>1, <3>2, Zenon
  <2>5. LedgerOK(ledger') /\ LedgerOK(start') /\ Len(pending') <= 2
        /\ ledger'.issuer = start'.issuer
    BY <1>3, <2>1, <2>2, <2>4
  <2>6. TypeOK'
    BY <1>3, <1>4, <2>1, <2>5 DEF TypeOK, TablesOK
  <2>7. /\ Guarded(Request, ledger, start, pending)'
        /\ Tips(Request, tips)'
        /\ Onward(Request, pending, ledger, start, tips)'
        /\ Terms(Request)' = Terms(r)
    BY <1>1, <2>1, <2>2, <2>3, Persist
  <2>8. order' = <<[request |-> Request', terms |-> Terms(Request)']>>
    BY <1>3, <2>1, <2>3, <2>7
  <2>9. Underway'
    BY <1>3, <2>3, <2>5, <2>7, <2>8 DEF Underway
  <2> QED
    BY <2>5, <2>6, <2>9 DEF IInv
<1> QED
  BY <1>5, <1>6

LEMMA AbortKeepsIInv ==
  ASSUME IInv, Abort
  PROVE  IInv'
<1>1. /\ ledger' = start /\ start' = start /\ pending' = <<>> /\ order' = <<>>
      /\ tips' = <<>> /\ UNCHANGED <<settings, reserves, network_settings>>
  BY DEF Abort
<1>2. TablesOK /\ LedgerOK(start)
  BY TypeIs DEF IInv
<1>3. TablesOK'
  BY <1>1, <1>2, TablesStay
<1>4. LedgerOK(ledger') /\ LedgerOK(start') /\ Len(pending') <= 2
  BY <1>1, <1>2
<1>5. TypeOK'
  BY <1>1, <1>3, <1>4 DEF TypeOK, TablesOK
<1> QED
  BY <1>1, <1>4, <1>5 DEF IInv

LEMMA BeginKeepsIInv ==
  ASSUME IInv, NEW from \in Account, NEW to \in Account, NEW t \in Symbol,
         NEW q \in Quantity, NEW text \in Text[from][to],
         Begin(from, to, t, q, text)
  PROVE  IInv'
<1> DEFINE a == transfer(from, to, t, q, text)
<1>1. /\ pending = <<>> /\ from # Network
      /\ pending' = <<a>> /\ order' = <<[request |-> a, terms |-> Terms(a)]>>
      /\ UNCHANGED <<settings, reserves, network_settings, ledger, start, tips>>
  BY DEF Begin
<1>2. q \in Int /\ WellFormed(text)
  BY ConversionsAssumption
<1>3. IsTransfer(a) /\ a.from # Network /\ WellFormed(a.memo)
  BY <1>1, <1>2, TransferIs
<1> HIDE DEF a
<1>4. TablesOK /\ LedgerOK(start) /\ start = ledger /\ tips = <<>>
  BY <1>1, TypeIs DEF IInv
<1>5. TablesOK'
  BY <1>1, <1>4, TablesStay
<1>6. /\ LedgerOK(ledger') /\ LedgerOK(start') /\ start' = ledger' /\ tips' = <<>>
      /\ ledger' = start
  BY <1>1, <1>4
<1>7. Len(pending') <= 2 /\ pending' # <<>> /\ order' # <<>>
  BY <1>1
<1>8. TypeOK'
  BY <1>5, <1>6, <1>7 DEF TypeOK, TablesOK
<1>9. Request' = a
  BY <1>1 DEF Request
<1>10. Guarded(a, start, start, <<a>>) /\ Tips(a, <<>>)
  <2> SUFFICES ASSUME NEW c \in Converter, NEW j \in Symbol
               PROVE  /\ start.balance[j][c] - Owed(<<a>>, j, c) >= start.balance[j][c]
                      /\ start.supply[j] <= start.supply[j]
    BY DEF Guarded, Tips
  <2>1. c \in Account /\ start \in Ledger
    BY <1>4, LegacyAssumption DEF LedgerOK
  <2>2. start.balance[j][c] \in Int /\ start.supply[j] \in Int
    BY <2>1 DEF Ledger
  <2>3. Owed(<<a>>, j, c) = 0
    BY <1>3, IsTransferFields DEF Owed
  <2> QED
    BY <2>2, <2>3
<1>11. /\ Guarded(Request, ledger, start, pending)'
       /\ Tips(Request, tips)'
       /\ Terms(Request)' = Terms(a)
  BY <1>1, <1>4, <1>6, <1>9, <1>10, Persist
<1>12. order' = <<[request |-> Request', terms |-> Terms(Request)']>>
  BY <1>1, <1>9, <1>11
<1>13. Requested'
  BY <1>1, <1>6, <1>9 DEF Requested
<1>14. Underway'
  BY <1>3, <1>6, <1>9, <1>11, <1>12, <1>13 DEF Underway
<1> QED
  BY <1>6, <1>8, <1>14 DEF IInv

(* The administrators keep the fees and the ratios in their bounds.        *)
LEMMA RatiosKeep ==
  ASSUME IsFiniteSet(Symbol), NEW rows \in [Symbol -> ReserveRows], NEW t \in Symbol,
         NEW row \in ReserveRows
  PROVE  LET new == [rows EXCEPT ![t] = row]
         IN  /\ new \in [Symbol -> ReserveRows]
             /\ RatioSum(new) = RatioSum(rows) + row.ratio - rows[t].ratio
             /\ RatioSum(rows) \in Int /\ rows[t].ratio \in Nat
<1> DEFINE new == [rows EXCEPT ![t] = row]
           f == [u \in Symbol |-> rows[u].ratio]
           g == [u \in Symbol |-> new[u].ratio]
<1>1. new \in [Symbol -> ReserveRows] /\ new[t] = row
      /\ \A u \in Symbol : u # t => new[u] = rows[u]
  OBVIOUS
<1>2. \A u \in Symbol : rows[u].ratio \in Nat /\ new[u].ratio \in Nat
  <2> HIDE DEF new
  <2>1. \A x \in ReserveRows : x.ratio \in Nat
    BY FormulaAssumption DEF ReserveRows
  <2> QED
    BY <1>1, <2>1
<1> HIDE DEF new
<1>3. /\ \A u \in Symbol : f[u] \in Int /\ g[u] \in Int
      /\ \A u \in Symbol : u # t => g[u] = f[u]
      /\ g[t] = row.ratio /\ f[t] = rows[t].ratio
  BY <1>1, <1>2
<1> HIDE DEF f, g
<1>4. /\ SumFunctionOnSet(g, Symbol) = SumFunctionOnSet(f, Symbol) + g[t] - f[t]
      /\ SumFunctionOnSet(f, Symbol) \in Int
  BY <1>3, SumExcept, SumType
<1>5. RatioSum(new) = RatioSum(rows) + row.ratio - rows[t].ratio
      /\ RatioSum(rows) \in Int
  <2>1. RatioSum(new) = SumFunctionOnSet(g, Symbol)
        /\ RatioSum(rows) = SumFunctionOnSet(f, Symbol)
    BY DEF RatioSum, f, g
  <2> QED
    BY <1>3, <1>4, <2>1
<1> QED
  BY <1>1, <1>2, <1>5 DEF new

LEMMA AdministerKeepsTables ==
  ASSUME TablesOK, Administer
  PROVE  TablesOK'
<1>1. CASE \E f \in MaxFees : SetMaxFee(f) /\ UNCHANGED legacyVars
  <2>1. PICK f \in MaxFees : SetMaxFee(f) /\ UNCHANGED legacyVars
    BY <1>1
  <2>2. f \in 0..MAX_FEE
    BY <2>1, FormulaAssumption, ConversionsAssumption DEF SetMaxFee
  <2>3. network_settings' \in NetworkSettings
    BY <2>1, <2>2 DEF TablesOK, NetworkSettings, SetMaxFee
  <2> QED
    BY <2>1, <2>3 DEF TablesOK, RatioSum, legacyVars
<1>2. CASE \E a \in NetTokens : SetNetToken(a) /\ UNCHANGED legacyVars
  <2>1. PICK a \in NetTokens : SetNetToken(a) /\ UNCHANGED legacyVars
    BY <1>2
  <2>2. network_settings' \in NetworkSettings
    BY <2>1, ConversionsAssumption DEF TablesOK, NetworkSettings, SetNetToken
  <2> QED
    BY <2>1, <2>2 DEF TablesOK, RatioSum, legacyVars
<1>3. ASSUME NEW c \in Converter, NEW row \in Rows, InitSettings(c, row),
             UNCHANGED network_settings
      PROVE  TablesOK'
  <2>1. row \in Settings /\ row.fee <= row.max_fee
    BY <1>3, ConversionsAssumption DEF InitSettings
  <2>2. settings' = [settings EXCEPT ![c] = row] /\ reserves' = reserves
    BY <1>3 DEF InitSettings
  <2>3. settings' \in [Converter -> Settings]
        /\ \A d \in Converter : settings'[d].fee <= settings'[d].max_fee
    BY <2>1, <2>2 DEF TablesOK
  <2> QED
    BY <1>3, <2>2, <2>3 DEF TablesOK, RatioSum
<1>4. ASSUME NEW c \in Converter, NEW smart \in BOOLEAN, NEW on \in BOOLEAN,
             NEW f \in Fee, Update(c, smart, on, f), UNCHANGED network_settings
      PROVE  TablesOK'
  <2> DEFINE row == [[[settings[c] EXCEPT !.smart_enabled = smart]
                                    EXCEPT !.enabled = on] EXCEPT !.fee = f]
  <2>1. settings' = [settings EXCEPT ![c] = row] /\ reserves' = reserves
        /\ f <= settings[c].max_fee
    BY <1>4 DEF Update, TablesOK
  <2>2. settings[c] \in Settings
    BY DEF TablesOK
  <2>3. f \in 0..MAX_FEE
    BY <2>1, <2>2, FormulaAssumption, ConversionsAssumption DEF Settings
  <2>4. row \in Settings /\ row.fee <= row.max_fee
    BY <2>1, <2>2, <2>3 DEF Settings
  <2> HIDE DEF row
  <2>5. settings' \in [Converter -> Settings]
        /\ \A d \in Converter : settings'[d].fee <= settings'[d].max_fee
    BY <2>1, <2>4 DEF TablesOK
  <2> QED
    BY <1>4, <2>1, <2>5 DEF TablesOK, RatioSum
<1>5. ASSUME NEW c \in Converter, NEW t \in Symbol, UNCHANGED network_settings,
             \/ \E n \in Ratio, on \in BOOLEAN : SetReserve(ledger, c, t, n, on)
             \/ DelReserve(ledger, c, t)
      PROVE  TablesOK'
  <2>1. PICK row \in ReserveRows :
          /\ reserves' = [reserves EXCEPT ![c][t] = row]
          /\ settings' = settings
          /\ RatioSum(reserves'[c]) <= PPM_RESOLUTION \/ row.ratio = 0
    <3>1. CASE DelReserve(ledger, c, t)
      <4>1. NoReserve \in ReserveRows /\ NoReserve.ratio = 0
        BY FormulaAssumption DEF NoReserve, ReserveRows
      <4> QED
        BY <3>1, <4>1 DEF DelReserve
    <3>2. ASSUME NEW n \in Ratio, NEW on \in BOOLEAN, SetReserve(ledger, c, t, n, on)
          PROVE  \E row \in ReserveRows :
                   /\ reserves' = [reserves EXCEPT ![c][t] = row]
                   /\ settings' = settings
                   /\ RatioSum(reserves'[c]) <= PPM_RESOLUTION
      <4>1. n \in 1..PPM_RESOLUTION
        BY <3>2 DEF SetReserve
      <4>2. [ratio |-> n, sale_enabled |-> on] \in ReserveRows
        BY <4>1, FormulaAssumption DEF ReserveRows
      <4> QED
        BY <3>2, <4>2 DEF SetReserve
    <3> QED
      BY <1>5, <3>1, <3>2
  <2>2. reserves[c] \in [Symbol -> ReserveRows] /\ RatioSum(reserves[c]) <= PPM_RESOLUTION
    BY DEF TablesOK
  <2> DEFINE new == [reserves[c] EXCEPT ![t] = row]
  <2>3. /\ new \in [Symbol -> ReserveRows]
        /\ RatioSum(new) = RatioSum(reserves[c]) + row.ratio - reserves[c][t].ratio
        /\ RatioSum(reserves[c]) \in Int /\ reserves[c][t].ratio \in Nat
    BY <2>2, ConversionsAssumption, RatiosKeep
  <2>4. reserves' = [reserves EXCEPT ![c] = new] /\ reserves'[c] = new
    BY <2>1 DEF TablesOK
  <2> HIDE DEF new
  <2>5. RatioSum(new) <= PPM_RESOLUTION
    <3>1. CASE row.ratio = 0
      BY <2>2, <2>3, <3>1, FormulaAssumption
    <3>2. CASE RatioSum(reserves'[c]) <= PPM_RESOLUTION
      BY <2>4, <3>2
    <3> QED
      BY <2>1, <3>1, <3>2
  <2>6. reserves' \in [Converter -> [Symbol -> ReserveRows]]
        /\ \A d \in Converter : RatioSum(reserves'[d]) <= PPM_RESOLUTION
    BY <2>3, <2>4, <2>5 DEF TablesOK
  <2>7. \A d \in Converter : RatioSum(reserves[d])' <= PPM_RESOLUTION
    BY <2>6 DEF RatioSum
  <2> QED
    BY <1>5, <2>1, <2>6, <2>7 DEF TablesOK
<1> QED
  BY <1>1, <1>2, <1>3, <1>4, <1>5 DEF Administer

LEMMA AdministerKeepsIInv ==
  ASSUME IInv, Administer
  PROVE  IInv'
<1>1. pending = <<>> /\ UNCHANGED transactionVars
  BY DEF Administer
<1>2. TablesOK'
  BY TypeIs, AdministerKeepsTables DEF IInv
<1>3. /\ LedgerOK(ledger') /\ LedgerOK(start')
      /\ pending' = <<>> /\ order' = <<>> /\ start' = ledger' /\ tips' = <<>>
  BY <1>1 DEF IInv, TypeOK, transactionVars
<1>4. Len(pending') <= 2
  BY <1>3
<1>5. TypeOK'
  BY <1>2, <1>3, <1>4 DEF TypeOK, TablesOK
<1> QED
  BY <1>3, <1>5 DEF IInv

LEMMA InitIInv ==
  ASSUME Init
  PROVE  IInv
BY InitialAssumption DEF Init, IInv, TypeOK

LEMMA NextKeepsIInv ==
  ASSUME IInv, [Next]_vars
  PROVE  IInv'
<1>1. CASE UNCHANGED vars
  <2>1. UNCHANGED <<settings, reserves, network_settings>>
        /\ UNCHANGED <<ledger, pending, start, order, tips>>
    BY <1>1 DEF vars, transactionVars
  <2>2. TypeOK'
    <3>1. TablesOK'
      BY <2>1, TypeIs, TablesStay DEF IInv
    <3> QED
      BY <2>1, <3>1, TypeIs DEF IInv, TypeOK, TablesOK
  <2>3. ASSUME pending # <<>>
        PROVE  Underway'
    <3>1. Underway
      BY <2>3 DEF IInv
    <3>2. Request' = Request
      BY <2>1 DEF Request
    <3>3. /\ Guarded(Request, ledger, start, pending)'
          /\ Tips(Request, tips)'
          /\ (Onward(Request, pending, ledger, start, tips)'
               <=> Onward(Request, pending, ledger, start, tips))
          /\ Terms(Request)' = Terms(Request)
      BY <2>1, <3>1, <3>2, Persist DEF Underway
    <3>4. Requested' <=> Requested
      BY <2>1, <3>2 DEF Requested
    <3> QED
      BY <2>1, <3>1, <3>2, <3>3, <3>4 DEF Underway
  <2>4. LedgerOK(start')
    BY <2>1 DEF IInv
  <2> QED
    BY <2>1, <2>2, <2>3, <2>4 DEF IInv
<1>2. CASE Next
  BY <1>2, ExecuteKeepsIInv, AbortKeepsIInv, BeginKeepsIInv, AdministerKeepsIInv DEF Next
<1> QED
  BY <1>1, <1>2

(* What is pending in the middle of a transaction, and whose the tokens    *)
(* are: at most a fee or the counterpart of a conversion, and one transfer *)
(* of all that is on its way, with all of the terms in its memo.           *)
THEOREM Invariant == Spec => []IInv
<1>1. Init => IInv
  BY InitIInv
<1>2. IInv /\ [Next]_vars => IInv'
  BY NextKeepsIInv
<1> QED
  BY <1>1, <1>2, PTL DEF Spec

(* The tables of the token contracts stay consistent within transactions,  *)
(* and the fees and ratios of the converters in their bounds.              *)
THEOREM TypeCorrect == Spec => []TypeOK
<1>1. IInv => TypeOK
  BY DEF IInv
<1> QED
  BY <1>1, Invariant, PTL

----------------------------------------------------------------------------
(* What the invariant says of every state, and of the end of a transaction.*)

LEMMA IInvTerms == ASSUME IInv PROVE TermsSurvive
<1> DEFINE r == Request
           P == Asked(r).path
<1> SUFFICES ASSUME NEW n \in DOMAIN pending,
                    pending[n].to = Network, pending[n].from \in Converter,
                    pending[n] # order[1].request
    PROVE  LET memo  == parse_memo(pending[n].memo)
               asked == parse_memo(order[1].request.memo)
               hops  == Len(asked.path) - Len(memo.path)
           IN  /\ memo.min_return = asked.min_return
               /\ memo.dest_account = asked.dest_account
               /\ memo.receiver_memo = IF asked.receiver_memo = Empty
                                       THEN "convert" ELSE asked.receiver_memo
               /\ memo.trader_account =
                    IF asked.trader_account = Empty
                    THEN order[1].request.from ELSE asked.trader_account
               /\ memo.path = SubSeq(asked.path, hops + 1, Len(asked.path))
               /\ IF tips = <<>> /\ asked.affiliate_account # Empty
                  THEN /\ memo.affiliate_account = asked.affiliate_account
                       /\ memo.affiliate_fee = asked.affiliate_fee
                  ELSE memo.affiliate_account = Empty
  BY Zenon DEF TermsSurvive
<1>1. /\ IsTransfer(r) /\ WellFormed(r.memo)
      /\ Requested \/ Onward(r, pending, ledger, start, tips)
  <2>1. pending # <<>>
    OBVIOUS
  <2> QED
    BY <2>1 DEF IInv, Underway
<1>2. Network \notin Converter
  BY ConversionsAssumption
<1>3. ~ Requested
  <2> SUFFICES ASSUME Requested PROVE FALSE
    OBVIOUS
  <2>1. pending = <<r>>
    BY DEF Requested
  <2>2. n = 1
    BY <2>1
  <2> QED
    BY <2>1, <2>2 DEF Request
<1>4. ~ Delivering(r, pending, ledger, start, tips)
  <2> SUFFICES ASSUME Delivering(r, pending, ledger, start, tips) PROVE FALSE
    OBVIOUS
  <2>1. pending = <<pending[1]>> /\ pending[1].from = Network
    BY DEF Delivering, Forwards
  <2>2. n = 1
    BY <2>1
  <2> QED
    BY <1>2, <2>1, <2>2
<1>5. ~ Tipping(r, pending, ledger, start, tips)
  <2> SUFFICES ASSUME Tipping(r, pending, ledger, start, tips) PROVE FALSE
    OBVIOUS
  <2>1. /\ pending = <<pending[1], pending[2]>> /\ pending[2].from = Network
        /\ \E x, t, q, m : pending[1] = transfer(Network, x, t, q, m)
    BY DEF Tipping, Forwards
  <2>2. pending[1].from = Network
    <3>1. ASSUME NEW b, NEW x, NEW t, NEW q, NEW m, b = transfer(Network, x, t, q, m)
          PROVE  b.from = Network
      BY <3>1 DEF transfer
    <3> QED
      BY <2>1, <3>1, Zenon
  <2>3. n = 1 \/ n = 2
    BY <2>1
  <2> QED
    BY <1>2, <2>1, <2>2, <2>3
<1>6. Replies(r, ledger, start, tips, pending[n])
  <2>1. CASE Returning(r, pending, ledger, start, tips)
    <3>1. pending = <<pending[1]>> /\ Replies(r, ledger, start, tips, pending[1])
      BY <2>1 DEF Returning
    <3>2. n = 1
      BY <3>1
    <3> QED
      BY <3>1, <3>2
  <2>2. CASE Balancing(r, pending, ledger, start, tips)
    <3>1. /\ pending = <<pending[1], pending[2]>>
          /\ Counterpart(pending[1], pending[2])
          /\ Replies(r, ledger, start, tips, pending[2])
      BY <2>2 DEF Balancing
    <3>2. pending[1].to \in Converter
      <4>1. pending[2].from \in Converter
        BY <3>1 DEF Replies
      <4>2. ASSUME NEW c, NEW t, NEW q
            PROVE  issue(c, t, q).to = c /\ retire(c, t, q).to = c
        BY DEF issue, retire
      <4> QED
        BY <3>1, <4>1, <4>2 DEF Counterpart
    <3>3. n = 1 \/ n = 2
      BY <3>1
    <3>4. n = 2
      BY <1>2, <3>2, <3>3
    <3> QED
      BY <3>1, <3>4
  <2> QED
    BY <1>1, <1>3, <1>4, <1>5, <2>1, <2>2 DEF Onward
<1> DEFINE m == parse_memo(pending[n].memo)
<1>7. /\ Swaps(r) /\ m.receiver_memo = Again(Asked(r).receiver_memo)
      /\ \E i \in 1..Len(P) : Carries(r, m, i, tips # <<>>)
  BY <1>6 DEF Replies
<1>8. PICK i \in 1..Len(P) : Carries(r, m, i, tips # <<>>)
  BY <1>7
<1>9. P \in Seq(Range(P)) /\ Len(P) \in Nat
  BY <1>1, <1>7, PathFacts DEF Swaps
<1> HIDE DEF r, P, m
<1>10. /\ i \in 0..Len(P) /\ m.path = SubSeq(P, i + 1, Len(P))
       /\ m.min_return = Asked(r).min_return
       /\ m.dest_account = Asked(r).dest_account
       /\ m.trader_account = Trader(r)
       /\ IF tips # <<>> \/ Asked(r).affiliate_account = Empty
          THEN m.affiliate_account = Empty
          ELSE /\ m.affiliate_account = Asked(r).affiliate_account
               /\ m.affiliate_fee = Asked(r).affiliate_fee
  BY <1>8 DEF Carries, P
<1>11. Len(P) - Len(m.path) = i
  <2>1. Len(SubSeq(P, i + 1, Len(P))) = Len(P) - i
    BY <1>9, <1>10, RestOfPath
  <2> QED
    BY <1>9, <1>10, <2>1
<1>12. m.path = SubSeq(P, Len(P) - Len(m.path) + 1, Len(P))
  BY <1>10, <1>11
<1>13. Asked(r) = parse_memo(order[1].request.memo) /\ r = order[1].request
  BY DEF r, Request, Asked
<1> QED
  BY <1>7, <1>10, <1>12, <1>13 DEF P, m, Trader, Again

(* The terms of the trader survive every hop: what a converter sends back  *)
(* to the network has the minimum, the receiver and its memo, the trader   *)
(* and what is left of the path, for paths of any length.                  *)
THEOREM TermsAlwaysSurvive == Spec => []TermsSurvive
BY Invariant, IInvTerms, PTL

LEMMA IInvPaid == ASSUME IInv PROVE AffiliatePaidOnce
<1>1. CASE pending = <<>>
  <2>1. tips = <<>>
    BY <1>1 DEF IInv, TypeOK
  <2> QED
    BY <2>1 DEF AffiliatePaidOnce
<1>2. CASE pending # <<>> /\ tips = <<>>
  BY <1>2 DEF AffiliatePaidOnce
<1>3. CASE pending # <<>> /\ tips # <<>>
  <2>1. tips = <<tips[1]>> /\ Due(tips[1].token, tips[1].fee, tips[1].net)
    BY <1>3 DEF IInv, Underway, Tips
  <2>a. PICK x : tips = <<x>>
    BY <2>1, Zenon
  <2>2. Len(tips) <= 1 /\ \A i \in DOMAIN tips : i = 1
    BY ONLY <2>a
  <2>3. /\ ContractOf[tips[1].token] = network_settings.network_token
        /\ tips[1].fee * MAX_FEE
             < network_settings.max_fee * (tips[1].fee + tips[1].net)
    BY <2>1, Zenon DEF Due
  <2>4. ASSUME NEW i \in DOMAIN tips
        PROVE  /\ ContractOf[tips[i].token] = network_settings.network_token
               /\ tips[i].fee * MAX_FEE
                    < network_settings.max_fee * (tips[i].fee + tips[i].net)
    BY <2>2, <2>3, Zenon
  <2> QED
    BY <2>2, <2>4, Zenon DEF AffiliatePaidOnce
<1> QED
  BY <1>1, <1>2, <1>3

(* The affiliate is paid at most once in a transaction, in the network's   *)
(* token, and less than the maximum share, however often the path comes    *)
(* through BNT.                                                            *)
THEOREM AffiliatePaidAtMostOnce == Spec => []AffiliatePaidOnce
BY Invariant, IInvPaid, PTL

(* How a transaction ends.                                                 *)
LEMMA Ending ==
  ASSUME IInv, [Next]_vars, Ends
  PROVE  /\ Underway /\ pending # <<>> /\ pending' = <<>>
         /\ UNCHANGED <<settings, reserves, network_settings>>
         /\ start \in Ledger
         /\ \/ start' = start
            \/ LET a == Head(pending)
               IN  /\ Succeeds(a) /\ start' = Executed(a)
                   /\ Sends(start', a) \o Tail(pending) = <<>>
                   /\ start' \in Ledger
                   /\ Guarded(Request, start', start, <<Request>>)
                   /\ Stays(Request, start', start)
<1> DEFINE a == Head(pending)
<1>1. order # <<>> /\ order' = <<>>
  BY DEF Ends
<1>2. pending # <<>> /\ Underway /\ LedgerOK(start)
  BY <1>1 DEF IInv, TypeOK
<1>3. start \in Ledger
  BY <1>2 DEF LedgerOK
<1>4. Execute \/ Abort
  <2>1. order' # order
    BY <1>1
  <2>2. ~ UNCHANGED vars
    BY <2>1 DEF vars, transactionVars
  <2>3. ~ Administer
    BY <2>1 DEF Administer, transactionVars
  <2>4. ~ \E from, to \in Account, t \in Symbol, q \in Quantity :
            \E text \in Text[from][to] : Begin(from, to, t, q, text)
    BY <1>2 DEF Begin
  <2> QED
    BY <2>2, <2>3, <2>4 DEF Next
<1>5. CASE Abort
  BY <1>2, <1>3, <1>5 DEF Abort
<1>6. CASE Execute
  <2> DEFINE M == Executed(a)
             q == Sends(M, a) \o Tail(pending)
  <2>1. /\ Succeeds(a) /\ pending' = q
        /\ (q = <<>> => start' = M)
        /\ (q # <<>> => order' = order)
        /\ UNCHANGED <<settings, reserves, network_settings>>
    BY <1>6 DEF Execute
  <2>2. Keeps(Request, M, q, tips \o Tip(a))
    BY <1>2, <2>1, ExecuteKeeps
  <2> HIDE DEF M, q
  <2>3. q = <<>>
    BY <1>1, <2>1
  <2>4. /\ Guarded(Request, M, start, <<Request>>) /\ Stays(Request, M, start)
        /\ M \in Ledger
    BY <2>2, <2>3 DEF Keeps, LedgerOK
  <2>5. start' = M
    BY <2>1, <2>3
  <2> QED
    BY <1>2, <1>3, <2>1, <2>3, <2>4, <2>5 DEF M, q
<1> QED
  BY <1>4, <1>5, <1>6

(* Nothing of what is sent to the network to be converted stays there.     *)
THEOREM NothingStays == Spec => NetworkKeepsNothing
<1>1. ASSUME IInv, [Next]_vars, Ends, NEW t \in Symbol,
             start'.balance[t][Network] # start.balance[t][Network]
      PROVE  order[1].request.from \in SystemAccount
  <2>1. Stays(Request, start', start)
    BY <1>1, Ending
  <2> QED
    BY <1>1, <2>1 DEF Stays, Request
<1>2. IInv /\ [Next]_vars =>
        [Ends => \A t \in Symbol :
           start'.balance[t][Network] # start.balance[t][Network] =>
             order[1].request.from \in SystemAccount]_vars
  BY <1>1
<1> QED
  BY <1>2, Invariant, PTL DEF Spec, NetworkKeepsNothing

(* A converter that may not sell a token loses none of it, and issues none *)
(* of its smart tokens, in a transaction it has not begun itself: neither  *)
(* at the end of a path nor on the way.                                    *)
THEOREM SwitchesAlwaysHold == Spec => SwitchesHold
<1> DEFINE Held(c, t) ==
             LET smart == HasSettings(c) /\ t = settings[c].smart
             IN  (order[1].request.from # c
                    /\ \/ start'.balance[t][c] < start.balance[t][c]
                       \/ /\ smart /\ start.issuer[t] = c
                          /\ start'.supply[t] > start.supply[t])
                 => /\ settings[c].enabled
                    /\ IF smart THEN settings[c].smart_enabled
                       ELSE reserves[c][t].sale_enabled
<1>1. ASSUME IInv, [Next]_vars, Ends, NEW c \in Converter, NEW t \in Symbol
      PROVE  Held(c, t)
  <2> DEFINE r == Request
  <2>1. /\ IsTransfer(r) /\ start \in Ledger
        /\ \/ start' = start
           \/ start' \in Ledger /\ Guarded(r, start', start, <<r>>)
    BY <1>1, Ending DEF Underway
  <2>2. c \in Account
    BY LegacyAssumption
  <2>3. /\ start.balance[t][c] \in Int /\ start.supply[t] \in Int
        /\ start'.balance[t][c] \in Int /\ start'.supply[t] \in Int
    BY <2>1, <2>2 DEF Ledger
  <2>4. Owed(<<r>>, t, c) = 0
    BY <2>1, IsTransferFields DEF Owed
  <2>5. c # r.from /\ ~ Sells(c, t) =>
          /\ start'.balance[t][c] >= start.balance[t][c]
          /\ (HasSettings(c) /\ t = settings[c].smart /\ start.issuer[t] = c)
               => start'.supply[t] <= start.supply[t]
    <3>1. CASE start' = start
      BY <2>3, <3>1
    <3>2. CASE Guarded(r, start', start, <<r>>)
      <4>1. c # r.from /\ ~ Sells(c, t) =>
              /\ start'.balance[t][c] - Owed(<<r>>, t, c) >= start.balance[t][c]
              /\ (HasSettings(c) /\ t = settings[c].smart /\ start.issuer[t] = c)
                   => start'.supply[t] <= start.supply[t]
        BY <3>2 DEF Guarded
      <4> QED
        BY <2>3, <2>4, <4>1
    <3> QED
      BY <2>1, <3>1, <3>2
  <2>6. r.from = order[1].request.from
    BY DEF Request
  <2> HIDE DEF r
  <2> QED
    BY <2>3, <2>5, <2>6 DEF Sells
<1>2. IInv /\ [Next]_vars =>
        [Ends => \A c \in Converter, t \in Symbol : Held(c, t)]_vars
  BY <1>1
<1> QED
  BY <1>2, Invariant, PTL DEF Spec, SwitchesHold

----------------------------------------------------------------------------
(* The refinement of Exchange.                                             *)

(* The converters have been, and will be, set up for this network.  (With  *)
(* another one, they convert for whoever is named there, without the       *)
(* network, and nobody has promised anything.)                             *)
OneNetwork ==
  /\ \A c \in Converter : InitialSettings[c].network \in {Network, NoAccount}
  /\ \A row \in Rows : row.network \in {Network, NoAccount}

NetInv ==
  /\ settings \in [Converter -> Settings]
  /\ \A c \in Converter : settings[c].network \in {Network, NoAccount}

(* Settling, from the ledger S to the ledger M, on the terms x.            *)
Settled(x, S, M) ==
  \E k \in x.gets, n \in (0..MaxAmount) \cap (x.least..x.most), fee \in 0..MaxAmount :
    \A j \in Symbol, h \in Holders :
      M.balance[j][h] = S.balance[j][h]
        - (IF j = x.pays /\ h = x.payer THEN x.amount ELSE 0)
        + (IF j = k /\ h = x.receiver THEN n ELSE 0)
        + (IF j \in x.feeKinds /\ h = x.affiliate THEN fee ELSE 0)

(* Any path that reaches an account that is no converter is promised to    *)
(* end there.                                                              *)
LEMMA FirstStray ==
  ASSUME NEW P, P \in Seq(Range(P)), NEW i \in 0..Len(P), i % 2 = 0,
         \A k \in 1..i : k % 2 = 1 => P[k].account \in Converter
  PROVE  /\ i = Len(P) => Elsewhere(P) = {}
         /\ (i < Len(P) /\ P[i + 1].account \notin Converter) =>
              Elsewhere(P) # {} /\ Min(Elsewhere(P)) = i + 1
<1> DEFINE S == Elsewhere(P)
<1>1. Len(P) \in Nat /\ DOMAIN P = 1..Len(P)
  OBVIOUS
<1>2. S = {k \in 1..Len(P) : k % 2 = 1 /\ P[k].account \notin Converter}
  BY <1>1 DEF Elsewhere
<1>3. i = Len(P) => S = {}
  BY <1>1, <1>2
<1>4. ASSUME i < Len(P), P[i + 1].account \notin Converter
      PROVE  S # {} /\ Min(S) = i + 1
  <2>1. i + 1 \in 1..Len(P) /\ (i + 1) % 2 = 1
    BY <1>1, <1>4
  <2>2. i + 1 \in S
    BY <1>2, <1>4, <2>1
  <2>3. ASSUME NEW k \in S
        PROVE  k \in Int /\ i + 1 <= k
    <3>1. k \in 1..Len(P) /\ k % 2 = 1 /\ P[k].account \notin Converter
      BY <1>2
    <3>2. k \notin 1..i
      BY <3>1
    <3> QED
      BY <1>1, <3>1, <3>2
  <2> HIDE DEF S
  <2>4. Min(S) \in S /\ \A k \in S : Min(S) <= k
    BY <2>2, <2>3 DEF Min
  <2>5. Min(S) <= i + 1 /\ i + 1 <= Min(S) /\ Min(S) \in Int
    BY <2>2, <2>3, <2>4
  <2> QED
    BY <2>2, <2>5
<1> QED
  BY <1>3, <1>4

LEMMA AtLeast ==
  ASSUME NEW n \in Int, n >= 1, NEW x \in Nat, n >= x
  PROVE  n >= Max({1, x}) /\ Max({1, x}) \in Int
<1> DEFINE S == {1, x}
<1>1. \E k \in S : \A j \in S : k >= j
  <2>1. CASE x >= 1
    BY <2>1
  <2>2. CASE ~ (x >= 1)
    BY <2>2
  <2> QED
    BY <2>1, <2>2
<1>2. Max(S) \in S
  BY <1>1 DEF Max
<1> QED
  BY <1>2

(* The terms of a transfer nobody converts, and of one to be converted.    *)
LEMMA TermsAre ==
  ASSUME NEW r
  PROVE  LET P == Asked(r).path
         IN  /\ Terms(r).payer = r.from /\ Terms(r).pays = r.token
             /\ Terms(r).amount = r.quantity
             /\ Terms(r).receiver =
                  IF ~ Swaps(r) THEN r.to
                  ELSE IF Elsewhere(P) = {} THEN Asked(r).dest_account
                  ELSE P[Min(Elsewhere(P))].account
             /\ Terms(r).gets =
                  IF ~ Swaps(r) \/ P = <<>> THEN {r.token}
                  ELSE IF Elsewhere(P) = {} THEN {t \in Symbol : CodeOf[t] = P[Len(P)]}
                  ELSE Symbol
             /\ Terms(r).least =
                  IF ~ Swaps(r) THEN r.quantity
                  ELSE IF Elsewhere(P) = {} THEN Max({1, MinReturn(Asked(r))})
                  ELSE 1
             /\ Terms(r).most = IF Swaps(r) THEN MaxAmount ELSE r.quantity
             /\ Terms(r).affiliate =
                  IF Swaps(r) THEN Asked(r).affiliate_account ELSE Empty
             /\ Terms(r).feeKinds =
                  {t \in Symbol : /\ CodeOf[t] = BNT
                                  /\ ContractOf[t] = network_settings.network_token}
<1> DEFINE P == Asked(r).path
           R == IF ~ Swaps(r) THEN r.to
                ELSE IF Elsewhere(P) = {} THEN Asked(r).dest_account
                ELSE P[Min(Elsewhere(P))].account
           G == IF ~ Swaps(r) \/ P = <<>> THEN {r.token}
                ELSE IF Elsewhere(P) = {} THEN {t \in Symbol : CodeOf[t] = P[Len(P)]}
                ELSE Symbol
           N == IF ~ Swaps(r) THEN r.quantity
                ELSE IF Elsewhere(P) = {} THEN Max({1, MinReturn(Asked(r))})
                ELSE 1
           K == {t \in Symbol : /\ CodeOf[t] = BNT
                                /\ ContractOf[t] = network_settings.network_token}
           M == IF Swaps(r) THEN MaxAmount ELSE r.quantity
           A == IF Swaps(r) THEN Asked(r).affiliate_account ELSE Empty
<1>1. Terms(r) = [payer |-> r.from, pays |-> r.token, amount |-> r.quantity,
                  receiver |-> R, gets |-> G, least |-> N, most |-> M,
                  affiliate |-> A, feeKinds |-> K]
  BY Zenon DEF Terms, Swaps, Asked
<1> HIDE DEF R, G, N, K, M, A
<1>2. /\ Terms(r).payer = r.from /\ Terms(r).pays = r.token
      /\ Terms(r).amount = r.quantity
      /\ Terms(r).receiver = R /\ Terms(r).gets = G /\ Terms(r).least = N
      /\ Terms(r).most = M /\ Terms(r).affiliate = A /\ Terms(r).feeKinds = K
  BY <1>1
<1> QED
  BY <1>2, Zenon DEF R, G, N, K, M, A

LEMMA PlainTerms ==
  ASSUME NEW r, ~ Swaps(r)
  PROVE  /\ Terms(r).payer = r.from /\ Terms(r).pays = r.token
         /\ Terms(r).amount = r.quantity /\ Terms(r).receiver = r.to
         /\ Terms(r).gets = {r.token}
         /\ Terms(r).least = r.quantity /\ Terms(r).most = r.quantity
         /\ Terms(r).affiliate = Empty
BY TermsAre

LEMMA SwapTerms ==
  ASSUME NEW r, Swaps(r)
  PROVE  LET P == Asked(r).path
         IN  /\ Terms(r).payer = r.from /\ Terms(r).pays = r.token
             /\ Terms(r).amount = r.quantity
             /\ Terms(r).most = MaxAmount
             /\ Terms(r).affiliate = Asked(r).affiliate_account
             /\ Terms(r).feeKinds =
                  {t \in Symbol : /\ CodeOf[t] = BNT
                                  /\ ContractOf[t] = network_settings.network_token}
             /\ Elsewhere(P) = {} =>
                  /\ Terms(r).receiver = Asked(r).dest_account
                  /\ Terms(r).least = Max({1, MinReturn(Asked(r))})
                  /\ Terms(r).gets =
                       IF P = <<>> THEN {r.token}
                       ELSE {t \in Symbol : CodeOf[t] = P[Len(P)]}
             /\ (Elsewhere(P) # {} /\ P # <<>>) =>
                  /\ Terms(r).receiver = P[Min(Elsewhere(P))].account
                  /\ Terms(r).least = 1
                  /\ Terms(r).gets = Symbol
BY TermsAre

LEMMA ConvertedAnswers ==
  ASSUME NEW L, NEW c, NEW t, NEW q, NEW text
  PROVE  Converted(L, c, t, q, text) # <<>>
<1> DEFINE memo == parse_memo(text)
           u    == TokenOf(c, memo.path[2])
           n    == Return(L, c, t, u, q)
           rest == build_memo([memo EXCEPT !.path = SubSeq(@, 3, Len(@))])
           d    == transfer(c, settings[c].network, u, n, rest)
           s    == IF t = settings[c].smart THEN <<retire(c, t, q)>> ELSE <<>>
           i    == IF u = settings[c].smart THEN <<issue(c, u, n)>> ELSE <<>>
<1>1. Converted(L, c, t, q, text) = s \o i \o <<d>>
  BY Zenon DEF Converted
<1>2. s = <<>> \/ \E b : s = <<b>>
  OBVIOUS
<1>3. i = <<>> \/ \E b : i = <<b>>
  OBVIOUS
<1> HIDE DEF s, i, d
<1>4. s \o i \o <<d>> # <<>>
  BY <1>2, <1>3
<1> QED
  BY <1>1, <1>4

(* A transaction of one transfer is settled by it.                         *)
LEMMA RequestSettles ==
  ASSUME LedgerOK(ledger), LedgerOK(start), NEW r, IsTransfer(r),
         ledger = start, pending = <<r>>, Guarded(r, ledger, start, pending),
         Succeeds(r), Sends(Executed(r), r) = <<>>
  PROVE  Settled(Terms(r), start, Executed(r))
<1> DEFINE M == Executed(r)
<1>1. /\ M \in Ledger /\ start \in Ledger /\ Moves(start, M, r)
      /\ r.to = Network =>
           NetworkAccepts(M, r.from, r.token, r.quantity, r.memo)
      /\ r.to = Network =>
           Sends(M, r) = NetworkSends(M, r.from, r.token, r.quantity, r.memo)
  <2>1. pending[1] = r /\ ledger.issuer = start.issuer
    OBVIOUS
  <2> QED
    BY <2>1, TransferStep
<1>2. ASSUME Swaps(r) PROVE FALSE
  <2> DEFINE m == parse_memo(r.memo)
             fee == IF Entering(m) THEN 0 ELSE AffiliateFee(r.token, r.quantity, m)
             s == PayAffiliate(r.token, fee, m)
  <2>1. r.to = Network /\ r.from \notin SystemAccount
    BY <1>2 DEF Swaps
  <2>2. PICK d : Sends(M, r) = s \o <<d>>
    BY <1>1, <2>1 DEF NetworkSends
  <2> HIDE DEF m, fee
  <2>3. s = <<>> \/ \E b : s = <<b>>
    BY Zenon DEF PayAffiliate
  <2> HIDE DEF s
  <2>4. s \o <<d>> # <<>>
    BY <2>3, Concatenations
  <2> QED
    BY <2>2, <2>4
<1>3. /\ Terms(r).payer = r.from /\ Terms(r).pays = r.token
      /\ Terms(r).amount = r.quantity /\ Terms(r).receiver = r.to
      /\ Terms(r).gets = {r.token}
      /\ Terms(r).least = r.quantity /\ Terms(r).most = r.quantity
      /\ Terms(r).affiliate = Empty
  BY <1>2, PlainTerms
<1> DEFINE x == Terms(r)
<1> HIDE DEF M, x
<1>4. /\ r.quantity \in (0..MaxAmount) \cap (x.least..x.most)
      /\ r.token \in x.gets /\ 0 \in 0..MaxAmount
  BY <1>1, <1>3, MaxAmountAssumption DEF Moves, x
<1>5. ASSUME NEW j \in Symbol, NEW h \in Holders
      PROVE  M.balance[j][h] = start.balance[j][h]
               - (IF j = x.pays /\ h = x.payer THEN x.amount ELSE 0)
               + (IF j = r.token /\ h = x.receiver THEN r.quantity ELSE 0)
               + (IF j \in x.feeKinds /\ h = x.affiliate THEN 0 ELSE 0)
  <2>1. h \in Account
    BY DEF Holders
  <2>2. start.balance[j][h] \in Int /\ r.quantity \in Int
    BY <1>1, <2>1 DEF Ledger, Moves
  <2>3. M.balance[j][h] = start.balance[j][h]
          - (IF j = r.token /\ h = r.from THEN r.quantity ELSE 0)
          + (IF j = r.token /\ h = r.to THEN r.quantity ELSE 0)
    BY <1>1, <2>1 DEF Moves
  <2>4. x.payer = r.from /\ x.pays = r.token /\ x.amount = r.quantity
        /\ x.receiver = r.to
    BY <1>3 DEF x
  <2> QED
    BY <2>2, <2>3, <2>4
<1> QED
  BY <1>4, <1>5 DEF Settled, M, x

(* One that was converted is settled by the last transfer of the network.  *)
LEMMA DeliverySettles ==
  ASSUME TypeOK, LedgerOK(start), ledger.issuer = start.issuer,
         NEW r, IsTransfer(r), r.from # Network, WellFormed(r.memo),
         Guarded(r, ledger, start, pending), Tips(r, tips),
         NEW a, pending = <<a>>, Delivering(r, pending, ledger, start, tips),
         Succeeds(a), Sends(Executed(a), a) = <<>>
  PROVE  Settled(Terms(r), start, Executed(a))
<1> DEFINE M == Executed(a)
           P == Asked(r).path
           x == Terms(r)
<1>1. /\ IsTransfer(a) /\ a.from = Network /\ Swaps(r)
      /\ Forwards(r, a, tips # <<>>)
      /\ M \in Ledger /\ start \in Ledger
      /\ a.quantity \in 1..MaxAmount
      /\ a.to \in Converter =>
           ConverterAccepts(M, a.to, a.from, a.token, a.quantity, a.memo)
      /\ a.to \in Converter => Sends(M, a) =
           ConverterSends(M, a.to, a.from, a.token, a.quantity, a.memo)
      /\ Delivered(r, M, start, tips, a)
  BY DeliveryFacts, ConversionsAssumption
<1>2. P \in Seq(Range(P)) /\ Len(P) \in Nat
  BY <1>1, PathFacts DEF Swaps
<1> HIDE DEF M
(* A converter that takes the tokens for the network answers.              *)
<1>3. a.to \in Converter => ~ ValidMemo(a.memo)
  <2> SUFFICES ASSUME a.to \in Converter, ValidMemo(a.memo)
               PROVE  FALSE
    OBVIOUS
  <2>1. a.memo # Plain("setup")
    BY PlainDiffers
  <2>2. a.from \notin SystemAccount
    BY <1>1, NetworkAssumption
  <2>3. Sends(M, a) = Converted(M, a.to, a.token, a.quantity, a.memo)
    BY <1>1, <2>1, <2>2 DEF ConverterSends
  <2> QED
    BY <2>3, ConvertedAnswers DEF M
<1>4. PICK i \in 0..Len(P) :
        /\ Comes(r, a.token, i)
        /\ \/ /\ i < Len(P)
              /\ a.to = P[i + 1].account
              /\ ValidMemo(a.memo)
              /\ Carries(r, parse_memo(a.memo), i, tips # <<>>)
           \/ /\ i = Len(P) /\ i % 2 = 0 /\ Passed(r, i)
              /\ a.to = Asked(r).dest_account
              /\ a.quantity >= MinReturn(Asked(r))
  BY <1>1 DEF Forwards
<1>5. /\ x.payer = r.from /\ x.pays = r.token /\ x.amount = r.quantity
      /\ x.most = MaxAmount
      /\ x.affiliate = Asked(r).affiliate_account
      /\ x.feeKinds =
           {t \in Symbol : /\ CodeOf[t] = BNT
                           /\ ContractOf[t] = network_settings.network_token}
  BY <1>1, SwapTerms
<1>6. /\ x.receiver = a.to /\ a.token \in x.gets
      /\ a.quantity \in (0..MaxAmount) \cap (x.least..x.most)
  <2>1. CASE i < Len(P) /\ a.to = P[i + 1].account /\ ValidMemo(a.memo)
             /\ Carries(r, parse_memo(a.memo), i, tips # <<>>)
    <3>1. i % 2 = 0 /\ Passed(r, i)
      BY <2>1 DEF Carries
    <3>2. P[i + 1].account \notin Converter
      BY <1>3, <2>1
    <3>3. Elsewhere(P) # {} /\ Min(Elsewhere(P)) = i + 1
      BY <1>2, <2>1, <3>1, <3>2, FirstStray DEF Passed
    <3>4. P # <<>>
      BY <1>2, <2>1, EmptySeq
    <3>5. x.receiver = P[i + 1].account /\ x.least = 1 /\ x.gets = Symbol
      BY <1>1, <3>3, <3>4, SwapTerms
    <3>6. a.token \in Symbol
      BY <1>1 DEF IsTransfer
    <3> HIDE DEF x, P
    <3> QED
      BY <1>1, <1>5, <2>1, <3>5, <3>6, MaxAmountAssumption
  <2>2. CASE /\ i = Len(P) /\ i % 2 = 0 /\ Passed(r, i)
             /\ a.to = Asked(r).dest_account
             /\ a.quantity >= MinReturn(Asked(r))
    <3>1. Elsewhere(P) = {}
      BY <1>2, <2>2, FirstStray DEF Passed
    <3>2. /\ x.receiver = Asked(r).dest_account
          /\ x.least = Max({1, MinReturn(Asked(r))})
          /\ x.gets = IF P = <<>> THEN {r.token}
                      ELSE {t \in Symbol : CodeOf[t] = P[Len(P)]}
      BY <1>1, <3>1, SwapTerms
    <3>3. a.token \in x.gets
      <4>1. a.token \in Symbol
        BY <1>1 DEF IsTransfer
      <4>2. P = <<>> <=> Len(P) = 0
        BY <1>2, EmptySeq
      <4> HIDE DEF x
      <4> QED
        BY <1>4, <2>2, <3>2, <4>1, <4>2 DEF Comes
    <3>4. MinReturn(Asked(r)) \in Nat
      BY NetworkAssumption DEF MinReturn
    <3> DEFINE m == Max({1, MinReturn(Asked(r))})
    <3>5. a.quantity >= m /\ m \in Int
      BY <1>1, <2>2, <3>4, AtLeast
    <3> HIDE DEF x, P, m
    <3>6. x.least = m
      BY <3>2 DEF m
    <3> QED
      BY <1>1, <1>5, <2>2, <3>2, <3>3, <3>5, <3>6, MaxAmountAssumption
  <2> QED
    BY <1>4, <2>1, <2>2
<1> DEFINE fee == IF tips = <<>> THEN 0 ELSE tips[1].fee
<1>7. fee \in 0..MaxAmount
  <2>1. tips # <<>> => tips[1].fee \in Nat /\ tips[1].fee <= MaxAmount
    BY DEF Tips, Due
  <2> QED
    BY <2>1, MaxAmountAssumption
(* There is only one token of that name and contract.                      *)
<1>8. ASSUME NEW j \in Symbol, NEW h \in Holders
      PROVE  Tipped(r, tips, j, h) =
               IF j \in x.feeKinds /\ h = x.affiliate THEN fee ELSE 0
  <2>1. CASE tips = <<>>
    BY <2>1 DEF Tipped
  <2>2. CASE tips # <<>>
    <3>1. /\ tips[1].token \in Symbol /\ CodeOf[tips[1].token] = BNT
          /\ ContractOf[tips[1].token] = network_settings.network_token
      BY <2>2, Zenon DEF Tips, Due
    <3>2. j = tips[1].token <=> j \in x.feeKinds
      BY <1>5, <3>1, ChainAssumption
    <3>3. x.affiliate = Asked(r).affiliate_account
      BY <1>5
    <3> HIDE DEF x
    <3> QED
      BY <2>2, <3>2, <3>3 DEF Tipped
  <2> QED
    BY <2>1, <2>2
<1> HIDE DEF x, fee
<1>9. ASSUME NEW j \in Symbol, NEW h \in Holders
      PROVE  M.balance[j][h] = start.balance[j][h]
               - (IF j = x.pays /\ h = x.payer THEN x.amount ELSE 0)
               + (IF j = a.token /\ h = x.receiver THEN a.quantity ELSE 0)
               + (IF j \in x.feeKinds /\ h = x.affiliate THEN fee ELSE 0)
  <2> DEFINE t == Tipped(r, tips, j, h)
             o == Offered(r, j, h)
             n == IF j = a.token /\ h = a.to THEN a.quantity ELSE 0
  <2>1. M.balance[j][h] = start.balance[j][h] - o + t + n
    BY <1>1 DEF Delivered
  <2>2. t = IF j \in x.feeKinds /\ h = x.affiliate THEN fee ELSE 0
    BY <1>8
  <2>3. o = IF j = x.pays /\ h = x.payer THEN x.amount ELSE 0
    BY <1>5 DEF Offered
  <2>4. n = IF j = a.token /\ h = x.receiver THEN a.quantity ELSE 0
    BY <1>6
  <2>5. h \in Account
    BY DEF Holders
  <2>6. /\ start.balance[j][h] \in Int /\ o \in Int /\ n \in Int /\ t \in Int
    <3>1. r.quantity \in Int /\ a.quantity \in Int /\ fee \in Int
      BY <1>1, <1>7 DEF IsTransfer
    <3> QED
      BY <1>1, <2>2, <2>5, <3>1 DEF Ledger, Offered
  <2> HIDE DEF t, o, n
  <2>7. M.balance[j][h] = start.balance[j][h] - o + n + t
    BY <2>1, <2>6
  <2> QED
    BY <2>2, <2>3, <2>4, <2>7, Zenon
<1> QED
  BY <1>6, <1>7, <1>9 DEF Settled, M, x

LEMMA OnwardSends ==
  ASSUME NEW r, NEW p, NEW L, NEW S, NEW T, Onward(r, p, L, S, T)
  PROVE  (\E b : p = <<b>>) \/ (\E b, d : p = <<b, d>>)
<1>1. p = <<p[1]>> \/ p = <<p[1], p[2]>>
  BY Zenon DEF Onward, Delivering, Tipping, Balancing, Returning
<1> QED
  BY <1>1, Zenon

(* However a transaction succeeds, it is settled.                          *)
LEMMA ExecuteSettles ==
  ASSUME IInv, NetInv, Execute, pending' = <<>>
  PROVE  Settled(Terms(Request), start, start')
<1> DEFINE r == Request
           a == Head(pending)
           M == Executed(a)
           s == Sends(M, a)
<1>1. /\ TypeOK /\ LedgerOK(start) /\ LedgerOK(ledger) /\ IsTransfer(r)
      /\ r.from # Network
      /\ WellFormed(r.memo) /\ ledger.issuer = start.issuer
      /\ Guarded(r, ledger, start, pending) /\ Tips(r, tips)
      /\ Requested \/ Onward(r, pending, ledger, start, tips)
  BY DEF IInv, Underway, Execute, TypeOK
<1>2. Succeeds(a) /\ s \o Tail(pending) = <<>> /\ start' = M
  BY DEF Execute
<1> HIDE DEF r
<1>3. ASSUME NEW x, pending = <<x>>, NEW V,
             Keeps(r, Executed(x), Sends(Executed(x), x), V)
      PROVE  Sends(Executed(x), x) = <<>>
  <2>1. a = x /\ Tail(pending) = <<>>
    BY <1>3
  <2> DEFINE q == Sends(Executed(x), x)
  <2>2. q \o <<>> = <<>>
    BY <1>2, <2>1
  <2> HIDE DEF q
  <2>3. ASSUME q # <<>> PROVE FALSE
    <3>1. Keeps(r, Executed(x), q, V)
      BY <1>3 DEF q
    <3>2. (\E b : q = <<b>>) \/ (\E b, d : q = <<b, d>>)
      BY <2>3, <3>1, OnwardSends, Zenon DEF Keeps
    <3>3. ASSUME NEW b, q = <<b>> PROVE FALSE
      BY <2>2, <3>3
    <3>4. ASSUME NEW b, NEW d, q = <<b, d>> PROVE FALSE
      BY <2>2, <3>4
    <3> QED
      BY <3>2, <3>3, <3>4
  <2> QED
    BY <2>3 DEF q
<1>4. ASSUME NEW x, NEW d, pending = <<x, d>>
      PROVE  FALSE
  <2>1. Tail(pending) = <<d>>
    BY <1>4
  <2>2. s \o <<d>> = <<>>
    BY <1>2, <2>1
  <2>3. s = <<>> \/ s # <<>>
    OBVIOUS
  <2> QED
    BY <1>4, <2>2
<1>5. ASSUME Requested
      PROVE  Settled(Terms(r), start, M)
  <2>1. pending = <<r>> /\ ledger = start /\ tips = <<>>
    BY <1>5 DEF Requested, r
  <2>2. a = r
    BY <2>1
  <2> HIDE DEF a
  <2>3. Keeps(r, Executed(r), Sends(Executed(r), r), <<>>)
    BY <1>1, <1>2, <2>1, <2>2, AfterRequest
  <2>4. Sends(Executed(r), r) = <<>>
    BY <1>3, <2>1, <2>3
  <2> QED
    BY <1>1, <1>2, <2>1, <2>2, <2>4, RequestSettles
<1>6. ASSUME Delivering(r, pending, ledger, start, tips)
      PROVE  Settled(Terms(r), start, M)
  <2>1. PICK x : pending = <<x>>
    BY <1>6 DEF Delivering
  <2>2. a = x
    BY <2>1
  <2> HIDE DEF a
  <2>3. Keeps(r, Executed(x), Sends(Executed(x), x), tips)
    BY <1>1, <1>2, <1>6, <2>1, <2>2, AfterDelivery
  <2>4. Sends(Executed(x), x) = <<>>
    BY <1>3, <2>1, <2>3
  <2> QED
    BY <1>1, <1>2, <1>6, <2>1, <2>2, <2>4, DeliverySettles
(* A converter's reply goes to the network, which has something to send.   *)
<1>7. ~ Returning(r, pending, ledger, start, tips)
  <2> SUFFICES ASSUME Returning(r, pending, ledger, start, tips)
               PROVE  FALSE
    OBVIOUS
  <2>1. PICK x : pending = <<x>>
    BY DEF Returning
  <2>2. a = x
    BY <2>1
  <2> HIDE DEF a
  <2>3. /\ Keeps(r, Executed(x), Sends(Executed(x), x), tips)
        /\ Sends(Executed(x), x) = <<>> => x.to # Network
    BY <1>1, <1>2, <2>1, <2>2, AfterReply
  <2>4. x.to # Network
    BY <1>3, <2>1, <2>3
  <2>5. /\ x.from \in Converter /\ HasSettings(x.from)
        /\ x.to = settings[x.from].network
    <3>1. pending[1] = x
      BY <2>1
    <3> QED
      BY <3>1, Zenon DEF Returning, Replies
  <2> QED
    BY <2>4, <2>5 DEF NetInv, HasSettings
<1>8. /\ ~ Tipping(r, pending, ledger, start, tips)
      /\ ~ Balancing(r, pending, ledger, start, tips)
  <2>1. (\E x, d : pending = <<x, d>>) => FALSE
    BY <1>4
  <2> QED
    BY <2>1, Zenon DEF Tipping, Balancing
<1> QED
  BY <1>1, <1>2, <1>5, <1>6, <1>7, <1>8 DEF Onward, r

(* The converters stay set up for the network.                             *)
LEMMA NetStep ==
  ASSUME OneNetwork, NetInv, [Next]_vars
  PROVE  NetInv'
<1>1. CASE UNCHANGED settings
  BY <1>1 DEF NetInv
<1>2. ASSUME NEW c \in Converter, NEW row \in Rows, InitSettings(c, row)
      PROVE  NetInv'
  <2>1. settings' = [settings EXCEPT ![c] = row]
        /\ row \in Settings /\ row.network \in {Network, NoAccount}
    BY <1>2, ConversionsAssumption DEF InitSettings, OneNetwork
  <2> QED
    BY <2>1 DEF NetInv
<1>3. ASSUME NEW c \in Converter, NEW smart \in BOOLEAN, NEW on \in BOOLEAN,
             NEW f \in Fee, Update(c, smart, on, f)
      PROVE  NetInv'
  <2> DEFINE row == [[[settings[c] EXCEPT !.smart_enabled = smart]
                                    EXCEPT !.enabled = on] EXCEPT !.fee = f]
  <2>1. settings' = [settings EXCEPT ![c] = row]
    BY <1>3 DEF Update, NetInv
  <2>2. settings[c] \in Settings /\ f <= settings[c].max_fee
    BY <1>3 DEF NetInv, Update
  <2>3. f \in 0..MAX_FEE
    BY <2>2, FormulaAssumption, ConversionsAssumption DEF Settings
  <2>4. row \in Settings /\ row.network = settings[c].network
    BY <2>2, <2>3 DEF Settings
  <2> HIDE DEF row
  <2> QED
    BY <2>1, <2>4 DEF NetInv
<1>4. CASE Administer
  <2>1. CASE UNCHANGED legacyVars
    BY <1>1, <2>1 DEF legacyVars
  <2>2. ASSUME NEW c \in Converter, NEW t \in Symbol,
               \/ \E n \in Ratio, on \in BOOLEAN : SetReserve(ledger, c, t, n, on)
               \/ DelReserve(ledger, c, t)
        PROVE  NetInv'
    BY <1>1, <2>2 DEF SetReserve, DelReserve
  <2> QED
    BY <1>2, <1>3, <1>4, <2>1, <2>2 DEF Administer
<1>5. CASE \E from, to \in Account, t \in Symbol, q \in Quantity :
             \E text \in Text[from][to] : Begin(from, to, t, q, text)
  BY <1>1, <1>5 DEF Begin
<1>6. CASE Execute \/ Abort \/ UNCHANGED vars
  BY <1>1, <1>6 DEF Execute, Abort, vars
<1> QED
  BY <1>4, <1>5, <1>6 DEF Next

(* What Exchange sees of an order.                                         *)
LEMMA OrderSeen ==
  ASSUME NEW o
  PROVE  LET seen == [i \in DOMAIN o |-> o[i].terms]
         IN  /\ o = <<>> => seen = <<>>
             /\ \A x, y : o = <<[request |-> x, terms |-> y]>> => seen = <<y>>
<1> DEFINE seen == [i \in DOMAIN o |-> o[i].terms]
<1>1. ASSUME o = <<>> PROVE seen = <<>>
  <2>1. DOMAIN o = 1..0
    BY <1>1
  <2>2. seen \in Seq({}) /\ Len(seen) = 0
    BY <2>1
  <2> HIDE DEF seen
  <2> QED
    BY <2>2, EmptySeq
<1>2. ASSUME NEW x, NEW y, o = <<[request |-> x, terms |-> y]>>
      PROVE  seen = <<y>>
  <2>1. DOMAIN o = 1..1 /\ o[1].terms = y
    BY <1>2
  <2>2. seen \in Seq({y}) /\ Len(seen) = 1 /\ seen[1] = y
    BY <2>1
  <2>3. <<y>> \in Seq({y}) /\ Len(<<y>>) = 1 /\ <<y>>[1] = y
    OBVIOUS
  <2> HIDE DEF seen
  <2>4. \A i \in 1..Len(seen) : seen[i] = <<y>>[i]
    BY <2>2
  <2> QED
    BY <2>2, <2>3, <2>4, SeqEqual
<1> QED
  BY <1>1, <1>2

(* A step of the model is a step of Exchange, or leaves what it sees alone. *)
LEMMA StepKeepsPromise ==
  ASSUME IInv, NetInv, [Next]_vars
  PROVE  [Promise!Next]_(Promise!exchangeVars)
<1> DEFINE seen == [i \in DOMAIN order |-> order[i].terms]
           r == Request
<1>1. /\ seen = <<>> \/ order # <<>>
      /\ order' = <<>> => seen' = <<>>
      /\ \A x, y : order = <<[request |-> x, terms |-> y]>> => seen = <<y>>
      /\ \A x, y : order' = <<[request |-> x, terms |-> y]>> => seen' = <<y>>
  BY OrderSeen
<1>2. pending = <<>> => order = <<>>
  BY DEF IInv, TypeOK
<1>3. pending # <<>> => order = <<[request |-> r, terms |-> Terms(r)]>>
  BY DEF IInv, Underway
<1>4. ASSUME UNCHANGED <<order, start>>
      PROVE  UNCHANGED Promise!exchangeVars
  <2>1. seen' = seen
    BY <1>4
  <2> QED
    BY <1>4, <2>1 DEF Promise!exchangeVars
<1>5. ASSUME NEW from, NEW to, NEW t, NEW q, NEW text, Begin(from, to, t, q, text)
      PROVE  Promise!Place
  <2>1. PICK x, y : order' = <<[request |-> x, terms |-> y]>>
    BY <1>5 DEF Begin
  <2>2. seen' = <<y>>
    BY <1>1, <2>1, Zenon
  <2>3. order = <<>> /\ start' = start
    BY <1>2, <1>5 DEF Begin
  <2>4. seen = <<>>
    BY <1>1, <2>3
  <2>5. seen' # <<>>
    BY <2>2
  <2> QED
    BY <2>3, <2>4, <2>5 DEF Promise!Place
<1>6. ASSUME pending # <<>>
      PROVE  seen = <<Terms(r)>> /\ seen # <<>> /\ seen[1] = Terms(r)
  <2>1. seen = <<Terms(r)>>
    BY <1>1, <1>3, <1>6, Zenon
  <2> HIDE DEF seen, r
  <2> QED
    BY <2>1
<1>7. ASSUME Abort
      PROVE  Promise!Refuse
  <2>1. pending # <<>> /\ order' = <<>> /\ start' = start
    BY <1>7 DEF Abort
  <2>2. seen # <<>> /\ seen' = <<>>
    BY <1>1, <1>6, <2>1
  <2> QED
    BY <2>1, <2>2 DEF Promise!Refuse
<1>8. ASSUME Execute, pending' = <<>>
      PROVE  Promise!Settle
  <2>1. pending # <<>> /\ order' = <<>>
    BY <1>8 DEF Execute
  <2>2. seen # <<>> /\ seen' = <<>> /\ seen[1] = Terms(r)
    BY <1>1, <1>6, <2>1
  <2>3. Settled(Terms(r), start, start')
    BY <1>8, ExecuteSettles
  <2>4. Settled(seen[1], start, start')
    BY <2>2, <2>3, Zenon
  <2> QED
    BY <2>2, <2>4, Zenon DEF Promise!Settle, Promise!Part, Settled
<1>9. ASSUME Execute, pending' # <<>>
      PROVE  UNCHANGED <<order, start>>
  BY <1>9 DEF Execute
<1>10. ASSUME Administer \/ UNCHANGED vars
       PROVE  UNCHANGED <<order, start>>
  BY <1>10 DEF Administer, transactionVars, vars
<1> HIDE DEF seen, r
<1> QED
  BY <1>4, <1>5, <1>7, <1>8, <1>9, <1>10 DEF Next, Promise!Next

(* What the legacy converters and the network do to anybody who is not a   *)
(* converter is what Exchange promises: a transfer signed by a trader is   *)
(* refused, with nothing moved, or settled at once on the terms its memo   *)
(* states, whatever the path, however many hops and at any settings,       *)
(* provided the converters are set up for this network.                    *)
THEOREM ConversionsImplementExchange ==
  ASSUME OneNetwork
  PROVE  Spec => KeepsPromise
<1> DEFINE seen == [i \in DOMAIN order |-> order[i].terms]
<1>1. Init => NetInv /\ seen = <<>>
  <2>1. ASSUME Init PROVE NetInv
    BY <2>1, InitialAssumption DEF Init, NetInv, OneNetwork
  <2>2. Init => order = <<>>
    BY DEF Init
  <2> QED
    BY <2>1, <2>2, OrderSeen
<1>2. NetInv /\ [Next]_vars => NetInv'
  BY NetStep
<1>3. IInv /\ NetInv /\ [Next]_vars => [Promise!Next]_(Promise!exchangeVars)
  BY StepKeepsPromise
<1> QED
  BY <1>1, <1>2, <1>3, Invariant, PTL DEF Spec, KeepsPromise, Promise!Spec
=============================================================================
