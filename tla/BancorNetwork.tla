--------------------------- MODULE BancorNetwork ---------------------------
(***************************************************************************)
(* The BancorNetwork contract, the entry of every conversion.  The trader  *)
(* sends it tokens with a path; it sends them to the first converter,      *)
(* takes back what that returns, sends it to the next one, and at the end  *)
(* of the path to the receiver.  It keeps no state between the transfers   *)
(* of a conversion: everything is in the memo.                             *)
(*                                                                         *)
(* As in LegacyConverter, the reaction to a transfer is given by the       *)
(* conditions under which it does not fail, on the ledger L the transfer   *)
(* has left, and the inline actions it sends.                              *)
(***************************************************************************)
EXTENDS Chain, BancorFormula

CONSTANTS
  Network,   \* the account of the contract
  BNT,       \* the symbol code affiliates are paid in
  stof       \* the units the words that state a minimum are read as

ASSUME NetworkAssumption ==
  /\ Network \in Account \ SystemAccount
  /\ BNT \in Code
  /\ \A word \in DOMAIN stof : stof[word] \in Nat

VARIABLE network_settings   \* the singleton, NoNetwork before it is set

NetworkSettings ==
  [max_fee : 0..MAX_FEE, network_token : Account \cup {NoAccount}]

NoNetwork == [max_fee |-> 0, network_token |-> NoAccount]

----------------------------------------------------------------------------
(* Both actions require the authority of the account itself, and create    *)
(* the row if there is none.                                               *)

SetMaxFee(max_affiliate_fee) ==
  /\ max_affiliate_fee > 0
  /\ max_affiliate_fee <= MAX_FEE
  /\ network_settings' = [network_settings EXCEPT !.max_fee = max_affiliate_fee]

SetNetToken(network_token) ==
  network_settings' = [network_settings EXCEPT !.network_token = network_token]

----------------------------------------------------------------------------
(* pay_affiliate: nothing is due unless the tokens are called BNT and the  *)
(* memo names an affiliate.                                                *)
AffiliateDue(t, memo) == CodeOf[t] = BNT /\ memo.affiliate_account # Empty

CanPayAffiliate(t, memo) ==
  AffiliateDue(t, memo) =>
    /\ ContractOf[t] = network_settings.network_token
    /\ memo.affiliate_fee > 0
    /\ network_settings.max_fee > memo.affiliate_fee
    /\ memo.affiliate_account \in Account

(* calculate_fee, truncated.                                               *)
AffiliateFee(t, q, memo) ==
  IF AffiliateDue(t, memo) THEN (q * memo.affiliate_fee) \div MAX_FEE ELSE 0

(* The trader is known from the second transfer of a conversion on.        *)
Entering(memo) == memo.path # <<>> /\ memo.trader_account = Empty
Leaving(memo)  == memo.path = <<>>

(* Mutant: after the last hop the fee is deducted and not sent.            *)
PayAffiliateOnTheWay(t, fee, memo) ==
  IF fee > 0 /\ ~ Leaving(memo)
  THEN <<transfer(Network, memo.affiliate_account, t, fee,
                  Plain("affiliate pay"))>>
  ELSE <<>>

PayAffiliate(t, fee, memo) ==
  IF fee > 0
  THEN <<transfer(Network, memo.affiliate_account, t, fee,
                  Plain("affiliate pay"))>>
  ELSE <<>>

(* Mutant: the affiliate stays in the memo.                                *)
WithoutAffiliateKept(t, memo) == memo

WithoutAffiliate(t, memo) ==
  IF AffiliateDue(t, memo)
  THEN [memo EXCEPT !.affiliate_account = Empty, !.affiliate_fee = Empty]
  ELSE memo

(* The minimum in units; "convert" and other words are read as zero.       *)
MinReturn(memo) ==
  IF memo.min_return \in DOMAIN stof THEN stof[memo.min_return] ELSE 0

(* Mutant: the minimum is compared with what the affiliate's fee is yet to *)
(* be taken from.                                                          *)
verify_min_return_before_fee(quantity, fee, memo) ==
  quantity + fee > 0 /\ quantity + fee >= MinReturn(memo)

verify_min_return(quantity, fee, memo) ==
  quantity > 0 /\ quantity >= MinReturn(memo)

(* on_transfer.                                                            *)
NetworkAccepts(L, from, t, q, text) ==
  LET memo == parse_memo(text)
      fee  == AffiliateFee(t, q, memo)
  IN  \/ from \in SystemAccount
      \/ /\ from \notin SystemAccount
         /\ network_settings # NoNetwork
         /\ ValidMemo(text)
         /\ Entering(memo) \/ CanPayAffiliate(t, memo)
         /\ IF Leaving(memo)
            THEN /\ memo.trader_account \in Account
                 /\ verify_min_return(q - fee, fee, memo)
                 /\ memo.dest_account \in L.rows[t]
            ELSE /\ Len(memo.path) % 2 = 0
                 /\ memo.path[1].account \in L.rows[t]

(* The fee precedes what is sent on.  A memo from which the affiliate has  *)
(* been paid is built anew, the receiver's own included; with a fee that   *)
(* is truncated to nothing the memo stays as it was.                       *)
NetworkSends(L, from, t, q, text) ==
  LET memo      == parse_memo(text)
      fee       == IF Entering(memo) THEN 0 ELSE AffiliateFee(t, q, memo)
      forwarded == CASE Entering(memo) ->
                          build_memo([memo EXCEPT !.trader_account = from])
                     [] fee > 0 -> build_memo(WithoutAffiliate(t, memo))
                     [] Leaving(memo) /\ fee = 0 -> Plain(memo.receiver_memo)
                     [] OTHER -> text
      to        == IF Leaving(memo) THEN memo.dest_account
                   ELSE memo.path[1].account
  IN  IF from \in SystemAccount THEN <<>>
      ELSE PayAffiliate(t, fee, memo)
             \o <<transfer(Network, to, t, q - fee, forwarded)>>
=============================================================================
