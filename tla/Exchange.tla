------------------------------ MODULE Exchange ------------------------------
(***************************************************************************)
(* What a trader is promised, without memos, hops and inline actions: an   *)
(* order is placed, and then either settled in one step or refused.        *)
(* Settling takes what was offered from the payer, gives the receiver at   *)
(* least what was asked for, of a kind that was asked for, gives the       *)
(* affiliate its fee, and changes nothing else anybody holds.  Holder are  *)
(* those the promise is made to; what the others (the converters) hold is  *)
(* not part of it.                                                         *)
(***************************************************************************)
EXTENDS Integers

CONSTANTS Holder, Kind, Amount

VARIABLES
  held,    \* held[k][h]: what h holds of kind k
  order    \* <<the order under way>>, <<>> between two

exchangeVars == <<held, order>>

Part(holds, n) == IF holds THEN n ELSE 0

Place ==
  /\ order = <<>>
  /\ order' # <<>>
  /\ UNCHANGED held

Settle ==
  /\ order # <<>>
  /\ order' = <<>>
  /\ LET asked == order[1]
     IN  \E k \in asked.gets, n \in Amount \cap (asked.least..asked.most),
           fee \in Amount :
           \A j \in Kind, h \in Holder :
             held'[j][h] = held[j][h]
               - Part(j = asked.pays /\ h = asked.payer, asked.amount)
               + Part(j = k /\ h = asked.receiver, n)
               + Part(j \in asked.feeKinds /\ h = asked.affiliate, fee)

Refuse ==
  /\ order # <<>>
  /\ order' = <<>>
  /\ UNCHANGED held

Next == Place \/ Refuse \/ Settle

Spec == order = <<>> /\ [][Next]_exchangeVars
=============================================================================
