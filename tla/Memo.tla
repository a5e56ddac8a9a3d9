-------------------------------- MODULE Memo --------------------------------
(***************************************************************************)
(* The memo of a conversion: the trader writes it, the network and every   *)
(* converter on the path parse it and build it anew.  A text is a sequence *)
(* of texts separated by ";", each a sequence of words separated by ",";   *)
(* the word that holds the path is the sequence of its elements, a         *)
(* converter (account, and symbol where one account has many) before each  *)
(* symbol code to convert to.  Empty is the empty string.                  *)
(***************************************************************************)
EXTENDS Integers, SequencesExt

CONSTANT Empty

(* A text that is one word, such as the memo "setup".                      *)
Plain(word) == << <<word>> >>

(* split drops what follows the last delimiter when that is empty.         *)
Split(words) ==
  IF Len(words) > 1 /\ Last(words) = Empty THEN Front(words) ELSE words

(* The optional fields of build_memo.                                      *)
Unless(absent, words) == IF absent THEN <<>> ELSE words

(* Mutant: an affiliate takes the place of the trader.                     *)
build_memo_untraded(m) ==
  << <<m.version, m.path, m.min_return, m.dest_account>>
       \o Unless(m.trader_account = Empty \/ m.affiliate_account # Empty,
                 <<m.trader_account>>)
       \o Unless(m.affiliate_account = Empty,
                 <<m.affiliate_account, m.affiliate_fee>>),
     m.receiver_memo >>

build_memo(m) ==
  << <<m.version, m.path, m.min_return, m.dest_account>>
       \o Unless(m.trader_account = Empty, <<m.trader_account>>)
       \o Unless(m.affiliate_account = Empty,
                 <<m.affiliate_account, m.affiliate_fee>>),
     m.receiver_memo >>

ValidMemo(text) == Len(Split(Split(text)[1])) \in 4..7

(* What the words after the fourth mean depends on how many there are.     *)
parse_memo(text) ==
  LET split_memos == Split(text)
      parts       == Split(split_memos[1])
      count       == Len(parts)
  IN  [version           |-> parts[1],
       path              |-> parts[2],
       min_return        |-> parts[3],
       dest_account      |-> parts[4],
       trader_account    |-> IF count \in {5, 7} THEN parts[5] ELSE Empty,
       affiliate_account |-> IF count \in {6, 7} THEN parts[count - 1] ELSE Empty,
       affiliate_fee     |-> IF count \in {6, 7} THEN parts[count] ELSE Empty,
       receiver_memo     |-> IF Len(split_memos) = 2 THEN split_memos[2]
                             ELSE "convert"]

(* What is taken for granted of a text that is parsed as a memo: its path  *)
(* is a list, and the share of an affiliate stands for the number stoui    *)
(* makes of its word.                                                      *)
WellFormed(text) ==
  LET memo == parse_memo(text)
  IN  ValidMemo(text) =>
        /\ memo.path \in Seq(Range(memo.path))
        /\ memo.affiliate_account # Empty => memo.affiliate_fee \in Nat \ {Empty}
=============================================================================
