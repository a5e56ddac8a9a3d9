--------------------------- MODULE MCConversions ---------------------------
(***************************************************************************)
(* An instance of Conversions: c1 converts between BNT, EOS and its smart  *)
(* token REL, c2 between BNT, SYS and its smart token RELB; c3 has been    *)
(* deployed but not initialised.  bnt and tok are token contracts.         *)
(***************************************************************************)
EXTENDS Conversions, TLC

CONSTANTS net, c1, c2, c3, alice, bob, ram, bnt, tok,
          EOS, SYS, REL, RELB

MCAccount   == {net, c1, c2, c3, alice, bob, ram, bnt, tok}
MCSymbol    == {BNT, EOS, SYS, REL, RELB}
MCConverter == {c1, c2, c3}
MCCodeOf    == [t \in MCSymbol |-> t]
MCContract  == [t \in MCSymbol |-> IF t = BNT THEN bnt ELSE tok]

(* A minimum of three units, written with decimals, is read as two.        *)
MCstof == (0 :> 0) @@ (3 :> 2)

Row(smart, virtual, fee) ==
  [smart |-> smart, virtual |-> virtual, smart_enabled |-> TRUE,
   enabled |-> TRUE, network |-> net, max_fee |-> 1, fee |-> fee]

MCSettings ==
  (c1 :> Row(REL, 0, 0)) @@ (c2 :> Row(RELB, 2, 0))
    @@ (c3 :> [Row(RELB, 0, 0) EXCEPT !.network = NoAccount])

MCReserves ==
  [c \in MCConverter |-> [t \in MCSymbol |->
     IF \/ c = c1 /\ t \in {BNT, EOS}
        \/ c = c2 /\ t \in {BNT, SYS}
     THEN [ratio |-> IF t = SYS THEN 2 ELSE 1, sale_enabled |-> TRUE]
     ELSE NoReserve]]

MCNetwork == [max_fee |-> 2, network_token |-> bnt]
MCRows    == {Row(RELB, 0, 1)}

Balances ==
  (BNT    :> ((c1 :> 2) @@ (c2 :> 2) @@ (alice :> 4)))
    @@ (EOS  :> ((c1 :> 4) @@ (alice :> 4)))
    @@ (SYS  :> ((c2 :> 8)))
    @@ (REL  :> ((alice :> 4)))
    @@ (RELB :> ((alice :> 2) @@ (ram :> 2)))

MCLedger ==
  LET balance == [t \in MCSymbol |-> [a \in MCAccount |->
                    IF a \in DOMAIN Balances[t] THEN Balances[t][a] ELSE 0]]
  IN  [issuer     |-> [t \in MCSymbol |->
                         IF t = REL THEN c1 ELSE IF t = RELB THEN c2 ELSE tok],
       max_supply |-> [t \in MCSymbol |-> MaxAmount],
       supply     |-> [t \in MCSymbol |->
                         SumFunctionOnSet(balance[t], MCAccount)],
       rows       |-> [t \in MCSymbol |-> MCAccount \ {c3, bnt, tok}],
       balance    |-> balance]

(* The texts of transfers to the network, from sets of the fields.         *)
At(c, code) == <<[account |-> c, sym |-> Empty], code>>

Texts(paths, mins, dests, traders, affiliates, receivers) ==
  {build_memo([version |-> "1", path |-> p, min_return |-> m,
               dest_account |-> d, trader_account |-> o,
               affiliate_account |-> a[1], affiliate_fee |-> a[2],
               receiver_memo |-> r]) :
     p \in paths, m \in mins, d \in dests, o \in traders, a \in affiliates,
     r \in receivers}

Paths == {At(c1, BNT), At(c1, EOS), At(c1, REL), At(c1, BNT) \o At(c2, SYS),
          At(c2, BNT) \o At(c1, EOS), At(c1, EOS) \o At(c1, BNT)}

OddPaths == {<<>>, SubSeq(At(c1, BNT), 1, 1), At(bob, BNT),
             At(c1, BNT) \o At(bob, EOS)}

Nobody == <<Empty, Empty>>

ToNetwork ==
  Texts(Paths, {0, 3}, {bob}, {Empty, alice}, {Nobody, <<alice, 1>>}, {"convert"})
    \cup Texts(Paths, {0}, {c1}, {Empty}, {Nobody, <<alice, 1>>}, {"setup", Empty})
    \cup Texts(OddPaths, {3}, {bob}, {Empty, alice}, {Nobody}, {"convert"})
    \cup {Append(text, Empty) :
            text \in Texts({At(c1, BNT)}, {0}, {bob}, {Empty}, {Nobody}, {Empty})}

MCText ==
  [a \in MCAccount |-> [b \in MCAccount |->
     CASE a = alice /\ b = net              -> ToNetwork
       [] a = ram /\ b = net                -> {Plain("convert")}
       [] a \in {alice, c2} /\ b = c1        -> {Plain("setup")}
       [] a = c1 /\ b = bob                 -> {Plain("convert")}
       [] OTHER -> {}]]
=============================================================================
