------------------------------ MODULE MCToken ------------------------------
(***************************************************************************)
(* Token on a small instance: the contract and two users, two symbols,     *)
(* amounts from -1 (an invalid quantity) to one more than max_amount.      *)
(***************************************************************************)
EXTENDS Token, TLC

CONSTANTS token, alice, bob, BNT, RELAY

MCAccount  == {token, alice, bob}
MCSymbol   == {BNT, RELAY}
MCQuantity == -1..(MaxAmount + 1)

(* The two symbols and the two users are interchangeable.                  *)
MCSymmetry == Permutations({alice, bob}) \cup Permutations(MCSymbol)
=============================================================================
