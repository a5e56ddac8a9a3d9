------------------------------- MODULE Coins -------------------------------
(***************************************************************************)
(* What the Token contract promises, without its counters and rows: coins  *)
(* of several kinds, each kind with one minter and a cap fixed once.       *)
(* Minting is bounded by what is really held, not by a counter.            *)
(***************************************************************************)
EXTENDS Integers, Functions

CONSTANTS Holder, Kind, NoOne, Cap

VARIABLES
  minter,   \* who may mint and burn a kind, NoOne before it is introduced
  cap,      \* how many coins of a kind may be held in all
  held      \* held[k][h]: the coins of kind k that h holds

coinVars == <<minter, cap, held>>

InCirculation(k) == SumFunctionOnSet(held[k], Holder)

Init ==
  /\ minter = [k \in Kind |-> NoOne]
  /\ cap = [k \in Kind |-> 0]
  /\ held = [k \in Kind |-> [h \in Holder |-> 0]]

Introduce(k, m, c) ==
  /\ minter[k] = NoOne
  /\ minter' = [minter EXCEPT ![k] = m]
  /\ cap' = [cap EXCEPT ![k] = c]
  /\ UNCHANGED held

Mint(k, n) ==
  /\ minter[k] # NoOne
  /\ InCirculation(k) + n <= cap[k]
  /\ held' = [held EXCEPT ![k][minter[k]] = @ + n]
  /\ UNCHANGED <<minter, cap>>

Burn(k, n) ==
  /\ minter[k] # NoOne
  /\ n <= held[k][minter[k]]
  /\ held' = [held EXCEPT ![k][minter[k]] = @ - n]
  /\ UNCHANGED <<minter, cap>>

Move(k, from, to, n) ==
  /\ minter[k] # NoOne
  /\ from # to
  /\ n <= held[k][from]
  /\ held' = [held EXCEPT ![k][from] = @ - n, ![k][to] = @ + n]
  /\ UNCHANGED <<minter, cap>>

Next ==
  \E k \in Kind, n \in 1..Cap :
    \/ \E m \in Holder : Introduce(k, m, n)
    \/ Mint(k, n)
    \/ Burn(k, n)
    \/ \E from, to \in Holder : Move(k, from, to, n)

Spec == Init /\ [][Next]_coinVars
=============================================================================
