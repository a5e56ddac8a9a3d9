SPECIFICATION Spec
CONSTANTS
  token = token
  alice = alice
  bob = bob
  BNT = BNT
  RELAY = RELAY
  NoAccount = NoAccount
  Account <- MCAccount
  Symbol <- MCSymbol
  Self = token
  MaxAmount = 2
  Quantity <- MCQuantity
SYMMETRY MCSymmetry
INVARIANTS
  TypeOK
  SupplyIsBacked
  AmountsInRange
  BalancesInRows
PROPERTIES
  DebitIsAuthorised
  IssuerControlsSupply
  ImplementsMoney
