SPECIFICATION Spec
CONSTANTS
  NoAccount = NoAccount
  Account = {cnvrtr, alice, bob, ram}
  Symbol = {REL, BNT}
  Self = cnvrtr
  Smart = {REL}
  ReserveToken = {BNT}
  Code = {REL, BNT}
  SystemAccount = {ram}
  Issuer = alice
  InWallet = 1
  MaxAmount = 3
  MaxReturn = 4
  MaxFixed = 2
  DEFAULT_MAX_SUPPLY = 2
  InitialShare = 1
  PPM_RESOLUTION = 2
  OnePpm = 0
  MAX_FEE = 2
  MaxFees = {0, 1}
  Networks = {alice}
  Stakings = {NoAccount, bob}
  Payee = {cnvrtr}
  NewOwner = {alice, bob}
  Weight = {1}
  Fee = {0, 1}
  Quantity = {1}
  CodeOf <- MCCodeOf
  InitialBalance <- MCInitial
  Params <- MCParams
PROPERTIES
  OwnerControlsFee
CHECK_DEADLOCK FALSE
