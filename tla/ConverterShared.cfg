SPECIFICATION Spec
CONSTANTS
  NoAccount = NoAccount
  Account = {cnvrtr, alice}
  Symbol = {RELA, RELB, BNT}
  Self = cnvrtr
  Smart = {RELA, RELB}
  ReserveToken = {BNT, RELA}
  Code = {RELA, RELB, BNT}
  SystemAccount = {}
  Issuer = alice
  InWallet = 2
  MaxAmount = 2
  MaxReturn = 3
  MaxFixed = 1
  DEFAULT_MAX_SUPPLY = 2
  InitialShare = 1
  PPM_RESOLUTION = 2
  OnePpm = 0
  MAX_FEE = 2
  MaxFees = {1}
  Networks = {alice}
  Stakings = {NoAccount}
  Payee = {}
  NewOwner = {}
  Weight = {1}
  Fee = {}
  Quantity = {1}
  CodeOf <- MCCodeOf
  InitialBalance <- MCInitial
  Params <- MCParams
INVARIANTS
  Solvent
PROPERTIES
  PoolValueNeverFalls
  BooksFollowCoins
CHECK_DEADLOCK FALSE
