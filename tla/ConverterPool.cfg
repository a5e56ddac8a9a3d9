SPECIFICATION Spec
CONSTANTS
  NoAccount = NoAccount
  Account = {cnvrtr, alice}
  Symbol = {REL, BNT, EOS}
  Self = cnvrtr
  Smart = {REL}
  ReserveToken = {BNT, EOS}
  Code = {REL, BNT, EOS}
  SystemAccount = {}
  Issuer = alice
  InWallet = 4
  MaxAmount = 4
  MaxReturn = 5
  MaxFixed = 1
  DEFAULT_MAX_SUPPLY = 4
  InitialShare = 1
  PPM_RESOLUTION = 3
  OnePpm = 0
  MAX_FEE = 2
  MaxFees = {1}
  Networks = {alice}
  Stakings = {NoAccount}
  Payee = {}
  NewOwner = {}
  Weight = {1, 2}
  Fee = {1}
  Quantity = {1, 2, 3}
  CodeOf <- MCCodeOf
  InitialBalance <- MCInitial
  Params <- MCParams
SYMMETRY MCSymmetry
INVARIANTS
  TypeOK
PROPERTIES
  PoolValueNeverFalls
  ActivationIsStable
CHECK_DEADLOCK FALSE
