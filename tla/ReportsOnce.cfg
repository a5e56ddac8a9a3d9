SPECIFICATION Spec
CONSTANTS
  user = user
  t1 = t1
  t2 = t2
  NoAccount = NoAccount
  Account = {bancorx, token, user}
  Symbol = {BNT}
  MaxAmount = 5
  Self = bancorx
  x_token_name = token
  XToken = BNT
  SystemAccount = {}
  InWallet = 1
  InitialBalance <- MCInitial
  Reporter = {r1, r2}
  TxId = {t1, t2}
  NoTransferId = 0
  Reports <- MCReports
  MinReporters = {2}
  MaxLimits = {1, 2}
  Params <- MCParams
  Switch = {TRUE}
  Removable = {r1, r2}
  Quantity = {1}
  Word = 16
  MaxTime = 1
INVARIANTS
  ReportsOnce
CHECK_DEADLOCK FALSE
