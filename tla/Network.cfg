SPECIFICATION Spec
CONSTANTS
  NoAccount = NoAccount
  Empty = Empty
  net = net
  c1 = c1
  c2 = c2
  c3 = c3
  alice = alice
  bob = bob
  ram = ram
  bnt = bnt
  tok = tok
  BNT = BNT
  EOS = EOS
  SYS = SYS
  REL = REL
  RELB = RELB
  Account <- MCAccount
  Symbol <- MCSymbol
  Converter <- MCConverter
  SystemAccount = {ram}
  Network = net
  Code <- MCSymbol
  CodeOf <- MCCodeOf
  ContractOf <- MCContract
  stof <- MCstof
  MaxAmount = 8
  MaxReturn = 9
  MaxFixed = 7
  PPM_RESOLUTION = 3
  OnePpm = 0
  MAX_FEE = 2
  InitialSettings <- MCSettings
  InitialReserves <- MCReserves
  InitialNetwork <- MCNetwork
  InitialLedger <- MCLedger
  Rows <- MCRows
  Ratio = {1, 2}
  Fee = {0, 1, 2}
  MaxFees = {1}
  NetTokens = {tok}
  MaxTurns = 2
  Quantity = {2, 4}
  Text <- MCText
INVARIANTS
  TypeOK
  TermsSurvive
  AffiliatePaidOnce
PROPERTIES
  KeepsPromise
  NetworkKeepsNothing
  PoolValueNeverFalls
  SwitchesHold
CHECK_DEADLOCK FALSE
