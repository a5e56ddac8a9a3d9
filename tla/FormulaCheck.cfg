SPECIFICATION Spec
CONSTANTS
  PPM_RESOLUTION = 2
  OnePpm = 0
  MAX_FEE = 2
  MaxReturn = 30
  MaxFixed = 29
  Bound = 4
INVARIANTS
  ClosedForms
  RoundTripsDoNotPay
  SplittingDoesNotPay
CHECK_DEADLOCK FALSE
