CONSTANTS
  TotPkts = 2
  TRAN_WIN = 2
  MaxTransfers = 1
  MaxAcks = 2
  MaxConfused = 1
SPECIFICATION Spec
INVARIANT TimerStopped
CHECK_DEADLOCK FALSE
