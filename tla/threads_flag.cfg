CONSTANTS
  TotPkts = 2
  TRAN_WIN = 2
  MaxTransfers = 2
  MaxAcks = 2
  MaxConfused = 1
SPECIFICATION Spec
INVARIANT FlagTellsTimer
CHECK_DEADLOCK FALSE
