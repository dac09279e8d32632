CONSTANTS
  TotPkts = 2
  TRAN_WIN = 2
  MaxTransfers = 1
  MaxAcks = 2
  MaxConfused = 1
SPECIFICATION FairSpec
INVARIANTS
  FlagTellsTimer
PROPERTY Returns
CHECK_DEADLOCK FALSE
