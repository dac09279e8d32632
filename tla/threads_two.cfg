CONSTANTS
  TotPkts = 2
  TRAN_WIN = 1
  MaxTransfers = 2
  MaxAcks = 2
  MaxConfused = 1
SPECIFICATION Spec
INVARIANTS
  TypeOK
  MainSendsInWindow
  EndsOnlyWhenDelivered
CHECK_DEADLOCK FALSE
