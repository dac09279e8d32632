CONSTANTS
  N = 4
  tot_pkts = 5
  MAX_ERR = 2
  Capacity = 4
SPECIFICATION FairSpec
INVARIANTS
  TypeOK
  WrittenIsPrefix
  FinishedMeansWhole
  CountersAgree
PROPERTIES
  BothReturn
  Implements
CHECK_DEADLOCK FALSE
