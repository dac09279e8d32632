CONSTANTS
  c1 = c1
  c2 = c2
  a = a
  b = b
  Children = {c1, c2}
  Names = {a, b}
  ServerFolder = {a}
  UploadLen = 2
  Absent = Absent
  Hole = Hole
  MaxRequests = 2
SPECIFICATION FairSpec
INVARIANTS
  TypeOK
  UncontestedIsWhole
  ListComplete
PROPERTIES
  SettledStays
  EmptyOnlyWhileReceived
  ServedUnlessEmpty
CHECK_DEADLOCK FALSE
