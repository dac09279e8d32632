CONSTANTS
  a = a
  b = b
  c = c
  Names = {a, b, c}
  Length <- ThreeToNine
  ServerFolder = {a, c}
  ClientFolder = {b}
  Patient = TRUE
  Cautious = TRUE
  MaxRequests = 7
  MaxCopies = 2
SPECIFICATION FairSpec
INVARIANTS
  TypeOK
  ChildEndsForAReason
  NobodyStuck
  NoLeftoverRead
PROPERTIES
  Answered
  BothClose
  DownloadsTheFileAsked
  NeverOverwritten
  Implements
CHECK_DEADLOCK FALSE
