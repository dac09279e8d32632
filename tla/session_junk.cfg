CONSTANTS
  a = a
  b = b
  c = c
  Names = {a, b}
  Length <- AllShort
  ServerFolder = {a}
  ClientFolder = {b}
  Patient = FALSE
  Cautious = TRUE
  MaxRequests = 3
  MaxCopies = 2
SPECIFICATION Spec
INVARIANT JunkIsRetransmission
CHECK_DEADLOCK FALSE
