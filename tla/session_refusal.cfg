CONSTANTS
  a = a
  b = b
  c = c
  Names = {a, b}
  Length <- AllShort
  ServerFolder = {a, b}
  ClientFolder = {}
  Patient = TRUE
  Cautious = FALSE
  MaxRequests = 3
  MaxCopies = 2
SPECIFICATION Spec
INVARIANT ChildEndsForAReason
CHECK_DEADLOCK FALSE
