\* Safety of a transfer whatever the network does.
CONSTANTS
  c1 = c1
  c2 = c2
  c3 = c3
  c4 = c4
  NoChunk = NoChunk
  Chunk <- Chunks
  File <- File3
  TRAN_WIN = 3
  RECV_WIN = 3
  MaxCopies = 2
  NetFaults = {"loseData", "loseAck", "loseLastAck", "duplicate"}
SPECIFICATION Spec
INVARIANTS
  TypeOK
  AckedIsBuffered
  CountersAgree
  TimerCovers
PROPERTY Implements
CHECK_DEADLOCK FALSE
