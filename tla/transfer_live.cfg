\* Windows that slide, and the end of a transfer when the last acknowledgement is not lost.
CONSTANTS
  c1 = c1
  c2 = c2
  c3 = c3
  c4 = c4
  NoChunk = NoChunk
  Chunk <- Chunks
  File <- File3
  TRAN_WIN = 2
  RECV_WIN = 2
  MaxCopies = 2
  NetFaults = {"loseData", "loseAck"}
SPECIFICATION FairSpec
INVARIANTS
  AckedIsBuffered
  NoFreshPacketDiscarded
PROPERTY Termination
CHECK_DEADLOCK FALSE
