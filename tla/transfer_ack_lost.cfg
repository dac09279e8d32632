\* The acknowledgement that ends the transfer can be lost.
CONSTANTS
  c1 = c1
  c2 = c2
  c3 = c3
  c4 = c4
  NoChunk = NoChunk
  Chunk <- Chunks
  File <- File2
  TRAN_WIN = 1
  RECV_WIN = 1
  MaxCopies = 1
  NetFaults = {"loseData", "loseLastAck"}
SPECIFICATION FairSpec
PROPERTY Termination
CHECK_DEADLOCK FALSE
