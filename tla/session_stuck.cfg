\* Memory for one send buffer only, shared by two connections.
CONSTANTS
  c1 = c1  c2 = c2  c3 = c3
  Conns = {c1, c2}
  NoConn = NoConn
  MAX_CONNS = 2
  MaxBytes = 1
  MaxCloses = 2
  MaxFrame = 1
  Chunk = 1
  SndBuf = 1
  Shared = 1
SPECIFICATION FairJobsSpec
PROPERTIES PendingWritten
CHECK_DEADLOCK FALSE
