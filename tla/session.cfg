\* Two slots, the lowest free one first: the second connection gets the id of the
\* first when that has ended.  Memory for both send buffers.
CONSTANTS
  c1 = c1  c2 = c2  c3 = c3
  Conns = {c1, c2}
  NoConn = NoConn
  MAX_CONNS = 2
  MaxBytes = 2
  MaxCloses = 1
  MaxFrame = 2
  Chunk = 1
  SndBuf = 1
  Shared = 2
SPECIFICATION FairSpec
INVARIANTS TypeOK OwnsItsId StreamPrefix NothingLost
PROPERTIES ClosesOnlyItsOwn PendingHasWakeup PendingWritten
CHECK_DEADLOCK FALSE
