\* Bytes of three bits, headers of one or three bytes: both header forms, a length
\* with the top bit set, zero lengths, and cuts at every byte of a header.
CONSTANTS
  Base = 8
  Hdr = 3
  Unit = 2
  handshakeLen = 2
  Values = {0, 1, 3, 4}
  MaxBytes = 8
  MaxChunk = 4
SPECIFICATION Spec
INVARIANTS TypeOK StreamKept OnePacketAFrame NoPacketWaits
CHECK_DEADLOCK FALSE
