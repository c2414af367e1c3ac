\* The device uses the client port of c1 again for c2 (another listening port)
\* while lwIP may still hold the pcb of c1; sessions abort inside g_recv and the
\* accept callback runs out of slots.  Memory suffices, and the NAT table has an
\* entry for every client port.
CONSTANTS
  c1 = c1  c2 = c2  c3 = c3  p1 = p1  p2 = p2  p3 = p3  dcA = dcA  dcB = dcB
  Conns = {c1, c2, c3}
  Ports = {p1, p2}
  Dcs = {dcA, dcB}
  PortOf <- MCPortShared
  DcOf <- MCDcOf
  Listening = {c1, c2, c3}
  NoConn = NoConn  NoPort = NoPort  NoDc = NoDc
  NAT_MAX = 2
  MAX_CONNS = 1
  PcbPool = 2
  QueueBound = 2
  MemFails = FALSE
  SessionAborts = TRUE
SPECIFICATION FairSpec
INVARIANTS DcNeverWrong
PROPERTIES ImplementsConnTable ConnectServed PcbReclaimed
CHECK_DEADLOCK FALSE
