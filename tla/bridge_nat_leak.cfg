\* The NAT table has one entry less than there are client ports.
CONSTANTS
  c1 = c1  c2 = c2  c3 = c3  p1 = p1  p2 = p2  p3 = p3  dcA = dcA  dcB = dcB
  Conns = {c1, c2}
  Ports = {p1, p2}
  Dcs = {dcA, dcB}
  PortOf <- MCPortOf2
  DcOf <- MCDcOf2
  Listening = {c1, c2}
  NoConn = NoConn  NoPort = NoPort  NoDc = NoDc
  NAT_MAX = 1
  MAX_CONNS = 2
  PcbPool = 2
  QueueBound = 2
  MemFails = FALSE
  SessionAborts = FALSE
SPECIFICATION FairSpec
PROPERTIES ConnectServed
CHECK_DEADLOCK FALSE
