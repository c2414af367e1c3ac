\* The session closes its connection inside the recv callback.
CONSTANTS
  c1 = c1  c2 = c2  c3 = c3  p1 = p1  p2 = p2  p3 = p3  dcA = dcA  dcB = dcB
  Conns = {c1, c2}
  Ports = {p1, p2}
  Dcs = {dcA, dcB}
  PortOf <- MCPortOf2
  DcOf <- MCDcOf2
  Listening = {c1, c2}
  NoConn = NoConn  NoPort = NoPort  NoDc = NoDc
  NAT_MAX = 2
  MAX_CONNS = 2
  PcbPool = 2
  QueueBound = 2
  MemFails = FALSE
  SessionAborts = TRUE
SPECIFICATION Spec
INVARIANTS CallbackContract
CHECK_DEADLOCK FALSE
