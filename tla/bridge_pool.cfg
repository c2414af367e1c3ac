\* Relay and pipe modes with the real order of sizes: the pcb pool does not
\* exceed g_conns.  The NAT table is smaller than the number of client ports,
\* and nobody listens on the port c3 asks for.
CONSTANTS
  c1 = c1  c2 = c2  c3 = c3  p1 = p1  p2 = p2  p3 = p3  dcA = dcA  dcB = dcB
  Conns = {c1, c2, c3}
  Ports = {p1, p2, p3}
  Dcs = {dcA, dcB}
  PortOf <- MCPortOf
  DcOf <- MCDcOf
  Listening = {c1, c2}
  NoConn = NoConn  NoPort = NoPort  NoDc = NoDc
  NAT_MAX = 2
  MAX_CONNS = 2
  PcbPool = 2
  QueueBound = 3
  MemFails = TRUE
  SessionAborts = FALSE
SPECIFICATION Spec
INVARIANTS TypeOK NatUnique SlotsSound CallbackContract DcKnown EstablishedRewritten
CHECK_DEADLOCK FALSE
