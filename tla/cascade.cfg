\* Two endpoints, two frames of the session, one of each gateway.
CONSTANTS
  Hosts = 2
  MaxSends = 2
  MaxDown = 1
SPECIFICATION FairSpec
INVARIANTS TypeOK NoFork UpstreamComplete
PROPERTIES CascadeSettles CloseReported
CHECK_DEADLOCK FALSE
