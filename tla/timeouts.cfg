\* A clock of five bits that may start anywhere, and polls so late that the cyclic
\* timer has missed its next turn as well.
CONSTANTS
  LWIP_MAX_TIMEOUT = 15
  TCP_TMR_INTERVAL = 2
  IP_TMR_INTERVAL = 3
  MEMP_NUM_SYS_TIMEOUT = 2
  MaxLag = 5
  MaxPcbs = 2
SPECIFICATION FairSpec
INVARIANTS TimersArmed ExpiredFirst
PROPERTIES PollEnds TcpTimerRuns
