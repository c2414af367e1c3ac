\* Two frames up, two down.
CONSTANTS
  MaxSends = 2
  MaxDown = 2
SPECIFICATION FairSpec
INVARIANTS PipeUpstream RelayUpstream CleanCloseComplete
PROPERTIES HangReported EndReported DcReleased
CHECK_DEADLOCK FALSE
