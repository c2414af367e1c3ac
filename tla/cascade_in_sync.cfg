\* A frame is sent, and its endpoint fails.
CONSTANTS
  Hosts = 2
  MaxSends = 2
  MaxDown = 1
SPECIFICATION Spec
INVARIANTS InSyncFromInit
CHECK_DEADLOCK FALSE
