\* Two taps, three runs of the extension; two lines can follow a tunnel_stop and
\* push it out.  One configuration: with two the properties promise nothing.
CONSTANTS
  MaxRuns = 3
  MaxEvents = 6
  Keep = 2
  FlushEvery = 2
  Configs = 1
  Taps = 2
SPECIFICATION Spec
INVARIANTS StatusFollows CrashLosesLittle PreviousShown
PROPERTIES WatchdogRight
CHECK_DEADLOCK FALSE
