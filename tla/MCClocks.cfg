SPECIFICATION Spec
CONSTANTS
  Top = 6
  Reload = 2
  Base = 2
  LongestRuns <- SomeRuns
  Pulse = 5
  MaxTime = 11
\* The bound on time ends every run.
CHECK_DEADLOCK FALSE
INVARIANTS NeverFast NothingMissed 
PROPERTIES PpsStampIsEdge
