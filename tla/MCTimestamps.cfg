SPECIFICATION Spec
CONSTANTS
  Second = 3
  Jiffy = 2
  Delay = 1
  Wrap = 64
  LogEnd = 10
  Ahead <- CarriedTo
  MaxLost = 2
  MaxSamples = 1
  MaxFaults = 2
\* The script ends.
CHECK_DEADLOCK FALSE
INVARIANTS PerfectIsTrue AllMatched AccurateButForLost AbortsOnlyOn
