SPECIFICATION Spec
CONSTANTS
  Capacity = 9
  MetaPeriod = 3
  MagicWord = 1000
  FirstMeta <- SmallMeta
  Leftovers <- SomeLeftovers
  Faults <- NoFaults
  Widths <- SomeWidths
  MaxCalls = 2
  MaxChunks = 5
  MaxOvertaken = 5
  MaxBoots = 1
\* The power may stay off, and the bounds on chunks and boots end every run.
CHECK_DEADLOCK FALSE
INVARIANT SuccessiveBlocks
