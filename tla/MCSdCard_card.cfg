SPECIFICATION Spec
CONSTANTS
  Capacity = 9
  MetaPeriod = 3
  MagicWord = 1000
  FirstMeta <- SmallMeta
  Leftovers <- SomeLeftovers
  Faults <- AllFaults
  Widths <- SomeWidths
  MaxCalls = 2
  MaxChunks = 10
  MaxOvertaken = 5
  MaxBoots = 2
\* The power may stay off, and the bounds on chunks and boots end every run.
CHECK_DEADLOCK FALSE
INVARIANTS HeadInRing RestartRewind LogComplete LogOrdered
PROPERTIES ReservedBlocks OnlyMarkedCards
