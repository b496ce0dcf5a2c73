SPECIFICATION FairSpec
CONSTANTS
  Size = 4
  Chunk = 2
  LowRange = 2
  Backlogs <- LessThanRing
  Lines <- ShortLines
  Noise = 1
  Interrupts <- AllInterrupts
  CardFaults <- AllFaults
  MaxBytes = 7
\* The bound on printed bytes ends every run.
CHECK_DEADLOCK FALSE
INVARIANTS MutualExclusion LockReleased
PROPERTIES CallsReturn
