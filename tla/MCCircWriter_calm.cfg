SPECIFICATION Spec
CONSTANTS
  Size = 16
  Chunk = 8
  LowRange = 4
  Backlogs <- LessThanChunk
  Lines <- SomeLines
  Noise = 1
  Interrupts <- Transmit
  CardFaults <- NoFaults
  MaxBytes = 44
\* The bound on printed bytes ends every run.
CHECK_DEADLOCK FALSE
INVARIANTS NoOverrun EnoughBytes NoOverlap
PROPERTIES LogIsStream
