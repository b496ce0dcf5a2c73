SPECIFICATION FairSpec
CONSTANTS
  Size = 6
  MainLen = 3
  HandlerLen = 2
  Irqs <- SomeIrqs
  MaxLines = 4
\* The bound on lines ends every run.
CHECK_DEADLOCK FALSE
INVARIANTS LinesKeptApart ProducerSound InterruptsBackOn WireIsStream
PROPERTIES Drained
