SPECIFICATION FairSpec
CONSTANTS
  BufferSize = 3
  Depth = 2
  MaxBytes = 8
\* The bound on the bytes ends every run.
CHECK_DEADLOCK FALSE
INVARIANTS SentencesWhole LinesSound
PROPERTIES Served
