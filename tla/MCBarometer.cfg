SPECIFICATION Spec
CONSTANTS
  Chip <- OurChip
  ReadingsT <- SomeReadingsT
  ReadingsP <- SomeReadingsP
INVARIANTS AgreesWithReference DividesByZeroOnlyUnread
