SPECIFICATION FairSpec
CONSTANTS
  Byte = 16
  Unit = 4
  Cards <- SmallCards
  GoIdleTries = 2
  OpCondTries = 3
  MaxBoots = 2
\* The power may stay off.
CHECK_DEADLOCK FALSE
PROPERTIES HandshakeEnds ImplementsProbe
