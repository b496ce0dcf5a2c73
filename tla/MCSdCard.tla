------------------------------ MODULE MCSdCard ------------------------------
(* The instance of SdCard for TLC.  A ring of seven blocks and a period of   *)
(* three let the ring wrap past an update of block 1 and let the head pass   *)
(* several.  Chunk numbers stay below MagicWord.                             *)
EXTENDS SdCard

AllFaults == FaultKinds

\* Never used, near the end of the ring, and past the end of the card.
SmallMeta == {0, 7, 77}
\* Cold memory, and the identifying string an earlier SPI_Init read there.
SomeLeftovers == {0, 1000}
\* From 3 to 4 the number changes below and above.
SomeWidths == {4}
NoFaults == {}
=============================================================================
