---------------------------- MODULE MCCircWriter ----------------------------
(* Instances of CircWriter for TLC: in the calm one the ring holds two chunks *)
(* of eight bytes, and lines and messages are as long as Fits allows: 4 + 4 * 1*)
(* of 8; the one with all interrupts uses chunks of two bytes and an index     *)
(* read in two halves.                                                         *)
EXTENDS CircWriter

Transmit == {"tx"}
AllInterrupts == {"rx", "tx", "edge"}
NoFaults == {}
AllFaults == {"command", "response", "timeout"}
SomeLines == {1, 4}
ShortLines == {1}
LessThanChunk == 0 .. Chunk - 1
LessThanRing == 0 .. Size - 1
=============================================================================
