------------------------------ MODULE MCUsart -------------------------------
(* Instances of Usart for TLC: a buffer of six bytes, wrapped twice by lines *)
(* of two and three bytes.                                                   *)
EXTENDS Usart

\* Transmit interrupts alone; with GPS sentences; and the pins on top of the receiver.
SomeIrqs == {{"tx"}, {"tx", "rx"}, {"rx", "edge"}}
=============================================================================
