------------------------------ MODULE MCClocks ------------------------------
(* Instances of Clocks for TLC: a timer of six counts with a period of four,  *)
(* and handlers that are short or long against the pulses of the pins.        *)
EXTENDS Clocks

\* Short against a pulse, and longer than a period of the timer.
SomeRuns == {2, 6}
=============================================================================
