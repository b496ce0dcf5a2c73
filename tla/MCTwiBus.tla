------------------------------ MODULE MCTwiBus ------------------------------
(* Instances of TwiBus for TLC: the shapes of the calls the drivers make.     *)
EXTENDS TwiBus

\* Configuration writes, single-register reads, and the blocks of a sample.
DriverCalls == {[write |-> 2, read |-> 0], [write |-> 1, read |-> 1],
                [write |-> 1, read |-> 2], [write |-> 1, read |-> 6],
                [write |-> 1, read |-> 8]}
=============================================================================
