---------------------------- MODULE TwiTransfer ----------------------------
(***************************************************************************)
(* What bamf_twi_write and bamf_twi_write_read promise their callers: one  *)
(* transfer, which either succeeds as a whole or fails with a negative     *)
(* value and leaves the caller's read buffer alone; and afterwards the bus *)
(* is free for the next one.                                               *)
(***************************************************************************)
EXTENDS Integers

CONSTANT Calls  \* the calls made: bytes to write, and to read (0: bamf_twi_write)

VARIABLES
  busy,      \* whether a call is in progress
  call,      \* its arguments
  accepted,  \* bytes the device accepted in the last finished call
  filled,    \* bytes of the read buffer that call filled
  ret        \* what it returned

Init ==
  /\ busy = 0 /\ call \in Calls
  /\ accepted = 0 /\ filled = 0 /\ ret = 0

Begin ==
  /\ busy = 0 /\ busy' = 1
  /\ call' \in Calls
  /\ accepted' = 0 /\ filled' = 0 /\ ret' = 0

Succeed ==
  /\ busy = 1 /\ busy' = 0
  /\ accepted' = call.write /\ filled' = call.read /\ ret' = 0
  /\ UNCHANGED call

Fail ==
  /\ busy = 1 /\ busy' = 0
  /\ accepted' \in 0 .. call.write /\ filled' = 0 /\ ret' \in -5 .. -1
  /\ UNCHANGED call

Next == Begin \/ Succeed \/ Fail

Spec == Init /\ [][Next]_<<busy, call, accepted, filled, ret>>
=============================================================================
