------------------------------- MODULE TwiBus -------------------------------
(***************************************************************************)
(* The two-wire bus master (firmware/bamf_twi.c), byte by byte.            *)
(*                                                                         *)
(* bamf_twi_write and bamf_twi_write_read share all their steps but the    *)
(* last ones, so that they are one call here, with nothing to read in the  *)
(* first case.  The function starts an operation by writing TWCR and then  *)
(* waits for TWINT; the operation itself, in which the TWI unit and the    *)
(* addressed device take part, is a step of its own and leaves its outcome *)
(* in status.  No device has to answer, or to answer well.                 *)
(***************************************************************************)
EXTENDS Integers

CONSTANT Calls  \* the calls made: bytes to write, and to read (0: bamf_twi_write)

ASSUME TwiAssumption == Calls \subseteq [write : Nat, read : Nat]

VARIABLES
  call,     \* the arguments of the call
  operation,       \* the operation the function waits for, or "idle"
  status,   \* its outcome: "pending", as expected ("good"), or another ("bad")
  i,        \* the loop counter
  ret,      \* the return value
  filled,   \* bytes stored in readBuffer
  \* the bus
  owned,    \* 1 from START to STOP
  device,   \* the device: "off", "listening", or "sending": it drives the data line
  accepted  \* bytes it accepted

busVars == <<call, operation, status, i, ret, filled, owned, device, accepted>>
bus == <<owned, device, accepted>>

BusTypeOK ==
  /\ call \in Calls
  /\ operation \in {"idle", "start", "sla_w", "data", "restart", "sla_r", "last", "read"}
  /\ status \in {"pending", "good", "bad"}
  /\ i \in Nat /\ i <= call.write + call.read
  /\ ret \in -5 .. 0
  /\ filled \in 0 .. call.read
  /\ owned \in {0, 1} /\ device \in {"off", "listening", "sending"}
  /\ accepted \in 0 .. call.write

BusInit ==
  /\ call \in Calls
  /\ operation = "idle" /\ status = "good" /\ i = 0 /\ ret = 0 /\ filled = 0
  /\ owned = 0 /\ device = "off" /\ accepted = 0

-----------------------------------------------------------------------------
(* The TWI unit and the device.                                            *)

Operating(op) == operation = op /\ status = "pending"

\* START is sent, or arbitration is lost.
Start ==
  /\ Operating("start")
  /\ \/ status' = "good" /\ owned' = 1
     \/ status' = "bad" /\ UNCHANGED owned
  /\ UNCHANGED <<call, operation, i, ret, filled, device, accepted>>

\* A device acknowledges its address, for writing or for reading, or none does.
Address ==
  /\ Operating("sla_w") \/ Operating("sla_r")
  /\ \/ status' = "good" /\ device' = IF operation = "sla_w" THEN "listening" ELSE "sending"
     \/ status' = "bad" /\ device' = "off"
  /\ UNCHANGED <<call, operation, i, ret, filled, owned, accepted>>

\* The device acknowledges a byte, or refuses it.
Data ==
  /\ Operating("data")
  /\ \/ status' = "good" /\ accepted' = accepted + 1 /\ UNCHANGED device
     \/ status' = "bad" /\ device' = "off" /\ UNCHANGED accepted
  /\ UNCHANGED <<call, operation, i, ret, filled, owned>>

\* A repeated START ends what the device was listening to, or fails.
Restart ==
  /\ Operating("restart")
  /\ status' \in {"good", "bad"} /\ device' = "off"
  /\ UNCHANGED <<call, operation, i, ret, filled, owned, accepted>>

\* A byte is received; the device goes on sending if it is acknowledged, and lets
\* go of the data line if it is not ("last").
Receive ==
  /\ Operating("read") \/ Operating("last")
  /\ status' = "good"
  /\ device' = IF operation = "last" THEN "off" ELSE device
  /\ UNCHANGED <<call, operation, i, ret, filled, owned, accepted>>

Hardware == Start \/ Address \/ Data \/ Restart \/ Receive

-----------------------------------------------------------------------------
(* The function.                                                           *)

Done(op) == operation = op /\ status = "good"

\* TWCR is written to start an operation.
Issue(op) == operation' = op /\ status' = "pending"

\* STOP and return: a device that drives the data line keeps it.
StopAndReturn(r) ==
  /\ operation' = "idle" /\ ret' = r
  /\ owned' = 0
  /\ device' = IF device = "sending" THEN "sending" ELSE "off"

Begin ==
  /\ operation = "idle"
  /\ call' \in Calls
  /\ Issue("start")
  /\ i' = 0 /\ ret' = 0 /\ filled' = 0 /\ accepted' = 0
  /\ UNCHANGED <<owned, device>>

SendAddress ==
  /\ Done("start")
  /\ Issue("sla_w")
  /\ UNCHANGED <<call, i, ret, filled, bus>>

\* The write loop.
SendData ==
  /\ (Done("sla_w") /\ i < call.write) \/ (Done("data") /\ i + 1 < call.write)
  /\ i' = IF operation = "data" THEN i + 1 ELSE i
  /\ Issue("data")
  /\ UNCHANGED <<call, ret, filled, bus>>

Sent == (Done("sla_w") /\ call.write = 0) \/ (Done("data") /\ i + 1 = call.write)

\* bamf_twi_write is done, bamf_twi_write_read sends a repeated START.
EndWrite ==
  /\ Sent /\ call.read = 0
  /\ StopAndReturn(0)
  /\ UNCHANGED <<call, status, i, filled, accepted>>

SendRestart ==
  /\ Sent /\ call.read > 0
  /\ Issue("restart")
  /\ UNCHANGED <<call, i, ret, filled, bus>>

SendAddressAgain ==
  /\ Done("restart")
  /\ Issue("sla_r")
  /\ UNCHANGED <<call, i, ret, filled, bus>>

NackLate(n) == "read"
\* The acknowledgement byte n will get: none for the last one.
Nack(n) == IF n = call.read - 1 THEN "last" ELSE "read"

FirstRead ==
  /\ Done("sla_r")
  /\ i' = 0
  /\ Issue(Nack(0))
  /\ UNCHANGED <<call, ret, filled, bus>>

StoreByteAgain ==
  /\ Done("read") \/ Done("last")
  /\ i + 1 < call.read
  /\ Issue(Nack(i))
  /\ UNCHANGED <<call, i, ret, filled, bus>>

\* readBuffer[i] = TWDR, and the next turn of the loop.
StoreByte ==
  /\ Done("read") \/ Done("last")
  /\ i + 1 < call.read
  /\ filled' = filled + 1 /\ i' = i + 1
  /\ Issue(Nack(i + 1))
  /\ UNCHANGED <<call, ret, bus>>

EndRead ==
  /\ Done("read") \/ Done("last")
  /\ i + 1 >= call.read
  /\ filled' = filled + 1
  /\ StopAndReturn(0)
  /\ UNCHANGED <<call, status, i, accepted>>

ErrorCodeLost(op) == 0
ErrorCode(op) ==
  CHOOSE r \in -5 .. 0 : <<op, r>> \in
    {<<"start", -1>>, <<"sla_w", -2>>, <<"data", -3>>, <<"restart", -4>>, <<"sla_r", -5>>}

\* Every error path sends STOP and returns its own code.
Error ==
  /\ operation # "idle" /\ status = "bad"
  /\ StopAndReturn(ErrorCode(operation))
  /\ UNCHANGED <<call, status, i, filled, accepted>>

Function == \/ SendAddress \/ SendData \/ EndWrite \/ SendRestart
            \/ SendAddressAgain \/ FirstRead \/ StoreByte \/ EndRead \/ Error

BusNext == Begin \/ Function \/ Hardware

BusSpec == BusInit /\ [][BusNext]_busVars

\* The processor executes, and the TWI unit finishes what it starts: the waits for
\* TWINT have no timeout of their own.
BusFairSpec == BusSpec /\ WF_busVars(Function) /\ WF_busVars(Hardware)

-----------------------------------------------------------------------------
(* Properties.                                                             *)

\* After every call, however it ended, the bus is free and no device drives the
\* data line: the last byte of every read was not acknowledged.
BusReleased == operation = "idle" => owned = 0 /\ device = "off"

\* A call is one transfer that succeeds as a whole or fails without touching the
\* caller's buffer, which is what the drivers rely on when they drop a sample.
Transfer == INSTANCE TwiTransfer WITH
  busy <- IF operation = "idle" THEN 0 ELSE 1,
  accepted <- IF operation = "idle" THEN accepted ELSE 0,
  filled <- IF operation = "idle" THEN filled ELSE 0
ImplementsTransfer == Transfer!Spec

\* Every call returns if the hardware finishes every operation.
CallsReturn == (operation # "idle") ~> (operation = "idle")
=============================================================================
