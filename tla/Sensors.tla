------------------------------ MODULE Sensors -------------------------------
(***************************************************************************)
(* The sensors and the main loop that samples them (firmware/main.c,       *)
(* accelerometer.c, magnetometer.c, gyroscope.c, presstemp.c).             *)
(*                                                                         *)
(* Every driver call is one action.  What it does on the bus is a series   *)
(* of transfers as module TwiTransfer promises them: each succeeds as a    *)
(* whole (1) or fails without effect on the caller's buffer (0).  The      *)
(* registers the drivers set belong to the devices, which keep them when   *)
(* only the processor is reset.  Values are not modelled, only which of    *)
(* them were measured in the round, or the cycle of ten rounds, that       *)
(* prints them.                                                            *)
(***************************************************************************)
EXTENDS Naturals

CONSTANTS
  Coefficients,  \* the calibration parameters of the pressure sensor (AC1 .. MD)
  LastStep       \* the steps of a cycle are 0 .. LastStep (9)

ASSUME SensorsAssumption == LastStep \in Nat /\ LastStep > 4

VARIABLES
  pc,         \* the next call of main
  step,       \* main's step
  registers,  \* the devices' registers: 1 when set as the driver sets them
  conversion, \* what the pressure sensor's result register holds
  parameters, \* presstemp_param_*: "zero", "failed" (-1) or "chip"
  ut, up,     \* presstemp_ucomp_T and _P: what was read
  \* history, read by the properties only
  initialized, \* the drivers whose init call returned 0
  fresh,       \* the drivers whose sample is of this round
  reported,    \* the drivers for which a failure was printed in this round
  freshPT,     \* of ut and up, those measured in this cycle
  reportedPT   \* of ut and up, those for which a failure was printed in this cycle

inits == <<registers, parameters, initialized>>
presstemp == <<conversion, ut, up, freshPT, reportedPT>>
samples == <<fresh, reported>>
vars == <<pc, step, inits, presstemp, samples>>

Drivers == {"accel", "gyro", "magnet"}
Readings == {"zero", "failed", "none", "temp", "pressure"}
Registers == {"accelOn", "accelRange", "gyroOn", "magnetOn", "magnetGain"}

TypeOK ==
  /\ pc \in {"accel_init", "gyro_init", "magnet_init", "presstemp_init",
             "accel", "magnet", "gyro", "print", "switch"}
  /\ step \in 0 .. LastStep
  /\ registers \in [Registers -> {0, 1}]
  /\ conversion \in {"none", "temp", "pressure"}
  /\ parameters \in [Coefficients -> {"zero", "failed", "chip"}]
  /\ ut \in Readings /\ up \in Readings
  /\ initialized \subseteq Drivers \cup {"presstemp"}
  /\ fresh \subseteq Drivers /\ reported \subseteq Drivers
  /\ freshPT \subseteq {"ut", "up"} /\ reportedPT \subseteq {"ut", "up"}

Init ==
  /\ pc = "accel_init" /\ step = 0
  /\ registers \in [Registers -> {0, 1}]
  /\ conversion = "none"
  /\ parameters = [c \in Coefficients |-> "zero"]
  /\ ut = "zero" /\ up = "zero"
  /\ initialized = {} /\ fresh = {} /\ reported = {}
  /\ freshPT = {} /\ reportedPT = {}

\* The outcomes of n transfers, in the order they are made.
Outcomes(n) == [1 .. n -> {0, 1}]

Initialized(driver, good) ==
  initialized' = IF good THEN initialized \cup {driver} ELSE initialized

-----------------------------------------------------------------------------
(* Initialisation.                                                         *)

AccelInitUnverified ==
  /\ pc = "accel_init"
  /\ \E ok \in Outcomes(2) :
       /\ registers' = [registers EXCEPT !["accelOn"] = IF ok[1] = 1 THEN 1 ELSE @,
                                         !["accelRange"] = IF ok[2] = 1 THEN 1 ELSE @]
       /\ Initialized("accel", TRUE)
  /\ pc' = "gyro_init"
  /\ UNCHANGED <<step, parameters, presstemp, samples>>

\* accel_init writes two registers, ignores how that ended, and reads each back.
AccelInit ==
  /\ pc = "accel_init"
  /\ \E ok \in Outcomes(4) :
       LET on    == IF ok[1] = 1 THEN 1 ELSE registers["accelOn"]
           awake == ok[2] = 1 /\ on = 1
           range == IF awake /\ ok[3] = 1 THEN 1 ELSE registers["accelRange"]
       IN  /\ registers' = [registers EXCEPT !["accelOn"] = on, !["accelRange"] = range]
           /\ Initialized("accel", awake /\ ok[4] = 1 /\ range = 1)
  /\ pc' = "gyro_init"
  /\ UNCHANGED <<step, parameters, presstemp, samples>>

\* gyro_init: the chip's identification, off (ignored), and on again.
GyroInit ==
  /\ pc = "gyro_init"
  /\ \/ Initialized("gyro", FALSE) /\ UNCHANGED registers  \* no or another answer
     \/ \E ok \in Outcomes(2) :
          /\ registers' = [registers EXCEPT !["gyroOn"] = IF ok[2] = 1 THEN 1
                                                          ELSE IF ok[1] = 1 THEN 0 ELSE @]
          /\ Initialized("gyro", ok[2] = 1)
  /\ pc' = "magnet_init"
  /\ UNCHANGED <<step, parameters, presstemp, samples>>

\* magnet_init: on (ignored), a register with a known value, and the gain (ignored).
MagnetInit ==
  /\ pc = "magnet_init"
  /\ \E ok \in Outcomes(3) :
       /\ registers' = [registers EXCEPT
                          !["magnetOn"]   = IF ok[1] = 1 THEN 1 ELSE @,
                          !["magnetGain"] = IF ok[2] = 1 /\ ok[3] = 1 THEN 1 ELSE @]
       /\ Initialized("magnet", ok[2] = 1)
  /\ pc' = "presstemp_init"
  /\ UNCHANGED <<step, parameters, presstemp, samples>>

\* presstemp_init: the chip's identification, and its parameters one by one; a
\* parameter that cannot be read becomes -1, and the result is 0 all the same.
PresstempInit ==
  /\ pc = "presstemp_init"
  /\ \/ Initialized("presstemp", FALSE) /\ UNCHANGED parameters
     \/ /\ parameters' \in [Coefficients -> {"failed", "chip"}]
        /\ Initialized("presstemp", TRUE)
  /\ pc' = "accel"
  /\ UNCHANGED <<step, registers, presstemp, samples>>

-----------------------------------------------------------------------------
(* The main loop.                                                          *)

SampleSilent(driver, next) ==
  /\ pc = driver
  /\ fresh' \in {fresh, fresh \cup {driver}}
  /\ pc' = next
  /\ UNCHANGED <<step, inits, presstemp, reported>>

\* accel_take_sample and the like: all three values of a transfer that succeeds; else
\* the old values stay and main prints the failure.
Sample(driver, next) ==
  /\ pc = driver
  /\ \/ fresh' = fresh \cup {driver} /\ UNCHANGED reported
     \/ reported' = reported \cup {driver} /\ UNCHANGED fresh
  /\ pc' = next
  /\ UNCHANGED <<step, inits, presstemp>>

\* The JAGMT line.
PrintSamples ==
  /\ pc = "print"
  /\ pc' = "switch"
  /\ UNCHANGED <<step, inits, presstemp, samples>>

NextStep ==
  /\ pc' = "accel" /\ fresh' = {} /\ reported' = {}
  /\ step' = IF step + 1 > LastStep THEN 0 ELSE step + 1

\* A reading ends with a fresh value or a printed failure.
FreshPT(name, good) ==
  IF good THEN freshPT' = freshPT \cup {name} /\ UNCHANGED reportedPT
          ELSE reportedPT' = reportedPT \cup {name} /\ UNCHANGED freshPT

GetUTSilent ==
  /\ pc = "switch" /\ step = 2
  /\ \/ UNCHANGED <<conversion, ut, freshPT>>
     \/ conversion' = "temp" /\ ut' = conversion' /\ freshPT' = freshPT \cup {"ut"}
     \/ conversion' = "temp" /\ ut' = "failed" /\ UNCHANGED freshPT
  /\ NextStep
  /\ UNCHANGED <<inits, up, reportedPT>>

\* presstemp_get_UT: start a conversion, or print a failure and leave everything;
\* wait, and read the result, which is 65535 with a printed failure if that fails.
GetUT ==
  /\ pc = "switch" /\ step = 2
  /\ \/ UNCHANGED <<conversion, ut>> /\ FreshPT("ut", FALSE)
     \/ conversion' = "temp" /\ ut' = conversion' /\ FreshPT("ut", TRUE)
     \/ conversion' = "temp" /\ ut' = "failed" /\ FreshPT("ut", FALSE)
  /\ NextStep
  /\ UNCHANGED <<inits, up>>

GetUPAlways ==
  /\ pc = "switch" /\ step = 3
  /\ conversion' \in {conversion, "pressure"}
  /\ \/ up' = conversion' /\ FreshPT("up", TRUE)
     \/ up' = "failed" /\ FreshPT("up", FALSE)
  /\ NextStep
  /\ UNCHANGED <<inits, ut>>

\* presstemp_get_UP: the same for the pressure.
GetUP ==
  /\ pc = "switch" /\ step = 3
  /\ \/ UNCHANGED <<conversion, up>> /\ FreshPT("up", FALSE)
     \/ conversion' = "pressure" /\ up' = conversion' /\ FreshPT("up", TRUE)
     \/ conversion' = "pressure" /\ up' = "failed" /\ FreshPT("up", FALSE)
  /\ NextStep
  /\ UNCHANGED <<inits, ut>>

\* presstemp_calcPressureAndTemp and the PT line (step 4), the LED, or nothing; after
\* the last step a new cycle begins.
OtherStep ==
  /\ pc = "switch" /\ step \notin {2, 3}
  /\ NextStep
  /\ freshPT' = IF step' = 0 THEN {} ELSE freshPT
  /\ reportedPT' = IF step' = 0 THEN {} ELSE reportedPT
  /\ UNCHANGED <<inits, conversion, ut, up>>

MainInit == AccelInit \/ GyroInit \/ MagnetInit \/ PresstempInit

Loop == \/ Sample("accel", "magnet") \/ Sample("magnet", "gyro") \/ Sample("gyro", "print")
        \/ PrintSamples \/ GetUT \/ GetUP \/ OtherStep

Next == MainInit \/ Loop

Spec == Init /\ [][Next]_vars

-----------------------------------------------------------------------------
(* Properties.                                                             *)

\* A JAGMT line shows the samples of its own round, or the log says before it which
\* sensor failed (main.c:105-125).
SamplesFreshOrReported ==
  pc = "print" => Drivers \subseteq fresh \cup reported

\* A PT line is computed from a temperature and a pressure measured in its own cycle, or
\* the log has a failure before it for each that was not (main.c:135-150); the message of a
\* read that failed does not say of which (presstemp.c:62).
PressureFreshOrReported ==
  pc = "switch" /\ step = 4 => {"ut", "up"} \subseteq freshPT \cup reportedPT

\* Both conversions end in the same result register (presstemp.c:166, 195): a
\* temperature is never taken for a pressure, whichever transfers fail.
ConversionsKeptApart == ut # "pressure" /\ up \notin {"temp", "none"}

\* An accelerometer or gyroscope whose init call returned 0 is configured, although
\* the code ignores how some of its writes end (accelerometer.c:31, gyroscope.c:37).
\* Nothing of the kind holds of the magnetometer's gain and the pressure sensor's
\* parameters, whose failures do not reach the result of the init call.
InitConfigures ==
  /\ "accel" \in initialized => registers["accelOn"] = 1 /\ registers["accelRange"] = 1
  /\ "gyro" \in initialized => registers["gyroOn"] = 1
=============================================================================
