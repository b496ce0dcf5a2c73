--------------------------- MODULE SensorBusProofs ---------------------------
(***************************************************************************)
(* Proofs about the sensors and the bus they share: about TwiBus, for      *)
(* calls that write and read any number of bytes, and that every call is   *)
(* one of the transfers that Sensors is built on; and about Sensors, for   *)
(* any number of calibration parameters and of steps in a cycle.           *)
(***************************************************************************)
EXTENDS TwiBus, Sensors, TLAPS

-----------------------------------------------------------------------------
(* The bus.                                                                *)

\* What the bus and the locals look like at each operation.
Progress ==
  /\ operation # "idle" => ret = 0
  /\ operation \in {"start", "sla_w"} => i = 0 /\ accepted = 0
  /\ operation = "data" => i < call.write /\ accepted = IF status = "good" THEN i + 1 ELSE i
  /\ operation \in {"restart", "sla_r", "read", "last"} => accepted = call.write /\ call.read > 0
  /\ operation \in {"read", "last"} => i < call.read /\ filled = i /\ operation = Nack(i) /\ status # "bad"
  /\ operation \notin {"read", "last", "idle"} => filled = 0

\* A device drives the data line only while another byte is due from it.
DataLine ==
  /\ operation \in {"idle", "start"} => device = "off"
  /\ operation = "idle" => owned = 0
  /\ device = "sending" => \/ operation = "read"
                           \/ operation = "sla_r" /\ status = "good"
                           \/ operation = "last" /\ status = "pending"

BusIInv == BusTypeOK /\ Progress /\ DataLine

LEMMA ErrorCodes ==
  ASSUME NEW op \in {"start", "sla_w", "data", "restart", "sla_r"}
  PROVE  ErrorCode(op) \in -5 .. -1
<1> DEFINE codes == {<<"start", -1>>, <<"sla_w", -2>>, <<"data", -3>>,
                     <<"restart", -4>>, <<"sla_r", -5>>}
<1>1. \E r \in -5 .. 0 : <<op, r>> \in codes
  OBVIOUS
<1>2. ErrorCode(op) \in -5 .. 0 /\ <<op, ErrorCode(op)>> \in codes
  BY <1>1 DEF ErrorCode
<1> QED BY <1>2

LEMMA BusInitIInv == BusInit => BusIInv
BY TwiAssumption DEF BusInit, BusIInv, BusTypeOK, Progress, DataLine

LEMMA BusNextIInv == BusIInv /\ [BusNext]_busVars => BusIInv'
<1> SUFFICES ASSUME BusIInv, [BusNext]_busVars PROVE BusIInv'
  OBVIOUS
<1>0. \A c \in Calls : c.write \in Nat /\ c.read \in Nat
  BY TwiAssumption
<1> USE <1>0 DEF BusIInv, BusTypeOK, Progress, DataLine, bus, Operating, Done, Issue,
                 StopAndReturn, Nack
<1>1. CASE Begin
  BY <1>1 DEF Begin
<1>2. CASE Start
  BY <1>2 DEF Start
<1>3. CASE Address
  BY <1>3 DEF Address
<1>4. CASE Data
  BY <1>4 DEF Data
<1>5. CASE Restart
  BY <1>5 DEF Restart
<1>6. CASE Receive
  BY <1>6 DEF Receive
<1>7. CASE SendAddress
  BY <1>7 DEF SendAddress
<1>8. CASE SendData
  BY <1>8 DEF SendData
<1>9. CASE EndWrite
  BY <1>9 DEF EndWrite, Sent
<1>10. CASE SendRestart
  BY <1>10 DEF SendRestart, Sent
<1>11. CASE SendAddressAgain
  BY <1>11 DEF SendAddressAgain
<1>12. CASE FirstRead
  BY <1>12 DEF FirstRead
<1>13. CASE StoreByte
  BY <1>13 DEF StoreByte
<1>14. CASE EndRead
  BY <1>14 DEF EndRead
<1>15. CASE Error
  <2>1. operation \in {"start", "sla_w", "data", "restart", "sla_r"}
    BY <1>15 DEF Error
  <2>2. ErrorCode(operation) \in -5 .. -1
    BY <2>1, ErrorCodes
  <2> QED BY <1>15, <2>1, <2>2 DEF Error
<1>16. CASE UNCHANGED busVars
  BY <1>16 DEF busVars
<1> QED
  BY <1>1, <1>2, <1>3, <1>4, <1>5, <1>6, <1>7, <1>8, <1>9, <1>10, <1>11, <1>12,
     <1>13, <1>14, <1>15, <1>16 DEF BusNext, Function, Hardware

\* Every reachable state is well typed: the loops of bamf_twi.c:82-93 and 121-129
\* stay within the caller's buffers.
THEOREM BusTypeCorrect == BusSpec => []BusTypeOK
<1>1. BusIInv => BusTypeOK
  BY DEF BusIInv
<1> QED BY BusInitIInv, BusNextIInv, <1>1, PTL DEF BusSpec

\* Every call leaves the bus free, with no device driving the data line.
THEOREM BusAlwaysReleased == BusSpec => []BusReleased
<1>1. BusIInv => BusReleased
  BY DEF BusIInv, DataLine, BusReleased
<1> QED BY BusInitIInv, BusNextIInv, <1>1, PTL DEF BusSpec

-----------------------------------------------------------------------------
\* The byte-wise function implements the all-or-nothing transfer.
THEOREM Implements == BusSpec => ImplementsTransfer
<1>1. BusInit => Transfer!Init
  BY DEF BusInit, Transfer!Init
<1>2. BusIInv /\ [BusNext]_busVars => [Transfer!Next]_<<IF operation = "idle" THEN 0 ELSE 1, call,
          IF operation = "idle" THEN accepted ELSE 0, IF operation = "idle" THEN filled ELSE 0, ret>>
  <2> SUFFICES ASSUME BusIInv, [BusNext]_busVars
               PROVE  \/ Transfer!Next
                      \/ UNCHANGED <<IF operation = "idle" THEN 0 ELSE 1, call,
                           IF operation = "idle" THEN accepted ELSE 0,
                           IF operation = "idle" THEN filled ELSE 0, ret>>
    OBVIOUS
  <2>0. call.write \in Nat /\ call.read \in Nat
    BY TwiAssumption DEF BusIInv, BusTypeOK
  <2> USE <2>0 DEF BusIInv, BusTypeOK, Progress, DataLine, bus, Operating, Done, Issue, StopAndReturn
  <2>1. CASE Begin
    BY <2>1 DEF Begin, Transfer!Begin, Transfer!Next
  <2>2. CASE Hardware
    BY <2>2 DEF Hardware, Start, Address, Data, Restart, Receive
  <2>3. CASE SendAddress \/ SendData \/ SendRestart \/ SendAddressAgain \/ FirstRead \/ StoreByte
    BY <2>3 DEF SendAddress, SendData, SendRestart, SendAddressAgain, FirstRead, StoreByte,
                Sent, Nack
  <2>4. CASE EndWrite
    BY <2>4 DEF EndWrite, Sent, Transfer!Succeed, Transfer!Next
  <2>5. CASE EndRead
    BY <2>5 DEF EndRead, Transfer!Succeed, Transfer!Next
  <2>6. CASE Error
    <3>1. operation \in {"start", "sla_w", "data", "restart", "sla_r"}
      BY <2>6 DEF Error
    <3>2. ErrorCode(operation) \in -5 .. -1
      BY <3>1, ErrorCodes
    <3> QED BY <2>6, <3>1, <3>2 DEF Error, Transfer!Fail, Transfer!Next
  <2>7. CASE UNCHANGED busVars
    BY <2>7 DEF busVars
  <2> QED BY <2>1, <2>2, <2>3, <2>4, <2>5, <2>6, <2>7 DEF BusNext, Function
<1> QED BY BusInitIInv, BusNextIInv, <1>1, <1>2, PTL DEF BusSpec, ImplementsTransfer, Transfer!Spec

-----------------------------------------------------------------------------
(* The sensors.                                                            *)

\* The order of the calls in main makes the invariants inductive: which sensors have
\* been sampled when main is at a call, and which readings taken at a step.
CallOrder ==
  /\ pc \in {"magnet", "gyro", "print"} => "accel" \in fresh \cup reported
  /\ pc \in {"gyro", "print"} => "magnet" \in fresh \cup reported
  /\ pc = "print" => "gyro" \in fresh \cup reported
  /\ pc \in {"accel_init", "gyro_init", "magnet_init", "presstemp_init"} => step = 0
  /\ step > 2 => "ut" \in freshPT \cup reportedPT
  /\ step > 3 => "up" \in freshPT \cup reportedPT
  /\ pc = "accel_init" => initialized = {}
  /\ pc = "gyro_init" => initialized \subseteq {"accel"}

IInv == TypeOK /\ CallOrder /\ ConversionsKeptApart /\ InitConfigures

LEMMA InitIInv == Init => IInv
BY SensorsAssumption
   DEF Init, IInv, TypeOK, Readings, CallOrder, ConversionsKeptApart, InitConfigures

LEMMA NextType == TypeOK /\ [Next]_vars => TypeOK'
<1> SUFFICES ASSUME TypeOK, [Next]_vars PROVE TypeOK'
  OBVIOUS
<1> USE SensorsAssumption DEF TypeOK, Drivers, Readings, Registers, inits, presstemp, samples, NextStep
<1>1. CASE AccelInit
  <2>1. PICK ok \in Outcomes(4) :
          LET on    == IF ok[1] = 1 THEN 1 ELSE registers["accelOn"]
              awake == ok[2] = 1 /\ on = 1
              range == IF awake /\ ok[3] = 1 THEN 1 ELSE registers["accelRange"]
          IN  /\ registers' = [registers EXCEPT !["accelOn"] = on, !["accelRange"] = range]
              /\ Initialized("accel", awake /\ ok[4] = 1 /\ range = 1)
    BY <1>1 DEF AccelInit
  <2> QED BY <1>1, <2>1 DEF AccelInit, Initialized
<1>2. CASE GyroInit
  BY <1>2 DEF GyroInit, Initialized
<1>3. CASE MagnetInit
  BY <1>3 DEF MagnetInit, Initialized
<1>4. CASE PresstempInit
  BY <1>4 DEF PresstempInit, Initialized
<1>5. ASSUME NEW d \in Drivers, NEW n \in {"magnet", "gyro", "print"}, Sample(d, n)
      PROVE  TypeOK'
  BY <1>5 DEF Sample
<1>6. CASE PrintSamples
  BY <1>6 DEF PrintSamples
<1>7. CASE GetUT
  <2>1. step' \in 0 .. LastStep
    BY <1>7 DEF GetUT
  <2>2. freshPT' \subseteq {"ut", "up"} /\ reportedPT' \subseteq {"ut", "up"}
    BY <1>7 DEF GetUT, FreshPT
  <2> QED BY <1>7, <2>1, <2>2 DEF GetUT
<1>8. CASE GetUP
  <2>1. step' \in 0 .. LastStep
    BY <1>8 DEF GetUP
  <2>2. freshPT' \subseteq {"ut", "up"} /\ reportedPT' \subseteq {"ut", "up"}
    BY <1>8 DEF GetUP, FreshPT
  <2> QED BY <1>8, <2>1, <2>2 DEF GetUP
<1>9. CASE OtherStep
  <2>1. step' \in 0 .. LastStep
    BY <1>9 DEF OtherStep
  <2> QED BY <1>9, <2>1 DEF OtherStep
<1>10. CASE UNCHANGED vars
  BY <1>10 DEF vars
<1> QED BY <1>1, <1>2, <1>3, <1>4, <1>5, <1>6, <1>7, <1>8, <1>9, <1>10
        DEF Next, MainInit, Loop

LEMMA NextOrder == TypeOK /\ CallOrder /\ [Next]_vars => CallOrder'
<1> SUFFICES ASSUME TypeOK, CallOrder, [Next]_vars PROVE CallOrder'
  OBVIOUS
<1>0. step \in Nat /\ LastStep \in Nat /\ LastStep > 4
  BY SensorsAssumption DEF TypeOK
<1> USE DEF CallOrder, inits, presstemp, samples, NextStep
<1>1. CASE AccelInit \/ GyroInit \/ MagnetInit \/ PresstempInit
  BY <1>1 DEF AccelInit, GyroInit, MagnetInit, PresstempInit, Initialized
<1>2. CASE Sample("accel", "magnet")
  BY <1>2 DEF Sample
<1>3. CASE Sample("magnet", "gyro")
  BY <1>3 DEF Sample
<1>4. CASE Sample("gyro", "print")
  BY <1>4 DEF Sample
<1>5. CASE PrintSamples
  BY <1>5 DEF PrintSamples
<1>6. CASE GetUT
  BY <1>0, <1>6 DEF GetUT, FreshPT
<1>7. CASE GetUP
  BY <1>0, <1>7 DEF GetUP, FreshPT
<1>8. CASE OtherStep
  BY <1>0, <1>8 DEF OtherStep
<1>9. CASE UNCHANGED vars
  BY <1>9 DEF vars
<1> QED BY <1>1, <1>2, <1>3, <1>4, <1>5, <1>6, <1>7, <1>8, <1>9 DEF Next, MainInit, Loop

LEMMA NextConversions == ConversionsKeptApart /\ [Next]_vars => ConversionsKeptApart'
<1> SUFFICES ASSUME ConversionsKeptApart, [Next]_vars PROVE ConversionsKeptApart'
  OBVIOUS
<1> USE DEF ConversionsKeptApart, inits, presstemp
<1>1. CASE GetUT
  BY <1>1 DEF GetUT
<1>2. CASE GetUP
  BY <1>2 DEF GetUP
<1>3. CASE UNCHANGED <<ut, up>>
  BY <1>3
<1> QED BY <1>1, <1>2, <1>3 DEF Next, MainInit, Loop, AccelInit, GyroInit, MagnetInit,
           PresstempInit, Sample, PrintSamples, OtherStep, vars

LEMMA NextConfigures ==
  TypeOK /\ CallOrder /\ InitConfigures /\ [Next]_vars => InitConfigures'
<1> SUFFICES ASSUME TypeOK, CallOrder, InitConfigures, [Next]_vars PROVE InitConfigures'
  OBVIOUS
<1>0. registers \in [Registers -> {0, 1}]
  BY DEF TypeOK
<1> USE <1>0 DEF InitConfigures, CallOrder, inits, Initialized, Registers
<1>1. CASE AccelInit
  BY <1>1 DEF AccelInit
<1>2. CASE GyroInit
  BY <1>2 DEF GyroInit
<1>3. CASE MagnetInit
  BY <1>3 DEF MagnetInit
<1>4. CASE PresstempInit
  BY <1>4 DEF PresstempInit
<1>5. CASE UNCHANGED inits
  BY <1>5
<1> QED BY <1>1, <1>2, <1>3, <1>4, <1>5 DEF Next, MainInit, Loop, Sample, PrintSamples,
           GetUT, GetUP, OtherStep, vars

LEMMA NextIInv == IInv /\ [Next]_vars => IInv'
BY NextType, NextOrder, NextConversions, NextConfigures DEF IInv

\* Every reachable state is well typed.
THEOREM TypeCorrect == Spec => []TypeOK
<1>1. IInv => TypeOK
  BY DEF IInv
<1> QED BY InitIInv, NextIInv, <1>1, PTL DEF Spec

\* No JAGMT line passes old samples off as new ones.
THEOREM SamplesHonest == Spec => []SamplesFreshOrReported
<1>1. IInv => SamplesFreshOrReported
  BY DEF IInv, CallOrder, SamplesFreshOrReported, Drivers
<1> QED BY InitIInv, NextIInv, <1>1, PTL DEF Spec

\* No PT line passes old readings off as new ones.
THEOREM PressureHonest == Spec => []PressureFreshOrReported
<1>1. IInv => PressureFreshOrReported
  BY DEF IInv, CallOrder, PressureFreshOrReported
<1> QED BY InitIInv, NextIInv, <1>1, PTL DEF Spec

\* A temperature is never taken for a pressure.
THEOREM ConversionsApart == Spec => []ConversionsKeptApart
<1>1. IInv => ConversionsKeptApart
  BY DEF IInv
<1> QED BY InitIInv, NextIInv, <1>1, PTL DEF Spec

\* An accelerometer or gyroscope that initialised without error is configured.
THEOREM InitsConfigure == Spec => []InitConfigures
<1>1. IInv => InitConfigures
  BY DEF IInv
<1> QED BY InitIInv, NextIInv, <1>1, PTL DEF Spec
=============================================================================
