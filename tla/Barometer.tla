------------------------------ MODULE Barometer -------------------------------
(***************************************************************************)
(* Pressure and temperature from the raw readings of the BMP085            *)
(* (firmware/presstemp.c), in the arithmetic of the AVR, with what was     *)
(* read of the calibration, and the same computation in                    *)
(* hardwareNotes/calcTempAndPress.py, on integers of any size and with     *)
(* Python's division.                                                      *)
(*                                                                         *)
(* An overflow of int32_t, and a pressure that does not fit, has the       *)
(* outcome "overflow", as what comes out is no pressure any more.          *)
(***************************************************************************)
EXTENDS Integers, SequencesExt

CONSTANTS
  Chip,                \* the parameters of the chip
  ReadingsT, ReadingsP \* the raw readings

Names == DOMAIN Chip
Unsigned == {"AC4", "AC5", "AC6"}

ASSUME BarometerAssumption ==
  /\ Unsigned \subseteq Names
  /\ \A name \in Names : Chip[name] \in IF name \in Unsigned THEN 0 .. 65535 ELSE -32768 .. 32767
  /\ ReadingsT \subseteq 0 .. 65535 /\ ReadingsP \subseteq 0 .. 65535

VARIABLES
  par,    \* presstemp_param_*
  ut, up, \* presstemp_ucomp_T, presstemp_ucomp_P
  out,    \* what presstemp_calcPressureAndTemp gives
  pc      \* the next call of main

vars == <<par, ut, up, out, pc>>

-----------------------------------------------------------------------------
(* Arithmetic.  TLC's integers have 32 bits as well, hence the detours.     *)

MaxInt == 2147483647
Magnitude(a) == IF a < 0 THEN -a ELSE a

\* a * b is an int32_t.
Fits(a, b) == b = 0 \/ Magnitude(a) <= MaxInt \div Magnitude(b)

\* a >> n
Shift(a, n) == a \div 2^n

\* Division in C, towards zero.
Quotient(a, b) ==
  LET q == Magnitude(a) \div Magnitude(b) IN IF (a < 0) = (b < 0) THEN q ELSE -q

\* (a * the product of factors) \div b, by long division.
Scaled(a, factors, b) ==
  FoldLeft(LAMBDA qr, f : <<qr[1] * f + (qr[2] * f) \div b, (qr[2] * f) % b>>,
           <<a \div b, a % b>>, factors)[1]

\* floor(a * b / 2^15), for a < 2^16
Shifted15(a, b) == a * (b \div 32768) + (a * (b % 32768)) \div 32768

Outcome(kind) == [kind |-> kind, temperature |-> 0, pressure |-> 0]

HalfOnly(d, b4) ==
  IF d <= MaxInt \div 50000 THEN Scaled(d, <<10, 10, 10, 10, 10>>, b4)
                            ELSE Scaled(d, <<10, 10, 10, 10, 5>>, b4)

\* (B7 << 1) / B4 for B7 = d * 50000, or (B7 / B4) << 1 when B7 has its top bit set
PressureOf(d, b4) ==
  IF d <= MaxInt \div 50000 THEN Scaled(d, <<10, 10, 10, 10, 10>>, b4)
                            ELSE 2 * Scaled(d, <<10, 10, 10, 10, 5>>, b4)

\* presstemp_calcPressureAndTemp
Compensated(c, t, p) ==
  LET X1 == Shift((t - c.AC6) * c.AC5, 15)
      B5 == X1 + Quotient(c.MC * 2048, X1 + c.MD)
      B6 == B5 - 4000
      square == Shift(B6 * B6, 12)
      B3 == Shift(c.AC1 * 4 + Shift(c.B2 * square, 11) + Shift(c.AC2 * B6, 11) + 2, 2)
      X3 == Shift(Shift(c.AC3 * B6, 13) + Shift(c.B1 * square, 16) + 2, 2)
      B4 == Shifted15(c.AC4, X3 + 32768) % 2^17
      d == p - B3
      pressure == PressureOf(d, B4)
      high == Shift(pressure, 8)
  IN  IF ~Fits(t - c.AC6, c.AC5) THEN Outcome("overflow")
      ELSE IF X1 + c.MD = 0 THEN Outcome("zero divisor")
      ELSE IF ~(/\ Fits(B6, B6) /\ Fits(c.B2, square) /\ Fits(c.AC2, B6)
                /\ Fits(c.AC3, B6) /\ Fits(c.B1, square)) THEN Outcome("overflow")
      ELSE IF B4 = 0 THEN Outcome("zero divisor")
      ELSE IF ~(/\ d \in 0 .. 85899 /\ d \div B4 < 21474
                /\ Fits(high, high) /\ Fits(high * high, 3038)
                /\ Fits(7357, pressure)) THEN Outcome("overflow")
      ELSE [kind |-> "value",
            temperature |-> Shift(B5 + 8, 4),
            pressure |-> pressure + Shift(Shift(high * high * 3038, 16)
                                          + Shift(-7357 * pressure, 16) + 3791, 4)]

\* calcTempAndPress.py, for the chip's own parameters: it divides towards minus infinity.
Reference(c, t, p) ==
  LET X1 == ((t - c.AC6) * c.AC5) \div 32768
      B5 == X1 + (c.MC * 2048) \div (X1 + c.MD)
      B6 == B5 - 4000
      B3 == (c.AC1 * 4 + (c.B2 * ((B6 * B6) \div 4096)) \div 2048 + (c.AC2 * B6) \div 2048 + 2) \div 4
      X3 == ((c.AC3 * B6) \div 8192 + (c.B1 * ((B6 * B6) \div 4096)) \div 65536 + 2) \div 4
      B4 == Shifted15(c.AC4, X3 + 32768)
      B7Small == p - B3 < 42950
      pressure == IF B7Small THEN Scaled(p - B3, <<100, 100, 10>>, B4)
                             ELSE Scaled(p - B3, <<100, 100, 5>>, B4) * 2
  IN  [temperature |-> (B5 + 8) \div 16,
       pressure |-> pressure + (((pressure \div 256) * (pressure \div 256) * 3038) \div 65536
                                + (-7357 * pressure) \div 65536 + 3791) \div 16]

-----------------------------------------------------------------------------
(* The calls of main.                                                      *)

Unread == [name \in Names |-> 0]

TypeOK ==
  /\ par \in [Names -> -32768 .. 65535]
  /\ ut \in 0 .. 65535 /\ up \in 0 .. 65535
  /\ out.kind \in {"none", "overflow", "zero divisor", "value"}
  /\ out.temperature \in Int /\ out.pressure \in Int
  /\ pc \in {"init", "UT", "UP", "calc"}

Init ==
  /\ par = Unread /\ ut = 0 /\ up = 0
  /\ out = Outcome("none") /\ pc = "init"

ReadZero(failed) ==
  [name \in Names |-> IF name \in failed THEN 0 ELSE Chip[name]]

\* _presstemp_readS16_reg and _presstemp_readU16_reg return -1 when the bus fails.
Read(failed) ==
  [name \in Names |-> IF name \notin failed THEN Chip[name]
                      ELSE IF name \in Unsigned THEN 65535 ELSE -1]

\* presstemp_init: when the chip does not identify itself the parameters are not read;
\* main reports it and goes on.
PresstempInit ==
  /\ pc = "init" /\ pc' = "UT"
  /\ \/ UNCHANGED par
     \/ \E failed \in SUBSET Names : par' = Read(failed)
  /\ UNCHANGED <<ut, up, out>>

\* The command fails, the register cannot be read, or there is a reading.
GetUT ==
  /\ pc = "UT" /\ pc' = "UP"
  /\ ut' \in {ut, 65535} \cup ReadingsT
  /\ out' = Outcome("none")
  /\ UNCHANGED <<par, up>>

GetUP ==
  /\ pc = "UP" /\ pc' = "calc"
  /\ up' \in {up, 65535} \cup ReadingsP
  /\ UNCHANGED <<par, ut, out>>

CalcPressureAndTemp ==
  /\ pc = "calc" /\ pc' = "UT"
  /\ out' = Compensated(par, ut, up)
  /\ UNCHANGED <<par, ut, up>>

Next == PresstempInit \/ GetUT \/ GetUP \/ CalcPressureAndTemp

Spec == Init /\ [][Next]_vars

-----------------------------------------------------------------------------
(* Properties.                                                             *)

Measured == out.kind # "none" /\ par = Chip /\ ut \in ReadingsT /\ up \in ReadingsP

\* From -40 to 85 degrees and from 300 to 1100 hPa nothing overflows, and what main
\* prints is what calcTempAndPress.py computes, but for a tenth of a degree and for
\* the 13 Pa (a metre of altitude) that C's division of a negative number can make.
AgreesWithReference ==
  Measured =>
    LET expected == Reference(Chip, ut, up)
    IN  /\ expected.temperature \in -400 .. 850 /\ expected.pressure \in 30000 .. 110000
        => /\ out.kind = "value"
           /\ Magnitude(out.temperature - expected.temperature) <= 1
           /\ Magnitude(out.pressure - expected.pressure) <= 13

\* main computes a pressure even when initialisation failed.  It divides by zero only
\* if the parameters were never read (presstemp.c:255, 272-276): not when some of
\* them could not be, whichever they are, nor when a reading failed, unless an int32_t
\* has overflowed before.
DividesByZeroOnlyUnread == out.kind = "zero divisor" => par = Unread
=============================================================================
