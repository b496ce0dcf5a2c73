----------------------------- MODULE MCBarometer ------------------------------
(* Instance of Barometer for TLC: the chip of calcTempAndPress.py, readings    *)
(* over its range of temperature and pressure, and on both sides of the value  *)
(* from which B7 has its top bit set.                                          *)
EXTENDS Barometer

OurChip ==
  [AC1 |-> 7592, AC2 |-> -1133, AC3 |-> -14903, AC4 |-> 34089, AC5 |-> 24936,
   AC6 |-> 14672, B1 |-> 6515, B2 |-> 43, MC |-> -11786, MD |-> 2859]
SomeReadingsT == {15448, 15600, 16343, 18001, 19999, 21834, 23591, 23655, 24159, 26390, 30011, 34333}
SomeReadingsP == {15408, 20003, 26111, 31777, 36500, 41876, 45001, 48002, 49017, 51408, 51409,
                  51822, 51823, 52063, 52064, 52065, 52119, 52120, 52121, 52825}
=============================================================================
