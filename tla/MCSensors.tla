----------------------------- MODULE MCSensors ------------------------------
(* Instances of Sensors for TLC: two of the eleven calibration parameters, and *)
(* the code's cycle of ten steps.                                              *)
EXTENDS Sensors

TwoCoefficients == {"AC1", "MD"}
=============================================================================
