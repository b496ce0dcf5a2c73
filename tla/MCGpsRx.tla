------------------------------- MODULE MCGpsRx --------------------------------
(* Instance of GpsRx for TLC: every stream of eight bytes, through a receiver *)
(* of two bytes and a line buffer of three.                                   *)
EXTENDS GpsRx
=============================================================================
