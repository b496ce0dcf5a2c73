----------------------------- MODULE MCTimestamps -----------------------------
(* Instance of Timestamps for TLC: three seconds and a half of a log. *)
EXTENDS Timestamps

CarriedTo == {1}
=============================================================================
