----------------------------- MODULE MCCardInit -----------------------------
(* Instances of CardInit for TLC: bytes of four bits, so that a uint32_t has  *)
(* 16, and cards whose middle byte is below one half of its range.            *)
EXTENDS CardInit

SmallCards == [high : {0, 3}, mid : {0, 3, 7}, low : {0, 8, 15}]
=============================================================================
