------------------------------ MODULE ByteLog ------------------------------
(***************************************************************************)
(* What a consumer of the print buffer promises: everything that is        *)
(* printed comes out once, in the order it was printed, Chunk bytes at a   *)
(* time and never before it was printed.  A byte is named by its place in  *)
(* the stream.  The SD card is such a consumer with chunks of 512          *)
(* (README.md:30), the serial port one with chunks of 1.                   *)
(***************************************************************************)
EXTENDS Naturals, Sequences

CONSTANTS
  Chunk,     \* bytes taken at a time
  MaxBytes   \* bound: bytes printed

VARIABLES
  printed,  \* number of bytes printed so far
  out       \* the bytes that came out

\* Something may have been printed before there was a consumer.
Init == printed \in 0 .. MaxBytes /\ out = << >>

Put == \E n \in 1 .. MaxBytes - printed :
         /\ printed' = printed + n
         /\ UNCHANGED out

Take == /\ Len(out) + Chunk <= printed
        /\ out' = out \o [i \in 1 .. Chunk |-> Len(out) + i]
        /\ UNCHANGED printed

Next == Put \/ Take

Spec == Init /\ [][Next]_<<printed, out>>
=============================================================================
