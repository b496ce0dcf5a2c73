-------------------------------- MODULE GpsRx ---------------------------------
(***************************************************************************)
(* The receiver of GPS sentences (USART1_RX in firmware/usart.c).          *)
(*                                                                         *)
(* The GPS module sends bytes at any moment; the receiver holds a few of   *)
(* them, and overwrites the newest when it is full.  The handler takes     *)
(* them one by one into fifo_buffer and puts the line into the print       *)
(* buffer at every line feed, which module Usart takes as one step.  It    *)
(* comes late when main has masked it, when another handler runs, and when *)
(* it transmits, which may write a block to the SD card: bytes arrive      *)
(* between any two steps here.                                             *)
(*                                                                         *)
(* A byte is the number of its arrival.  A sentence is the bytes after a   *)
(* line feed up to the next one.                                           *)
(***************************************************************************)
EXTENDS Naturals, Sequences, FiniteSets

CONSTANTS
  BufferSize, \* FIFO_BUFFER_SIZE (100)
  Depth,      \* bytes the receiver holds: two in its buffer, one in the shift register
  MaxBytes    \* bound: bytes sent

ASSUME GpsRxAssumption ==
  BufferSize \in Nat \ {0} /\ Depth \in Nat \ {0} /\ MaxBytes \in Nat

VARIABLES
  waiting,   \* bytes in the receiver
  rxEnabled, \* RXCIE1
  copying,   \* main fills the print buffer
  serving,   \* the handler runs
  line,      \* fifo_buffer up to fifo_buffer_len
  printed,   \* the lines put into the print buffer
  \* history, read by the properties only
  sent,      \* number of bytes sent
  feeds,     \* those that are line feeds
  lost       \* those that were overwritten in the receiver

gps == <<sent, feeds, lost>>
buffers == <<line, printed>>
vars == <<waiting, rxEnabled, copying, serving, buffers, gps>>

TypeOK ==
  /\ waiting \subseteq 1 .. sent /\ feeds \subseteq 1 .. sent /\ lost \subseteq 1 .. sent
  /\ rxEnabled \in {0, 1} /\ copying \in {0, 1} /\ serving \in {0, 1}
  /\ line \in Seq(1 .. sent) /\ Len(line) < BufferSize
  /\ printed \in Seq(Seq(1 .. sent))
  /\ sent \in Nat

Init ==
  /\ waiting = {} /\ rxEnabled = 1 /\ copying = 0 /\ serving = 0
  /\ line = << >> /\ printed = << >>
  /\ sent = 0 /\ feeds = {} /\ lost = {}

\* A byte arrives.  The newest of a full receiver is in the shift register, where the
\* next one overwrites it.
Arrive ==
  /\ sent < MaxBytes
  /\ sent' = sent + 1
  /\ \/ feeds' = feeds
     \/ feeds' = feeds \cup {sent'}
  /\ IF Cardinality(waiting) < Depth
       THEN waiting' = waiting \cup {sent'} /\ lost' = lost
       ELSE waiting' = (waiting \ {sent}) \cup {sent'} /\ lost' = lost \cup {sent}
  /\ UNCHANGED <<rxEnabled, copying, serving, buffers>>

\* USART0_printf masks the receiver while it copies main's line.
Copy ==
  /\ copying = 0 /\ serving = 0
  /\ copying' = 1 /\ rxEnabled' = 0
  /\ UNCHANGED <<waiting, serving, buffers, gps>>

\* The handler of a pin, which prints on top of main, unmasks it.
Unmask ==
  /\ copying = 1 /\ serving = 0
  /\ rxEnabled' = 1
  /\ UNCHANGED <<waiting, copying, serving, buffers, gps>>

Copied ==
  /\ copying = 1 /\ serving = 0
  /\ copying' = 0 /\ rxEnabled' = 1
  /\ UNCHANGED <<waiting, serving, buffers, gps>>

Enter ==
  /\ serving = 0 /\ rxEnabled = 1 /\ waiting # {}
  /\ serving' = 1 /\ rxEnabled' = 0
  /\ UNCHANGED <<waiting, copying, buffers, gps>>

\* The byte is stored behind the line; a line feed ends the line, whatever its length.
\* Transmitting it may print a message about the SD card, which unmasks the receiver.
EndLineKept(byte) ==
  /\ byte \in feeds
  /\ printed' = Append(printed, Append(line, byte))
  /\ line' = line
  /\ rxEnabled' \in {rxEnabled, 1}

EndLine(byte) ==
  /\ byte \in feeds
  /\ printed' = Append(printed, Append(line, byte))
  /\ line' = << >>
  /\ rxEnabled' \in {rxEnabled, 1}

StoreTooFew(byte) ==
  /\ byte \notin feeds
  /\ line' = IF Len(line) + 2 >= BufferSize THEN << >> ELSE Append(line, byte)
  /\ UNCHANGED <<printed, rxEnabled>>

\* Any other byte makes it longer; a line that fills the buffer is dropped.
Store(byte) ==
  /\ byte \notin feeds
  /\ line' = IF Len(line) + 1 >= BufferSize THEN << >> ELSE Append(line, byte)
  /\ UNCHANGED <<printed, rxEnabled>>

\* One turn of the handler's loop.
Receive ==
  /\ serving = 1
  /\ \E byte \in waiting :
       /\ \A other \in waiting : byte <= other
       /\ waiting' = waiting \ {byte}
       /\ EndLine(byte) \/ Store(byte)
  /\ UNCHANGED <<copying, serving, gps>>

LeaveMasked ==
  /\ serving = 1 /\ waiting = {}
  /\ serving' = 0
  /\ UNCHANGED <<waiting, rxEnabled, copying, buffers, gps>>

Leave ==
  /\ serving = 1 /\ waiting = {}
  /\ serving' = 0 /\ rxEnabled' = 1
  /\ UNCHANGED <<waiting, copying, buffers, gps>>

Next == Arrive \/ Copy \/ Unmask \/ Copied \/ Enter \/ Receive \/ Leave

Spec == Init /\ [][Next]_vars

\* main ends its copy, a pending unmasked interrupt is taken, the handler runs on.
\* main need not print, nor the GPS module send.
Fairness == WF_vars(Copied) /\ WF_vars(Receive \/ Leave) /\ SF_vars(Enter)

FairSpec == Spec /\ Fairness

-----------------------------------------------------------------------------
(* Properties.                                                             *)

\* The bytes from first to last.
Run(first, last) == [k \in 1 .. last + 1 - first |-> first + k - 1]

\* Between first and last a sentence was sent: it starts behind a line feed, or is the
\* first, and has no other line feed but at its end.
Sentence(first, last) ==
  /\ first = 1 \/ first - 1 \in feeds
  /\ last \in feeds /\ \A n \in first .. last - 1 : n \notin feeds

Taken(byte) == byte \notin waiting /\ byte \notin lost

\* "We need to do line by line buffering" (usart.c:20): a sentence that fits
\* the buffer is printed as it was sent when neither it nor the line feed before it
\* was lost.  A burst of losses, an overlong sentence or noise before it does no
\* further damage, whatever was left in the buffer.
SentencesWhole ==
  \A last \in feeds : \A first \in 1 .. last :
    /\ Sentence(first, last) /\ last < first + BufferSize
    /\ first = 1 \/ Taken(first - 1)
    /\ \A n \in first .. last : Taken(n)
    => \E k \in 1 .. Len(printed) : printed[k] = Run(first, last)

\* What is printed is lines, even of damaged sentences: each ends in its only line feed and
\* fits the buffer, and no byte is printed twice or out of order (usart.c:76-91).
LinesSound ==
  \A k \in 1 .. Len(printed) :
    /\ Len(printed[k]) \in 1 .. BufferSize
    /\ printed[k][Len(printed[k])] \in feeds
    /\ \A p \in 1 .. Len(printed[k]) - 1 :
         printed[k][p] \notin feeds /\ printed[k][p] < printed[k][p + 1]
    /\ k > 1 => printed[k - 1][Len(printed[k - 1])] < printed[k][1]

\* The receiver is emptied again, although main and the handler itself mask it: no way out
\* leaves the interrupt off (usart.c:73, 106, 174, 185).
Served == (waiting # {}) ~> (waiting = {})
=============================================================================
