------------------------------- MODULE Usart --------------------------------
(***************************************************************************)
(* The print buffer and the serial port (firmware/usart.c).                *)
(*                                                                         *)
(* main prints lines with USART0_printf, the handlers of the GPS receiver, *)
(* of the transmitter and of the PPS and tachometer pins run on top of it. *)
(* A handler runs to its end, so it is one action; main is modelled load   *)
(* by load and store by store, because every index it works on is shared.  *)
(* USART0_printf protects itself by masking the interrupts of the          *)
(* transmitter and, while it fills the buffer, of the GPS receiver.        *)
(*                                                                         *)
(* sd_card_is_ready is 0 here, so the offer to the SD card that ends       *)
(* _try_to_transmit has no effect; module CircWriter is about that offer.  *)
(***************************************************************************)
EXTENDS Naturals, Sequences, SequencesExt

CONSTANTS
  Size,       \* PRINT_BUFFER_SIZE (1024)
  MainLen,    \* length of a line main prints
  HandlerLen, \* length of a GPS sentence, and of a line a handler prints
  Irqs,       \* the sets of interrupts that may occur in a behaviour
  MaxLines    \* bound: lines printed and received

ASSUME UsartAssumption ==
  /\ Size \in Nat \ {0} /\ MainLen \in Nat \ {0} /\ HandlerLen \in Nat \ {0}
  /\ MainLen < Size /\ HandlerLen < Size
  /\ Irqs \subseteq SUBSET {"rx", "tx", "edge"}
  /\ MaxLines \in Nat

VARIABLES
  irqs,      \* the interrupts that occur in this behaviour
  buffer,    \* print_buffer; cell Size is the memory behind it
  producer,  \* print_producer_idx
  consumer,  \* print_consumer_idx
  rxEnabled, \* RXCIE1
  txEnabled, \* TXCIE0
  hw,        \* bytes in the transmitter: data register and shift register
  txc,       \* the transmit-complete flag
  pc,        \* where main is in USART0_printf
  i,         \* its loop counter
  reg,       \* the index it has loaded
  \* history, read by the properties and the pacing of lines only
  lines,     \* lines printed and received
  stream,    \* bytes in the order they were put into the buffer
  wire       \* bytes in the order the transmitter got them

ring == <<buffer, producer, stream, lines>>
port == <<consumer, hw, wire>>
masks == <<rxEnabled, txEnabled>>
vars == <<irqs, ring, port, masks, txc, pc, i, reg>>

\* A byte: the line it belongs to, its place in it, and whether it ends it.
Bytes(line, len) == [k \in 1 .. len |-> [line |-> line, place |-> k, last |-> k = len]]
Nothing == [line |-> 0, place |-> 1, last |-> TRUE]

TypeOK ==
  /\ irqs \in Irqs
  /\ buffer \in [0 .. Size -> [line : 0 .. MaxLines, place : 1 .. MainLen + HandlerLen, last : BOOLEAN]]
  /\ producer \in 0 .. Size /\ consumer \in 0 .. Size
  /\ rxEnabled \in {0, 1} /\ txEnabled \in {0, 1} /\ txc \in {0, 1}
  /\ hw \in 0 .. 2
  /\ pc \in {"idle", "mask", "put", "load", "bump", "wrap",
             "test", "sendload", "sendbump", "sendwrap", "unmask"}
  /\ i \in 0 .. MainLen /\ reg \in 0 .. Size
  /\ lines \in 0 .. MaxLines

Init ==
  /\ irqs \in Irqs
  /\ buffer = [c \in 0 .. Size |-> Nothing]
  /\ producer = 0 /\ consumer = 0
  /\ rxEnabled = 1 /\ txEnabled = 1
  /\ hw = 0 /\ txc = 0
  /\ pc = "idle" /\ i = 0 /\ reg = 0
  /\ lines = 0 /\ stream = << >> /\ wire = << >>

\* Lines come no faster than the port can send them: n more bytes do not lap the
\* consumer.  The code does not check this; main's delays are meant to see to it.
Paced(n) == Len(stream) - Len(wire) + n < Size

\* An index past the end of the buffer starts over.
Wrapped(index) == IF index >= Size THEN 0 ELSE index

-----------------------------------------------------------------------------
(* Handlers.                                                               *)

\* Where the k-th byte (from 0) goes that is put at, or taken from, an index.
Slot(index, k) == IF k = 0 THEN index
                  ELSE IF index >= Size THEN k - 1 ELSE (index + k) % Size

\* A handler puts a line into the buffer.
PutLine(len) ==
  LET bytes == Bytes(lines + 1, len)
  IN  /\ buffer' = [c \in 0 .. Size |->
                      IF \E k \in 0 .. len - 1 : c = Slot(producer, k)
                        THEN bytes[1 + CHOOSE k \in 0 .. len - 1 : c = Slot(producer, k)]
                        ELSE buffer[c]]
      /\ producer' = Slot(producer, len)
      /\ stream' = stream \o bytes
      /\ lines' = lines + 1

\* _try_to_transmit in a handler: the transmitter takes what it has room for.
Transmit ==
  LET waiting == (producer' + Size - consumer) % Size
      n == IF producer' = consumer THEN 0
           ELSE IF waiting < 2 - hw THEN waiting ELSE 2 - hw
  IN  /\ wire' = wire \o [k \in 1 .. n |-> buffer'[Slot(consumer, k - 1)]]
      /\ consumer' = IF n = 0 THEN consumer ELSE Slot(consumer, n)
      /\ hw' = hw + n

LineArrives(len) ==
  /\ lines < MaxLines
  /\ Paced(len + IF pc \in {"mask", "put", "load", "bump", "wrap"} THEN MainLen - i ELSE 0)

\* USART1_RX, at the end of a sentence.
RxInterrupt ==
  /\ "rx" \in irqs /\ rxEnabled = 1 /\ LineArrives(HandlerLen)
  /\ PutLine(HandlerLen)
  /\ Transmit
  /\ rxEnabled' = 1
  /\ UNCHANGED <<txEnabled, txc, pc, i, reg>>

\* USART0_TX.
TxInterrupt ==
  /\ "tx" \in irqs /\ txEnabled = 1 /\ txc = 1
  /\ txc' = 0
  /\ UNCHANGED ring
  /\ Transmit
  /\ UNCHANGED <<masks, pc, i, reg>>

\* PCINT3 and INT2 call USART0_printf, which ends by enabling both interrupts,
\* whatever main had masked.
EdgeInterrupt ==
  /\ "edge" \in irqs /\ LineArrives(HandlerLen)
  /\ PutLine(HandlerLen)
  /\ Transmit
  /\ rxEnabled' = 1 /\ txEnabled' = 1
  /\ UNCHANGED <<txc, pc, i, reg>>

\* The shift register is done with a byte; after the last one the flag is raised.
Shift ==
  /\ hw > 0
  /\ hw' = hw - 1
  /\ txc' = IF hw = 1 THEN 1 ELSE txc
  /\ UNCHANGED <<ring, consumer, wire, masks, pc, i, reg>>

-----------------------------------------------------------------------------
(* main in USART0_printf.                                                  *)

PrintfUnmasked ==
  /\ pc = "idle" /\ lines < MaxLines /\ Paced(MainLen)
  /\ pc' = "put" /\ i' = 0
  /\ lines' = lines + 1
  /\ txEnabled' = 0 /\ reg' = producer
  /\ UNCHANGED <<buffer, producer, stream, port, rxEnabled, txc>>

\* TXCIE0 is cleared and the line formatted.
Printf ==
  /\ pc = "idle" /\ lines < MaxLines /\ Paced(MainLen)
  /\ pc' = "mask" /\ i' = 0
  /\ lines' = lines + 1
  /\ txEnabled' = 0
  /\ UNCHANGED <<buffer, producer, stream, port, rxEnabled, txc, reg>>

\* RXCIE1 is cleared and the index loaded for the first byte.
Mask ==
  /\ pc = "mask"
  /\ pc' = "put"
  /\ rxEnabled' = 0 /\ reg' = producer
  /\ UNCHANGED <<ring, port, txEnabled, txc, i>>

\* print_buffer[print_producer_idx] = buffer[i]
Put ==
  /\ pc = "put"
  /\ pc' = "load"
  /\ LET byte == [line |-> lines, place |-> i + 1, last |-> i + 1 = MainLen]
     IN  buffer' = [buffer EXCEPT ![reg] = byte] /\ stream' = Append(stream, byte)
  /\ UNCHANGED <<producer, lines, port, masks, txc, i, reg>>

\* print_producer_idx++
Load ==
  /\ pc = "load"
  /\ pc' = "bump"
  /\ reg' = producer
  /\ UNCHANGED <<ring, port, masks, txc, i>>

Bump ==
  /\ pc = "bump"
  /\ pc' = "wrap"
  /\ producer' = reg + 1
  /\ UNCHANGED <<buffer, stream, lines, port, masks, txc, i, reg>>

\* The wrap, and the next turn of the loop or its end, which enables RXCIE1.
Wrap ==
  /\ pc = "wrap"
  /\ producer' = Wrapped(producer)
  /\ i' = i + 1
  /\ reg' = producer'
  /\ IF i' < MainLen THEN pc' = "put" /\ UNCHANGED rxEnabled
                     ELSE pc' = "test" /\ rxEnabled' = 1
  /\ UNCHANGED <<buffer, stream, lines, port, txEnabled, txc>>

TestBufferOnly ==
  /\ pc = "test"
  /\ IF producer # consumer THEN pc' = "sendload" ELSE pc' = "unmask"
  /\ UNCHANGED <<ring, port, masks, txc, i, reg>>

\* _try_to_transmit: the loop's condition, and the byte for the data register,
\* which drops it when it is full.
Test ==
  /\ pc = "test"
  /\ IF hw < 2 /\ producer # consumer THEN pc' = "sendload" ELSE pc' = "unmask"
  /\ UNCHANGED <<ring, port, masks, txc, i, reg>>

\* UDR0 = print_buffer[print_consumer_idx]; print_consumer_idx is loaded to be
\* incremented.
SendLoad ==
  /\ pc = "sendload"
  /\ pc' = "sendbump"
  /\ reg' = consumer
  /\ IF hw < 2 THEN hw' = hw + 1 /\ wire' = Append(wire, buffer[consumer])
               ELSE UNCHANGED <<hw, wire>>
  /\ UNCHANGED <<ring, consumer, masks, txc, i>>

SendBump ==
  /\ pc = "sendbump"
  /\ pc' = "sendwrap"
  /\ consumer' = reg + 1
  /\ UNCHANGED <<ring, hw, wire, masks, txc, i, reg>>

SendWrap ==
  /\ pc = "sendwrap"
  /\ pc' = "test"
  /\ consumer' = Wrapped(consumer)
  /\ UNCHANGED <<ring, hw, wire, masks, txc, i, reg>>

UnmaskForgotten ==
  /\ pc = "unmask"
  /\ pc' = "idle"
  /\ UNCHANGED <<ring, port, masks, txc, i, reg>>

\* TXCIE0 is set and USART0_printf returns.
Unmask ==
  /\ pc = "unmask"
  /\ pc' = "idle"
  /\ txEnabled' = 1
  /\ UNCHANGED <<ring, port, rxEnabled, txc, i, reg>>

Main == \/ Mask \/ Put \/ Load \/ Bump \/ Wrap
        \/ Test \/ SendLoad \/ SendBump \/ SendWrap \/ Unmask

Next ==
  /\ Printf \/ Main \/ RxInterrupt \/ TxInterrupt \/ EdgeInterrupt \/ Shift
  /\ UNCHANGED irqs

Spec == Init /\ [][Next]_vars

\* The transmitter shifts, pending interrupts are taken, main runs on.
Fairness ==
  /\ WF_vars(Main /\ UNCHANGED irqs)
  /\ WF_vars(TxInterrupt /\ UNCHANGED irqs)
  /\ WF_vars(Shift /\ UNCHANGED irqs)

FairSpec == Spec /\ Fairness

-----------------------------------------------------------------------------
(* Properties.                                                             *)

Copying == pc \in {"put", "load", "bump", "wrap"}

\* "... so that the GPS sentences and our own sentences don't get mixed"
\* (usart.c:20-21): in the buffer, a line follows the end of the line before it.
LinesWhole ==
  \A k \in 1 .. Len(stream) - 1 :
    IF stream[k].last THEN stream[k + 1].place = 1
    ELSE stream[k + 1].line = stream[k].line /\ stream[k + 1].place = stream[k].place + 1

\* What USART0_printf masks, and the GPS sentences in particular, does not mix the
\* lines; the handlers of the pins do.
LinesKeptApart == "edge" \notin irqs => LinesWhole

\* No increment of the producer index is lost and no byte is put behind the
\* buffer, although main's increment and wrap are several steps.
ProducerSound ==
  "edge" \notin irqs =>
    /\ ~Copying => producer = Len(stream) % Size
    /\ buffer[Size] = Nothing

\* Whoever interrupts whom, the interrupts of the receiver and of the transmitter are
\* on again when nobody prints: no handler leaves them masked (usart.c:162-191).
InterruptsBackOn == pc = "idle" => rxEnabled = 1 /\ txEnabled = 1

\* "Outgoing serial is just the NMEA sentence again, but also our own sentences"
\* (usart.c:15): the port sends what was put into the buffer, once and in order, if
\* no handler that transmits runs on top of main's transmitting (usart.c:187).
WireIsStream == irqs \subseteq {"tx"} => IsPrefix(wire, stream)

\* What is in the buffer is sent: masked transmit interrupts are not lost.
Drained ==
  (irqs = {"tx"} /\ Len(wire) < Len(stream)) ~> (Len(wire) = Len(stream))
=============================================================================
